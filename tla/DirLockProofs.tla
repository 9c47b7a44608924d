--------------------------- MODULE DirLockProofs ---------------------------
(***************************************************************************)
(* Proofs about DirLock, for every set of chats, calls and directories.    *)
(***************************************************************************)
EXTENDS DirLock, FiniteSetTheorems, TLAPS

-----------------------------------------------------------------------------
(* Types *)

\* A call that waits, is ready or holds is a live one.
LEMMA LiveCalls ==
    ASSUME TypeOK, NEW k \in Calls
    PROVE  /\ k \in Waiting => call[k] \in LiveCall
           /\ call[k].pc \in {"waiting", "ready", "held"} => call[k] \in LiveCall
           /\ call[k] # NoCall => call[k] \in LiveCall
  BY DEF TypeOK, Waiting, NoCall, LiveCall

\* Grants keep the locks well formed.
LEMMA HoldersWithType ==
    ASSUME NEW hs \in [Chats -> Lock], NEW G \in SUBSET Calls,
           \A k \in G : call[k] \in LiveCall
    PROVE  HoldersWith(hs, G) \in [Chats -> Lock]
  <1> SUFFICES ASSUME NEW c \in Chats
               PROVE  HoldersWith(hs, G)[c] \in Lock
      BY DEF HoldersWith
  <1> DEFINE mine == {k \in G : call[k].chat = c}
  <1>1. Cardinality(mine) \in Nat
      <2>1. IsFiniteSet(mine)
          BY FS_Subset, DirLockConstants
      <2> QED BY <2>1, FS_CardinalityType
  <1>2. UNION {call[k].dirs : k \in mine} \in SUBSET Dirs
      BY DEF LiveCall
  <1>3. hs[c] \in Lock
      OBVIOUS
  <1>4. CASE mine = {}
      BY <1>3, <1>4 DEF HoldersWith
  <1>5. CASE mine # {}
      <2> DEFINE n == Cardinality(mine)
                 ds == UNION {call[k].dirs : k \in mine}
                 md == IF \/ hs[c].mode = "exclusive"
                          \/ \E k \in mine : call[k].mode = "exclusive"
                       THEN "exclusive" ELSE "readonly"
      <2>1. HoldersWith(hs, G)[c] =
               [dirs |-> hs[c].dirs \cup ds, mode |-> md,
                reason |-> "running", activeRuns |-> hs[c].activeRuns + n]
          BY <1>5 DEF HoldersWith
      <2>2. md \in Modes
          BY DEF Modes
      <2> HIDE DEF n, ds, md, mine
      <2>3. n \in Int /\ ds \in SUBSET Dirs
          BY <1>1, <1>2 DEF n, ds
      <2> QED BY <1>3, <2>1, <2>2, <2>3 DEF Lock, Reasons
  <1> QED BY <1>4, <1>5

\* A pass over the waiters keeps the types.
LEMMA PassType ==
    ASSUME TypeOK, NEW hs \in [Chats -> Lock], NEW done \in SUBSET Calls,
           NEW woken \in SUBSET Waiting, processWaiters(hs, done, woken)
    PROVE  /\ holders' \in [Chats -> Lock]
           /\ call' \in [Calls -> {NoCall} \cup LiveCall]
           /\ ahead' \in [Calls -> SUBSET Calls]
  <1> DEFINE ws == Waiting \ (done \cup woken)
  <1>1. PICK G \in SUBSET ws :
           /\ holders' = HoldersWith(hs, G)
           /\ call' = [k \in Calls |->
                          IF k \in done THEN NoCall
                          ELSE IF k \in woken \cup G
                               THEN [call[k] EXCEPT !.pc = "ready"]
                               ELSE call[k]]
           /\ ahead' = [k \in Calls |->
                          IF k \in ws \ G THEN ahead[k] \cap (ws \ G) ELSE {}]
      BY DEF processWaiters
  <1>2. \A k \in woken \cup G : k \in Calls /\ call[k] \in LiveCall
      BY LiveCalls DEF Waiting
  <1>3. holders' \in [Chats -> Lock]
      BY <1>1, <1>2, HoldersWithType
  <1>4. call' \in [Calls -> {NoCall} \cup LiveCall]
      <2> SUFFICES ASSUME NEW k \in Calls
                   PROVE  call'[k] \in {NoCall} \cup LiveCall
          BY <1>1
      <2>1. CASE k \in done
          BY <1>1, <2>1
      <2>2. CASE k \notin done /\ k \in woken \cup G
          BY <1>1, <1>2, <2>2 DEF LiveCall
      <2>3. CASE k \notin done /\ k \notin woken \cup G
          BY <1>1, <2>3 DEF TypeOK
      <2> QED BY <2>1, <2>2, <2>3
  <1>5. ahead' \in [Calls -> SUBSET Calls]
      BY <1>1 DEF TypeOK
  <1> QED BY <1>3, <1>4, <1>5

\* No lock is a lock of the right type.
LEMMA FreeType == Free \in Lock
  BY DEF Free, Lock, Modes, Reasons

\* A request makes a well-formed call.
LEMMA CallType ==
    ASSUME NEW r \in Requests, NEW pc \in {"waiting", "ready", "held"}
    PROVE  CallOf(r, pc) \in LiveCall
  BY DirLockConstants DEF CallOf, LiveCall

\* The initial state is well typed.
LEMMA InitType == Init => TypeOK
  BY FreeType DEF Init, TypeOK

\* The release function keeps the types.
LEMMA ReleaseType ==
    ASSUME TypeOK, NEW k \in Calls, call[k] \in LiveCall,
           NEW keep \in BOOLEAN, release(k, keep)
    PROVE  /\ holders' \in [Chats -> Lock]
           /\ call' \in [Calls -> {NoCall} \cup LiveCall]
           /\ ahead' \in [Calls -> SUBSET Calls]
  <1> DEFINE c == call[k].chat
             left == [holders[c] EXCEPT !.activeRuns = @ - 1]
  <1>1. c \in Chats
      BY DEF LiveCall
  <1>2. left \in Lock /\ [left EXCEPT !.reason = "uncommitted"] \in Lock
      <2>1. holders[c] \in Lock
          BY <1>1 DEF TypeOK
      <2> DEFINE h == holders[c]
      <2>2. left = [dirs |-> h.dirs, mode |-> h.mode, reason |-> h.reason,
                    activeRuns |-> h.activeRuns - 1]
          BY <2>1 DEF Lock
      <2>3. h.dirs \in SUBSET Dirs /\ h.mode \in Modes /\ h.reason \in Reasons
            /\ h.activeRuns - 1 \in Int
          BY <2>1 DEF Lock
      <2> HIDE DEF left, h
      <2>4. left \in Lock
          BY <2>2, <2>3 DEF Lock
      <2> QED BY <2>4 DEF Lock, Reasons
  <1>3. \/ holders' = holders /\ call' = [call EXCEPT ![k] = NoCall] /\ ahead' = ahead
        \/ /\ holders' = [holders EXCEPT ![c] = left]
           /\ call' = [call EXCEPT ![k] = NoCall] /\ ahead' = ahead
        \/ /\ holders' = [holders EXCEPT ![c] = [left EXCEPT !.reason = "uncommitted"]]
           /\ call' = [call EXCEPT ![k] = NoCall] /\ ahead' = ahead
        \/ processWaiters([holders EXCEPT ![c] = Free], {k}, {})
      BY DEF release
  <1>4. CASE processWaiters([holders EXCEPT ![c] = Free], {k}, {})
      <2>1. PICK hs \in [Chats -> Lock] : hs = [holders EXCEPT ![c] = Free]
          BY FreeType DEF TypeOK
      <2>2. processWaiters(hs, {k}, {})
          BY <1>4, <2>1
      <2>3. {k} \in SUBSET Calls /\ {} \in SUBSET Waiting
          OBVIOUS
      <2> HIDE DEF left, c
      <2> QED BY ONLY TypeOK, <2>2, <2>3, PassType, hs \in [Chats -> Lock]
  <1> HIDE DEF left, c
  <1> QED BY <1>1, <1>2, <1>3, <1>4 DEF TypeOK

\* Every step keeps the types.
LEMMA StepType == TypeOK /\ [Next]_vars => TypeOK'
  <1> SUFFICES ASSUME TypeOK, [Next]_vars PROVE TypeOK'
      OBVIOUS
  <1>1. ASSUME NEW k \in Calls, NEW r \in Requests, AcquireReentrant(k, r) PROVE TypeOK'
      <2> DEFINE h == holders[r.chat]
                 h2 == [dirs |-> IF Grows(r) THEN Grown(r).dirs ELSE h.dirs,
                        mode |-> TargetMode(r), reason |-> "running",
                        activeRuns |-> h.activeRuns + 1]
      <2>1. r.chat \in Chats /\ r.dirs \in SUBSET Dirs
          BY DirLockConstants
      <2>2. h \in Lock
          BY <2>1 DEF TypeOK
      <2>3. h2 \in Lock
          BY <2>1, <2>2 DEF Lock, Modes, Reasons, Grown, TargetMode
      <2>4. holders' = [holders EXCEPT ![r.chat] = h2]
          BY <1>1 DEF AcquireReentrant
      <2>5. call' = [call EXCEPT ![k] = CallOf(r, "held")] /\ UNCHANGED <<ahead, torn>>
          BY <1>1 DEF AcquireReentrant
      <2> HIDE DEF h2
      <2> QED BY <2>1, <2>3, <2>4, <2>5, CallType DEF TypeOK
  <1>2. ASSUME NEW k \in Calls, NEW r \in Requests, AcquireFree(k, r) PROVE TypeOK'
      <2>1. [dirs |-> r.dirs, mode |-> r.mode, reason |-> "running", activeRuns |-> 1] \in Lock
          BY DirLockConstants DEF Lock, Reasons
      <2> QED BY <1>2, <2>1, CallType DEF AcquireFree, TypeOK
  <1>3. ASSUME NEW k \in Calls, NEW r \in Requests, AcquireWait(k, r) PROVE TypeOK'
      BY <1>3, CallType DEF AcquireWait, TypeOK, Waiting
  <1>4. ASSUME NEW k \in Calls, Resume(k) PROVE TypeOK'
      <2>1. call[k] \in LiveCall
          BY <1>4, LiveCalls DEF Resume
      <2>2. [call[k] EXCEPT !.pc = "held"] \in LiveCall
          BY <2>1 DEF LiveCall
      <2> QED BY <1>4, <2>2 DEF Resume, TypeOK
  <1>5. ASSUME NEW k \in Calls, Release(k) PROVE TypeOK'
      BY <1>5, LiveCalls, ReleaseType DEF Release, TypeOK
  <1>6. ASSUME NEW k \in Calls, CancelWaiting(k) PROVE TypeOK'
      <2>1. PICK hs \in [Chats -> Lock] : hs = holders
          BY DEF TypeOK
      <2>2. processWaiters(hs, {k}, {})
          BY <1>6, <2>1 DEF CancelWaiting
      <2> QED BY <1>6, <2>2, PassType DEF CancelWaiting, TypeOK
  <1>7. ASSUME NEW k \in Calls, CancelReady(k) PROVE TypeOK'
      BY <1>7, LiveCalls, ReleaseType DEF CancelReady, TypeOK
  <1>8. ASSUME NEW c \in Chats, UnlockIdle(c) PROVE TypeOK'
      <2>1. PICK hs \in [Chats -> Lock] : hs = [holders EXCEPT ![c] = Free]
          BY FreeType DEF TypeOK
      <2>2. processWaiters(hs, {}, {})
          BY <1>8, <2>1 DEF UnlockIdle
      <2> QED BY <1>8, <2>2, PassType DEF UnlockIdle, TypeOK
  <1>9. ASSUME NEW c \in Chats, ForceReleaseChat(c) PROVE TypeOK'
      <2>1. PICK hs \in [Chats -> Lock] : hs = [holders EXCEPT ![c] = Free]
          BY FreeType DEF TypeOK
      <2>2. PICK woken \in SUBSET Waiting : woken = {k \in Waiting : call[k].chat = c}
          OBVIOUS
      <2>3. processWaiters(hs, {}, woken)
          BY <1>9, <2>1, <2>2 DEF ForceReleaseChat
      <2>4. torn' \in SUBSET Chats
          BY <1>9 DEF ForceReleaseChat, TypeOK
      <2> QED BY <2>3, <2>4, PassType DEF TypeOK
  <1>10. CASE UNCHANGED vars
      BY <1>10 DEF vars, TypeOK
  <1> QED BY <1>1, <1>2, <1>3, <1>4, <1>5, <1>6, <1>7, <1>8, <1>9, <1>10 DEF Next

\* The variables of the lock manager keep their types.
THEOREM TypeCorrect == Spec => []TypeOK
  BY InitType, StepType, PTL DEF Spec

-----------------------------------------------------------------------------
(* No lost wake-ups *)

\* The lock h2 excludes at least what the lock h1 excludes.
Within(h1, h2) ==
    /\ h1.dirs \subseteq h2.dirs
    /\ h1.mode = "exclusive" => h2.mode = "exclusive" \/ h1.dirs = {}

\* A claim that clashes does so with more directories and a stronger mode.
LEMMA ClashGrows ==
    ASSUME NEW x, NEW h1, NEW h2, Within(h1, h2), Clash(x, h1)
    PROVE  Clash(x, h2)
  BY DEF Within, Clash

\* More grants exclude more.
LEMMA GrantsGrow ==
    ASSUME NEW hs, NEW G2, NEW G1 \in SUBSET G2, NEW c \in Chats
    PROVE  Within(HoldersWith(hs, G1)[c], HoldersWith(hs, G2)[c])
  <1> DEFINE m1 == {k \in G1 : call[k].chat = c}
             m2 == {k \in G2 : call[k].chat = c}
             h1 == HoldersWith(hs, G1)[c]
             h2 == HoldersWith(hs, G2)[c]
  <1>1. h1 = IF m1 = {} THEN hs[c]
             ELSE [dirs |-> hs[c].dirs \cup UNION {call[k].dirs : k \in m1},
                   mode |-> IF \/ hs[c].mode = "exclusive"
                               \/ \E k \in m1 : call[k].mode = "exclusive"
                            THEN "exclusive" ELSE "readonly",
                   reason |-> "running",
                   activeRuns |-> hs[c].activeRuns + Cardinality(m1)]
      BY DEF HoldersWith
  <1>2. h2 = IF m2 = {} THEN hs[c]
             ELSE [dirs |-> hs[c].dirs \cup UNION {call[k].dirs : k \in m2},
                   mode |-> IF \/ hs[c].mode = "exclusive"
                               \/ \E k \in m2 : call[k].mode = "exclusive"
                            THEN "exclusive" ELSE "readonly",
                   reason |-> "running",
                   activeRuns |-> hs[c].activeRuns + Cardinality(m2)]
      BY DEF HoldersWith
  <1>3. m1 \subseteq m2
      OBVIOUS
  <1> HIDE DEF m1, m2, h1, h2
  <1>4. h1.dirs \subseteq h2.dirs
      BY <1>1, <1>2, <1>3
  <1>5. h1.mode = "exclusive" => h2.mode = "exclusive"
      BY <1>1, <1>2, <1>3
  <1> QED BY <1>4, <1>5 DEF Within, h1, h2

\* What a pass over the waiters leaves behind: the waiters it did not grant, in
\* their order, and the rest of the calls granted, woken or gone.
LEMMA PassWaiters ==
    ASSUME TypeOK, NEW hs, NEW done \in SUBSET Calls, NEW woken \in SUBSET Waiting,
           NEW G \in SUBSET (Waiting \ (done \cup woken)),
           call' = [k \in Calls |->
                       IF k \in done THEN NoCall
                       ELSE IF k \in woken \cup G
                            THEN [call[k] EXCEPT !.pc = "ready"]
                            ELSE call[k]]
    PROVE  /\ Waiting' = (Waiting \ (done \cup woken)) \ G
           /\ \A k \in Waiting' : k \in Calls /\ call'[k] = call[k]
  <1>1. \A k \in Calls : call'[k].pc = "waiting" <=> k \in (Waiting \ (done \cup woken)) \ G
      <2> TAKE k \in Calls
      <2>1. CASE k \in done
          BY <2>1 DEF NoCall
      <2>2. CASE k \notin done /\ k \in woken \cup G
          <3>1. call[k] \in LiveCall
              BY <2>2, LiveCalls
          <3>2. call'[k] = [call[k] EXCEPT !.pc = "ready"]
              BY <2>2
          <3>3. call'[k].pc = "ready"
              BY <3>1, <3>2 DEF LiveCall
          <3> QED BY <2>2, <3>3
      <2>3. CASE k \notin done /\ k \notin woken \cup G
          BY <2>3 DEF Waiting
      <2> QED BY <2>1, <2>2, <2>3
  <1>2. Waiting' = (Waiting \ (done \cup woken)) \ G
      BY <1>1 DEF Waiting
  <1> QED BY <1>2 DEF Waiting

\* A pass keeps the list a list and leaves nobody behind who could run.
LEMMA PassWakesAll ==
    ASSUME TypeOK, WaitersAreList,
           NEW hs \in [Chats -> Lock], NEW done \in SUBSET Calls,
           NEW woken \in SUBSET Waiting, processWaiters(hs, done, woken)
    PROVE  WaitersAreList' /\ NoLostWakeup'
  <1> DEFINE ws == Waiting \ (done \cup woken)
  <1>1. PICK G \in SUBSET ws :
           /\ IsGrantPass(hs, ws, G)
           /\ holders' = HoldersWith(hs, G)
           /\ call' = [k \in Calls |->
                          IF k \in done THEN NoCall
                          ELSE IF k \in woken \cup G
                               THEN [call[k] EXCEPT !.pc = "ready"]
                               ELSE call[k]]
           /\ ahead' = [k \in Calls |->
                          IF k \in ws \ G THEN ahead[k] \cap (ws \ G) ELSE {}]
      BY DEF processWaiters
  <1>2. Waiting' = ws \ G /\ \A k \in Waiting' : k \in Calls /\ call'[k] = call[k]
      BY <1>1, PassWaiters
  <1>3. \A k \in Calls : ahead'[k] = IF k \in Waiting' THEN ahead[k] \cap Waiting' ELSE {}
      BY <1>1, <1>2
  <1>4. Waiting' \subseteq Waiting
      BY <1>2
  <1>5. WaitersAreList'
      <2>1. \A k \in Waiting' : k \in Waiting /\ k \in Calls /\ ahead'[k] = ahead[k] \cap Waiting'
          BY <1>2, <1>3, <1>4
      <2>2. \A k \in Calls : ahead'[k] \subseteq Waiting' /\ (k \notin Waiting' => ahead'[k] = {})
          BY <1>3
      <2>3. \A k \in Waiting' : k \notin ahead'[k]
          BY <2>1 DEF WaitersAreList
      <2>4. \A j, k \in Waiting' : j # k => (j \in ahead'[k] <=> k \notin ahead'[j])
          BY <2>1 DEF WaitersAreList
      <2>5. \A j, k \in Waiting' : j \in ahead'[k] => ahead'[j] \subseteq ahead'[k]
          BY <2>1 DEF WaitersAreList
      <2> QED BY <2>2, <2>3, <2>4, <2>5 DEF WaitersAreList
  <1>6. ASSUME NEW k \in Waiting'
        PROVE  \/ BlockedByHolder(holders', call'[k].chat, call'[k])
               \/ \E w \in ahead'[k] : /\ SameRunner(call'[w].chat, call'[k].chat)
                                       /\ Clash(call'[k], call'[w])
      <2>1. /\ k \in ws /\ k \notin G /\ k \in Calls /\ call'[k] = call[k]
            /\ ahead'[k] = ahead[k] \cap (ws \ G)
          BY <1>2, <1>3, <1>6
      <2>2. \/ BlockedByHolder(HoldersWith(hs, G \cap ahead[k]), call[k].chat, call[k])
            \/ \E w \in (ws \cap ahead[k]) \ G :
                  SameRunner(call[w].chat, call[k].chat) /\ Clash(call[k], call[w])
          BY <1>1, <2>1 DEF IsGrantPass
      <2>3. CASE \E w \in (ws \cap ahead[k]) \ G :
                    SameRunner(call[w].chat, call[k].chat) /\ Clash(call[k], call[w])
          <3>1. PICK w \in (ws \cap ahead[k]) \ G :
                    SameRunner(call[w].chat, call[k].chat) /\ Clash(call[k], call[w])
              BY <2>3
          <3>2. w \in ahead'[k] /\ call'[w] = call[w]
              BY <1>2, <2>1, <3>1
          <3> QED BY <2>1, <3>1, <3>2
      <2>4. CASE BlockedByHolder(HoldersWith(hs, G \cap ahead[k]), call[k].chat, call[k])
          <3>1. PICK o \in Chats \ {call[k].chat} :
                   /\ SameRunner(o, call[k].chat)
                   /\ Clash(call[k], HoldersWith(hs, G \cap ahead[k])[o])
              BY <2>4 DEF BlockedByHolder
          <3>2. Within(HoldersWith(hs, G \cap ahead[k])[o], HoldersWith(hs, G)[o])
              BY GrantsGrow
          <3>3. Clash(call[k], HoldersWith(hs, G)[o])
              BY <3>1, <3>2, ClashGrows
          <3> QED BY <1>1, <2>1, <3>1, <3>3 DEF BlockedByHolder
      <2> QED BY <2>2, <2>3, <2>4
  <1> QED BY <1>5, <1>6 DEF NoLostWakeup

\* A step that leaves the waiters alone and frees nothing keeps them blocked.
LEMMA QuietStep ==
    ASSUME TypeOK, WaitersAreList, NoLostWakeup,
           Waiting' = Waiting, \A k \in Waiting : call'[k] = call[k],
           ahead' = ahead, \A c \in Chats : Within(holders[c], holders'[c])
    PROVE  WaitersAreList' /\ NoLostWakeup'
  <1>1. WaitersAreList'
      BY DEF WaitersAreList
  <1>2. ASSUME NEW k \in Waiting'
        PROVE  \/ BlockedByHolder(holders', call'[k].chat, call'[k])
               \/ \E w \in ahead'[k] : /\ SameRunner(call'[w].chat, call'[k].chat)
                                       /\ Clash(call'[k], call'[w])
      <2>1. k \in Waiting /\ k \in Calls /\ call'[k] = call[k]
          BY <1>2 DEF Waiting
      <2>2. CASE BlockedByHolder(holders, call[k].chat, call[k])
          <3>1. PICK o \in Chats \ {call[k].chat} :
                   SameRunner(o, call[k].chat) /\ Clash(call[k], holders[o])
              BY <2>2 DEF BlockedByHolder
          <3>2. Clash(call[k], holders'[o])
              BY <3>1, ClashGrows
          <3> QED BY <2>1, <3>1, <3>2 DEF BlockedByHolder
      <2>3. CASE \E w \in ahead[k] : /\ SameRunner(call[w].chat, call[k].chat)
                                     /\ Clash(call[k], call[w])
          <3>1. PICK w \in ahead[k] : /\ SameRunner(call[w].chat, call[k].chat)
                                      /\ Clash(call[k], call[w])
              BY <2>3
          <3>2. w \in ahead'[k] /\ call'[w] = call[w]
              BY <2>1, <3>1 DEF WaitersAreList
          <3> QED BY <2>1, <3>1, <3>2
      <2> QED BY <2>1, <2>2, <2>3 DEF NoLostWakeup
  <1> QED BY <1>1, <1>2 DEF NoLostWakeup

\* The end of a run, or of a call cancelled after its grant.
LEMMA ReleaseWakesAll ==
    ASSUME TypeOK, WaitersAreList, NoLostWakeup,
           NEW k \in Calls, call[k].pc \in {"ready", "held"},
           NEW keep \in BOOLEAN, release(k, keep)
    PROVE  WaitersAreList' /\ NoLostWakeup'
  <1> DEFINE c == call[k].chat
             left == [holders[c] EXCEPT !.activeRuns = @ - 1]
  <1>1. c \in Chats /\ call[k] \in LiveCall
      BY LiveCalls DEF LiveCall
  <1>2. CASE processWaiters([holders EXCEPT ![c] = Free], {k}, {})
      <2>1. PICK hs \in [Chats -> Lock] : hs = [holders EXCEPT ![c] = Free]
          BY FreeType DEF TypeOK
      <2>2. processWaiters(hs, {k}, {})
          BY <1>2, <2>1
      <2>3. {k} \in SUBSET Calls /\ {} \in SUBSET Waiting
          OBVIOUS
      <2> HIDE DEF left, c
      <2> QED BY ONLY TypeOK, WaitersAreList, <2>2, <2>3, PassWakesAll, hs \in [Chats -> Lock]
  <1>3. CASE /\ call' = [call EXCEPT ![k] = NoCall] /\ ahead' = ahead
             /\ \/ holders' = holders
                \/ holders' = [holders EXCEPT ![c] = left]
                \/ holders' = [holders EXCEPT ![c] = [left EXCEPT !.reason = "uncommitted"]]
      <2>1. Waiting' = Waiting /\ \A j \in Waiting : call'[j] = call[j]
          BY <1>3 DEF Waiting, NoCall, TypeOK
      <2>2. \A d \in Chats : holders'[d].dirs = holders[d].dirs /\ holders'[d].mode = holders[d].mode
          <3>1. holders[c] \in Lock
              BY <1>1 DEF TypeOK
          <3>2. /\ left.dirs = holders[c].dirs /\ left.mode = holders[c].mode
                /\ [left EXCEPT !.reason = "uncommitted"].dirs = holders[c].dirs
                /\ [left EXCEPT !.reason = "uncommitted"].mode = holders[c].mode
              BY <3>1 DEF Lock
          <3> HIDE DEF left, c
          <3> QED BY <1>1, <1>3, <3>2 DEF TypeOK
      <2>3. \A d \in Chats : Within(holders[d], holders'[d])
          BY <2>2 DEF Within
      <2> QED BY <1>3, <2>1, <2>3, QuietStep
  <1> QED BY <1>2, <1>3 DEF release

\* Initially nobody waits.
LEMMA InitWakesAll == Init => WaitersAreList /\ NoLostWakeup
  BY DEF Init, WaitersAreList, NoLostWakeup, Waiting, NoCall

\* No step leaves a waiter behind that could run.
LEMMA StepWakesAll ==
    TypeOK /\ WaitersAreList /\ NoLostWakeup /\ [Next]_vars => WaitersAreList' /\ NoLostWakeup'
  <1> SUFFICES ASSUME TypeOK, WaitersAreList, NoLostWakeup, [Next]_vars
               PROVE  WaitersAreList' /\ NoLostWakeup'
      OBVIOUS
  <1>1. ASSUME NEW k \in Calls, NEW r \in Requests, AcquireReentrant(k, r)
        PROVE  WaitersAreList' /\ NoLostWakeup'
      <2>1. call[k] = NoCall /\ call' = [call EXCEPT ![k] = CallOf(r, "held")] /\ ahead' = ahead
          BY <1>1 DEF AcquireReentrant, Enters
      <2>2. Waiting' = Waiting /\ \A j \in Waiting : call'[j] = call[j]
          BY <2>1 DEF Waiting, NoCall, CallOf, TypeOK
      <2>3. r.chat \in Chats /\ holders[r.chat] \in Lock
          BY DirLockConstants DEF TypeOK
      <2>4. /\ holders[r.chat].dirs \subseteq holders'[r.chat].dirs
            /\ holders[r.chat].mode = "exclusive" => holders'[r.chat].mode = "exclusive"
            /\ \A d \in Chats \ {r.chat} : holders'[d] = holders[d]
          BY <1>1, <2>3 DEF AcquireReentrant, Grown, TargetMode, TypeOK
      <2>5. \A d \in Chats : Within(holders[d], holders'[d])
          BY <2>4 DEF Within
      <2> QED BY <2>1, <2>2, <2>5, QuietStep
  <1>2. ASSUME NEW k \in Calls, NEW r \in Requests, AcquireFree(k, r)
        PROVE  WaitersAreList' /\ NoLostWakeup'
      <2>1. call[k] = NoCall /\ call' = [call EXCEPT ![k] = CallOf(r, "held")] /\ ahead' = ahead
          BY <1>2 DEF AcquireFree, Enters
      <2>2. Waiting' = Waiting /\ \A j \in Waiting : call'[j] = call[j]
          BY <2>1 DEF Waiting, NoCall, CallOf, TypeOK
      <2>3. /\ holders[r.chat].dirs = {}
            /\ \A d \in Chats \ {r.chat} : holders'[d] = holders[d]
          BY <1>2 DEF AcquireFree, Holds, TypeOK
      <2>5. \A d \in Chats : Within(holders[d], holders'[d])
          BY <2>3 DEF Within
      <2> QED BY <2>1, <2>2, <2>5, QuietStep
  <1>3. ASSUME NEW k \in Calls, NEW r \in Requests, AcquireWait(k, r)
        PROVE  WaitersAreList' /\ NoLostWakeup'
      <2>1. /\ call[k] = NoCall /\ findConflict(r.chat, r)
            /\ call' = [call EXCEPT ![k] = CallOf(r, "waiting")]
            /\ ahead' = [ahead EXCEPT ![k] = Waiting]
            /\ holders' = holders
          BY <1>3 DEF AcquireWait, Enters
      <2>2. k \notin Waiting /\ Waiting' = Waiting \cup {k}
          BY <2>1 DEF Waiting, NoCall, CallOf, TypeOK
      <2>3. \A j \in Waiting : j \in Calls /\ call'[j] = call[j] /\ ahead'[j] = ahead[j]
          BY <2>1, <2>2 DEF Waiting, TypeOK
      <2>4. ahead'[k] = Waiting /\ call'[k] = CallOf(r, "waiting")
          BY <2>1 DEF TypeOK
      <2>5. WaitersAreList'
          <3>1. \A j \in Calls : ahead'[j] \subseteq Waiting' /\ (j \notin Waiting' => ahead'[j] = {})
              BY <2>1, <2>2 DEF WaitersAreList, TypeOK
          <3>2. \A j \in Waiting : k \notin ahead'[j]
              BY <2>2, <2>3 DEF WaitersAreList
          <3>3. \A j \in Waiting' : j \notin ahead'[j]
              BY <2>2, <2>3, <2>4 DEF WaitersAreList
          <3>4. \A i, j \in Waiting' : i # j => (i \in ahead'[j] <=> j \notin ahead'[i])
              BY <2>2, <2>3, <2>4, <3>2 DEF WaitersAreList
          <3>5. \A i, j \in Waiting' : i \in ahead'[j] => ahead'[i] \subseteq ahead'[j]
              BY <2>2, <2>3, <2>4, <3>2 DEF WaitersAreList
          <3> QED BY <3>1, <3>3, <3>4, <3>5 DEF WaitersAreList
      <2>6. ASSUME NEW j \in Waiting'
            PROVE  \/ BlockedByHolder(holders', call'[j].chat, call'[j])
                   \/ \E w \in ahead'[j] : /\ SameRunner(call'[w].chat, call'[j].chat)
                                           /\ Clash(call'[j], call'[w])
          <3>1. CASE j \in Waiting
              <4>1. \A w \in ahead[j] : call'[w] = call[w]
                  BY <2>3, <3>1 DEF WaitersAreList
              <4> QED BY <2>1, <2>3, <3>1, <4>1 DEF NoLostWakeup
          <3>2. CASE j = k
              <4>1. /\ call'[k].chat = r.chat /\ call'[k].dirs = r.dirs /\ call'[k].mode = r.mode
                  BY <2>4 DEF CallOf
              <4>2. \A h : Clash(call'[k], h) <=> Clash(r, h)
                  BY <4>1 DEF Clash
              <4>3. CASE BlockedByHolder(holders, r.chat, r)
                  BY <2>1, <3>2, <4>1, <4>2, <4>3 DEF BlockedByHolder
              <4>4. CASE BlockedByWaiter(r.chat, r)
                  BY <2>3, <2>4, <3>2, <4>1, <4>2, <4>4 DEF BlockedByWaiter
              <4> QED BY <2>1, <4>3, <4>4 DEF findConflict
          <3> QED BY <2>2, <2>6, <3>1, <3>2
      <2> QED BY <2>5, <2>6 DEF NoLostWakeup
  <1>4. ASSUME NEW k \in Calls, Resume(k) PROVE WaitersAreList' /\ NoLostWakeup'
      <2>1. call[k].pc = "ready" /\ ahead' = ahead /\ holders' = holders
          BY <1>4 DEF Resume
      <2>2. call[k] \in LiveCall
          BY <2>1, LiveCalls
      <2>3. call'[k].pc # "waiting" /\ \A j \in Calls \ {k} : call'[j] = call[j]
          BY <1>4, <2>2 DEF Resume, TypeOK, NoCall, LiveCall
      <2>4. Waiting' = Waiting /\ \A j \in Waiting : call'[j] = call[j]
          BY <2>1, <2>3 DEF Waiting
      <2>5. \A d \in Chats : Within(holders[d], holders'[d])
          BY <2>1 DEF Within
      <2> QED BY <2>1, <2>4, <2>5, QuietStep
  <1>5. ASSUME NEW k \in Calls, Release(k) PROVE WaitersAreList' /\ NoLostWakeup'
      BY <1>5, ReleaseWakesAll DEF Release
  <1>6. ASSUME NEW k \in Calls, CancelWaiting(k) PROVE WaitersAreList' /\ NoLostWakeup'
      <2>1. PICK hs \in [Chats -> Lock] : hs = holders
          BY DEF TypeOK
      <2>2. processWaiters(hs, {k}, {})
          BY <1>6, <2>1 DEF CancelWaiting
      <2> QED BY <2>2, PassWakesAll
  <1>7. ASSUME NEW k \in Calls, CancelReady(k) PROVE WaitersAreList' /\ NoLostWakeup'
      BY <1>7, ReleaseWakesAll DEF CancelReady
  <1>8. ASSUME NEW c \in Chats, UnlockIdle(c) PROVE WaitersAreList' /\ NoLostWakeup'
      <2>1. PICK hs \in [Chats -> Lock] : hs = [holders EXCEPT ![c] = Free]
          BY FreeType DEF TypeOK
      <2>2. processWaiters(hs, {}, {})
          BY <1>8, <2>1 DEF UnlockIdle
      <2> QED BY <2>2, PassWakesAll
  <1>9. ASSUME NEW c \in Chats, ForceReleaseChat(c) PROVE WaitersAreList' /\ NoLostWakeup'
      <2>1. PICK hs \in [Chats -> Lock] : hs = [holders EXCEPT ![c] = Free]
          BY FreeType DEF TypeOK
      <2>2. PICK woken \in SUBSET Waiting : woken = {k \in Waiting : call[k].chat = c}
          OBVIOUS
      <2>3. processWaiters(hs, {}, woken)
          BY <1>9, <2>1, <2>2 DEF ForceReleaseChat
      <2> QED BY <2>3, PassWakesAll
  <1>10. CASE UNCHANGED vars
      BY <1>10 DEF vars, WaitersAreList, NoLostWakeup, Waiting, BlockedByHolder
  <1> QED BY <1>1, <1>2, <1>3, <1>4, <1>5, <1>6, <1>7, <1>8, <1>9, <1>10 DEF Next

\* No interleaving of calls, cancellations, releases and force-releases leaves
\* a waiter behind that nothing blocks, however many chats and directories
\* there are and whether the runs of a chat enter in parallel or not.
THEOREM WakeUps == Spec => []NoLostWakeup
  <1>1. Init => TypeOK /\ WaitersAreList /\ NoLostWakeup
      BY InitType, InitWakesAll
  <1>2. /\ TypeOK /\ WaitersAreList /\ NoLostWakeup /\ [Next]_vars
        => TypeOK' /\ WaitersAreList' /\ NoLostWakeup'
      BY StepType, StepWakesAll
  <1> QED BY <1>1, <1>2, PTL DEF Spec

-----------------------------------------------------------------------------
(* Mutual exclusion *)

\* At most one call of a chat is on its way to a lock.
OneEntry ==
    \A j, k \in Calls :
        /\ call[j].pc \in {"waiting", "ready"} /\ call[k].pc \in {"waiting", "ready"}
        /\ call[j].chat = call[k].chat
        => j = k

\* A chat with a waiting call has no lock a grant could be merged into, and a
\* chat without directories excludes nobody.
EntryOK ==
    /\ OneEntry
    /\ \A k \in Calls : call[k] # NoCall => call[k].dirs # {}
    /\ \A k \in Waiting : holders[call[k].chat].dirs = {}
    /\ \A c \in Chats : holders[c].dirs = {} => holders[c].mode = "readonly"

\* Clashes are symmetric.
LEMMA ClashSymmetric ==
    ASSUME NEW x, NEW y, Clash(x, y)
    PROVE  Clash(y, x)
  BY DEF Clash, PathsOverlap

\* Two claims on the same directories in the same mode exclude the same.
LEMMA ClashSame ==
    ASSUME NEW x, NEW y, NEW z, x.dirs = y.dirs, x.mode = y.mode, Clash(x, z)
    PROVE  Clash(y, z)
  BY DEF Clash

\* What the pass gives a chat with the one waiter k: the claim of k.
LEMMA OneGrant ==
    ASSUME TypeOK, OneEntry, NEW hs \in [Chats -> Lock],
           NEW G \in SUBSET Waiting, NEW k \in G,
           hs[call[k].chat].dirs = {}, hs[call[k].chat].mode = "readonly"
    PROVE  /\ {j \in G : call[j].chat = call[k].chat} = {k}
           /\ HoldersWith(hs, G)[call[k].chat].dirs = call[k].dirs
           /\ HoldersWith(hs, G)[call[k].chat].mode = call[k].mode
  <1> DEFINE c == call[k].chat
             mine == {j \in G : call[j].chat = c}
  <1>1. k \in Calls /\ call[k] \in LiveCall /\ c \in Chats
      BY LiveCalls DEF Waiting, LiveCall
  <1>2. mine = {k}
      BY <1>1 DEF OneEntry, Waiting
  <1>3. HoldersWith(hs, G)[c] =
           [dirs |-> hs[c].dirs \cup UNION {call[j].dirs : j \in mine},
            mode |-> IF \/ hs[c].mode = "exclusive"
                        \/ \E j \in mine : call[j].mode = "exclusive"
                     THEN "exclusive" ELSE "readonly",
            reason |-> "running",
            activeRuns |-> hs[c].activeRuns + Cardinality(mine)]
      BY <1>1, <1>2 DEF HoldersWith
  <1>4. UNION {call[j].dirs : j \in mine} = call[k].dirs
      BY <1>2
  <1>5. HoldersWith(hs, G)[c].mode = IF call[k].mode = "exclusive" THEN "exclusive" ELSE "readonly"
      BY <1>2, <1>3
  <1>6. call[k].mode \in {"exclusive", "readonly"}
      BY <1>1 DEF LiveCall, Modes
  <1> QED BY <1>2, <1>3, <1>4, <1>5, <1>6

\* A pass over the waiters of locks that exclude each other grants locks that
\* do: a granted waiter was checked against the locks there were and against
\* those granted to waiters before it.
LEMMA PassExcludes ==
    ASSUME TypeOK, WaitersAreList, EntryOK,
           NEW hs \in [Chats -> Lock], NEW done \in SUBSET Calls,
           NEW woken \in SUBSET Waiting, processWaiters(hs, done, woken),
           \A c, d \in Chats : c # d /\ SameRunner(c, d) => ~Clash(hs[c], hs[d]),
           \A c \in Chats : hs[c].dirs = {} => hs[c].mode = "readonly",
           \A k \in Waiting : hs[call[k].chat].dirs = {}
    PROVE  EntryOK' /\ HolderExclusion'
  <1> DEFINE ws == Waiting \ (done \cup woken)
  <1>1. PICK G \in SUBSET ws :
           /\ IsGrantPass(hs, ws, G)
           /\ holders' = HoldersWith(hs, G)
           /\ call' = [k \in Calls |->
                          IF k \in done THEN NoCall
                          ELSE IF k \in woken \cup G
                               THEN [call[k] EXCEPT !.pc = "ready"]
                               ELSE call[k]]
      BY DEF processWaiters
  <1>2. Waiting' = ws \ G /\ \A k \in Waiting' : k \in Calls /\ call'[k] = call[k]
      BY <1>1, PassWaiters
  <1>3. \A k \in G : /\ k \in Calls /\ k \in Waiting /\ k \in ws
                     /\ call[k] \in LiveCall /\ call[k].chat \in Chats
                     /\ call[k].dirs # {}
      BY LiveCalls DEF Waiting, LiveCall, EntryOK, NoCall
  <1>4. ASSUME NEW c \in Chats, \A k \in G : call[k].chat # c
        PROVE  holders'[c] = hs[c]
      BY <1>1, <1>4 DEF HoldersWith
  <1>5. \A k \in G : /\ {j \in G : call[j].chat = call[k].chat} = {k}
                     /\ holders'[call[k].chat].dirs = call[k].dirs
                     /\ holders'[call[k].chat].mode = call[k].mode
      BY <1>1, <1>3, OneGrant DEF EntryOK
  <1>6. EntryOK'
      <2>1. \A k \in Calls :
               call'[k] # NoCall => /\ call[k] # NoCall
                                    /\ call'[k].chat = call[k].chat /\ call'[k].dirs = call[k].dirs
                                    /\ call'[k].pc \in {"waiting", "ready"}
                                          => call[k].pc \in {"waiting", "ready"}
          <3> TAKE k \in Calls
          <3>1. CASE k \in done
              BY <1>1, <3>1
          <3>2. CASE k \notin done /\ k \in woken \cup G
              <4>1. k \in Waiting /\ call[k] \in LiveCall
                  BY <3>2, LiveCalls
              <4>2. call'[k] = [call[k] EXCEPT !.pc = "ready"]
                  BY <1>1, <3>2
              <4> QED BY <4>1, <4>2 DEF LiveCall, Waiting, NoCall
          <3>3. CASE k \notin done /\ k \notin woken \cup G
              BY <1>1, <3>3
          <3> QED BY <3>1, <3>2, <3>3
      <2>2. OneEntry'
          BY <2>1 DEF OneEntry, EntryOK, NoCall
      <2>3. \A k \in Calls : call'[k] # NoCall => call'[k].dirs # {}
          BY <2>1 DEF EntryOK
      <2>4. ASSUME NEW k \in Waiting' PROVE holders'[call'[k].chat].dirs = {}
          <3>1. k \in ws /\ k \notin G /\ k \in Calls /\ call'[k] = call[k]
                /\ call[k] \in LiveCall
              BY <1>2, <2>4, LiveCalls DEF Waiting
          <3>2. \A j \in G : call[j].chat # call[k].chat
              BY <1>3, <3>1 DEF EntryOK, OneEntry, Waiting
          <3>3. holders'[call[k].chat] = hs[call[k].chat]
              BY <1>4, <3>1, <3>2 DEF LiveCall
          <3> QED BY <3>1, <3>3
      <2>5. ASSUME NEW c \in Chats, holders'[c].dirs = {} PROVE holders'[c].mode = "readonly"
          <3>1. CASE \E k \in G : call[k].chat = c
              BY <1>3, <1>5, <2>5, <3>1
          <3>2. CASE \A k \in G : call[k].chat # c
              BY <1>4, <2>5, <3>2
          <3> QED BY <3>1, <3>2
      <2> QED BY <2>2, <2>3, <2>4, <2>5 DEF EntryOK
  <1>7. ASSUME NEW k \in G, NEW d \in Chats, d # call[k].chat, SameRunner(d, call[k].chat),
               \/ \A j \in G : call[j].chat # d
               \/ \E j \in G \cap ahead[k] : call[j].chat = d
        PROVE  ~Clash(holders'[call[k].chat], holders'[d])
      <2>1. ~BlockedByHolder(HoldersWith(hs, G \cap ahead[k]), call[k].chat, call[k])
          BY <1>1, <1>3 DEF IsGrantPass
      <2>2. ~Clash(call[k], HoldersWith(hs, G \cap ahead[k])[d])
          BY <1>7, <2>1 DEF BlockedByHolder
      <2>3. HoldersWith(hs, G \cap ahead[k])[d] = holders'[d]
          <3>1. {j \in G \cap ahead[k] : call[j].chat = d} = {j \in G : call[j].chat = d}
              <4>1. CASE \A j \in G : call[j].chat # d
                  BY <4>1
              <4>2. CASE \E j \in G \cap ahead[k] : call[j].chat = d
                  <5>1. PICK j \in G \cap ahead[k] : call[j].chat = d
                      BY <4>2
                  <5>2. {i \in G : call[i].chat = d} = {j}
                      BY <1>5, <5>1
                  <5> QED BY <5>1, <5>2
              <4> QED BY <1>7, <4>1, <4>2
          <3> QED BY <1>1, <3>1 DEF HoldersWith
      <2> QED BY <1>5, <2>2, <2>3, ClashSame
  <1>8. ASSUME NEW c \in Chats, NEW d \in Chats, c # d, SameRunner(c, d)
        PROVE  ~Clash(holders'[c], holders'[d])
      <2>1. SameRunner(d, c)
          BY <1>8 DEF SameRunner
      <2>2. CASE (\A k \in G : call[k].chat # c) /\ (\A k \in G : call[k].chat # d)
          BY <1>4, <1>8, <2>2
      <2>3. CASE (\E k \in G : call[k].chat = c) /\ (\A k \in G : call[k].chat # d)
          BY <1>7, <1>8, <2>1, <2>3
      <2>4. CASE (\A k \in G : call[k].chat # c) /\ (\E k \in G : call[k].chat = d)
          BY <1>7, <1>8, <2>4, ClashSymmetric
      <2>5. CASE (\E k \in G : call[k].chat = c) /\ (\E k \in G : call[k].chat = d)
          <3>1. PICK k \in G : call[k].chat = c
              BY <2>5
          <3>2. PICK j \in G : call[j].chat = d
              BY <2>5
          <3>3. j # k /\ j \in Waiting /\ k \in Waiting
              BY <1>3, <1>8, <3>1, <3>2
          <3>4. j \in ahead[k] \/ k \in ahead[j]
              BY <3>3 DEF WaitersAreList
          <3>5. CASE j \in ahead[k]
              BY <1>7, <1>8, <2>1, <3>1, <3>2, <3>5
          <3>6. CASE k \in ahead[j]
              BY <1>7, <1>8, <3>1, <3>2, <3>6, ClashSymmetric
          <3> QED BY <3>4, <3>5, <3>6
      <2> QED BY <2>2, <2>3, <2>4, <2>5
  <1> QED BY <1>6, <1>8 DEF HolderExclusion

\* A pass that begins by freeing the lock of one chat.
LEMMA FreeingPassExcludes ==
    ASSUME TypeOK, WaitersAreList, EntryOK, HolderExclusion,
           NEW c \in Chats, NEW done \in SUBSET Calls, NEW woken \in SUBSET Waiting,
           processWaiters([holders EXCEPT ![c] = Free], done, woken)
    PROVE  EntryOK' /\ HolderExclusion'
  <1>1. PICK hs \in [Chats -> Lock] : hs = [holders EXCEPT ![c] = Free]
      BY FreeType DEF TypeOK
  <1>2. processWaiters(hs, done, woken)
      BY <1>1
  <1>3. hs[c] = Free /\ \A d \in Chats : d # c => hs[d] = holders[d]
      BY <1>1 DEF TypeOK
  <1>4. \A x : ~Clash(x, Free) /\ ~Clash(Free, x)
      BY DEF Clash, Free
  <1>5. \A a, b \in Chats : a # b /\ SameRunner(a, b) => ~Clash(hs[a], hs[b])
      BY <1>3, <1>4 DEF HolderExclusion
  <1>6. \A d \in Chats : hs[d].dirs = {} => hs[d].mode = "readonly"
      BY <1>3 DEF EntryOK, Free
  <1>7. \A k \in Waiting : hs[call[k].chat].dirs = {}
      <2> TAKE k \in Waiting
      <2>1. call[k].chat \in Chats
          BY LiveCalls DEF Waiting, LiveCall
      <2> QED BY <1>3, <2>1 DEF EntryOK, Free
  <1> QED BY <1>2, <1>5, <1>6, <1>7, PassExcludes

\* A step in which calls end or hold and the locks exclude what they did.
LEMMA QuietExcludes ==
    ASSUME TypeOK, EntryOK, HolderExclusion,
           \A k \in Calls : \/ call'[k] = call[k]
                            \/ call'[k] = NoCall
                            \/ call'[k].pc = "held" /\ call'[k].dirs # {},
           \A c \in Chats : holders'[c].dirs = holders[c].dirs /\ holders'[c].mode = holders[c].mode
    PROVE  EntryOK' /\ HolderExclusion'
  <1>1. \A k \in Calls : call'[k].pc \in {"waiting", "ready"} => call'[k] = call[k]
      BY DEF NoCall
  <1>2. OneEntry'
      BY <1>1 DEF OneEntry, EntryOK
  <1>3. \A k \in Calls : call'[k] # NoCall => call'[k].dirs # {}
      BY DEF EntryOK
  <1>4. ASSUME NEW k \in Waiting' PROVE holders'[call'[k].chat].dirs = {}
      <2>1. k \in Calls /\ k \in Waiting /\ call'[k] = call[k]
          BY <1>1, <1>4 DEF Waiting
      <2>2. call[k].chat \in Chats
          BY <2>1, LiveCalls DEF LiveCall
      <2> QED BY <2>1, <2>2 DEF EntryOK
  <1>5. \A c \in Chats : holders'[c].dirs = {} => holders'[c].mode = "readonly"
      BY DEF EntryOK
  <1>6. \A c, d \in Chats : c # d /\ SameRunner(c, d) => ~Clash(holders'[c], holders'[d])
      BY DEF HolderExclusion, Clash
  <1> QED BY <1>2, <1>3, <1>4, <1>5, <1>6 DEF EntryOK, HolderExclusion

\* A run enters and its chat's lock becomes h2, which clashes with no other.
LEMMA EntryExcludes ==
    ASSUME TypeOK, EntryOK, HolderExclusion, ~ParallelEntry,
           NEW k \in Calls, NEW r \in Requests, Enters(k, r), NEW h2,
           h2.dirs # {},
           \A o \in Chats \ {r.chat} : SameRunner(o, r.chat) => ~Clash(h2, holders[o]),
           holders' = [holders EXCEPT ![r.chat] = h2],
           call' = [call EXCEPT ![k] = CallOf(r, "held")]
    PROVE  EntryOK' /\ HolderExclusion'
  <1>1. r.chat \in Chats /\ r.dirs # {}
      BY DirLockConstants
  <1>2. /\ holders'[r.chat] = h2
        /\ \A d \in Chats : d # r.chat => holders'[d] = holders[d]
      BY <1>1 DEF TypeOK
  <1>3. call'[k] = CallOf(r, "held") /\ \A j \in Calls : j # k => call'[j] = call[j]
      BY DEF TypeOK
  <1>4. \A j \in Calls : call'[j].pc \in {"waiting", "ready"} => call'[j] = call[j] /\ call[j].chat # r.chat
      BY <1>3 DEF CallOf, Enters
  <1>5. OneEntry'
      BY <1>4 DEF OneEntry, EntryOK
  <1>6. \A j \in Calls : call'[j] # NoCall => call'[j].dirs # {}
      BY <1>1, <1>3 DEF EntryOK, CallOf
  <1>7. ASSUME NEW j \in Waiting' PROVE holders'[call'[j].chat].dirs = {}
      <2>1. j \in Calls /\ j \in Waiting /\ call'[j] = call[j] /\ call[j].chat # r.chat
          BY <1>4, <1>7 DEF Waiting
      <2>2. call[j].chat \in Chats
          BY <2>1, LiveCalls DEF LiveCall
      <2> QED BY <1>2, <2>1, <2>2 DEF EntryOK
  <1>8. \A c \in Chats : holders'[c].dirs = {} => holders'[c].mode = "readonly"
      BY <1>1, <1>2 DEF EntryOK
  <1>9. ASSUME NEW c \in Chats, NEW d \in Chats, c # d, SameRunner(c, d)
        PROVE  ~Clash(holders'[c], holders'[d])
      <2>1. CASE c # r.chat /\ d # r.chat
          BY <1>2, <1>9, <2>1 DEF HolderExclusion
      <2>2. CASE c = r.chat
          <3>1. d \in Chats \ {r.chat} /\ SameRunner(d, r.chat)
              BY <1>9, <2>2 DEF SameRunner
          <3> QED BY <1>2, <2>2, <3>1
      <2>3. CASE d = r.chat
          <3>1. c \in Chats \ {r.chat} /\ SameRunner(c, r.chat)
              BY <1>9, <2>3
          <3>2. ~Clash(h2, holders[c])
              BY <3>1
          <3> QED BY <1>2, <2>3, <3>1, <3>2, ClashSymmetric
      <2> QED BY <2>1, <2>2, <2>3
  <1> QED BY <1>5, <1>6, <1>7, <1>8, <1>9 DEF EntryOK, HolderExclusion

\* A release keeps the locks apart.
LEMMA ReleaseExcludes ==
    ASSUME TypeOK, WaitersAreList, EntryOK, HolderExclusion,
           NEW k \in Calls, call[k].pc \in {"ready", "held"},
           NEW keep \in BOOLEAN, release(k, keep)
    PROVE  EntryOK' /\ HolderExclusion'
  <1> DEFINE c == call[k].chat
             left == [holders[c] EXCEPT !.activeRuns = @ - 1]
  <1>1. c \in Chats /\ holders[c] \in Lock
      BY LiveCalls DEF LiveCall, TypeOK
  <1>2. CASE processWaiters([holders EXCEPT ![c] = Free], {k}, {})
      <2>1. {k} \in SUBSET Calls /\ {} \in SUBSET Waiting
          OBVIOUS
      <2>2. PICK d \in Chats : d = c
          BY <1>1
      <2>3. processWaiters([holders EXCEPT ![d] = Free], {k}, {})
          BY <1>2, <2>2
      <2> HIDE DEF left, c
      <2> QED BY ONLY TypeOK, WaitersAreList, EntryOK, HolderExclusion, d \in Chats,
                      <2>1, <2>3, FreeingPassExcludes
  <1>3. CASE /\ call' = [call EXCEPT ![k] = NoCall] /\ ahead' = ahead
             /\ \/ holders' = holders
                \/ holders' = [holders EXCEPT ![c] = left]
                \/ holders' = [holders EXCEPT ![c] = [left EXCEPT !.reason = "uncommitted"]]
      <2>1. \A j \in Calls : call'[j] = call[j] \/ call'[j] = NoCall
          BY <1>3 DEF TypeOK
      <2>2. \A d \in Chats : holders'[d].dirs = holders[d].dirs /\ holders'[d].mode = holders[d].mode
          <3>1. /\ left.dirs = holders[c].dirs /\ left.mode = holders[c].mode
                /\ [left EXCEPT !.reason = "uncommitted"].dirs = holders[c].dirs
                /\ [left EXCEPT !.reason = "uncommitted"].mode = holders[c].mode
              BY <1>1 DEF Lock
          <3> HIDE DEF left, c
          <3> QED BY <1>1, <1>3, <3>1 DEF TypeOK
      <2> QED BY <2>1, <2>2, QuietExcludes
  <1> QED BY <1>2, <1>3 DEF release

\* Initially there are no locks.
LEMMA InitExcludes == Init => EntryOK /\ HolderExclusion
  BY DEF Init, EntryOK, OneEntry, HolderExclusion, Waiting, NoCall, Free, Clash

\* Every step keeps the locks apart.
LEMMA StepExcludes ==
    ~ParallelEntry /\ TypeOK /\ WaitersAreList /\ EntryOK /\ HolderExclusion /\ [Next]_vars
        => EntryOK' /\ HolderExclusion'
  <1> SUFFICES ASSUME ~ParallelEntry, TypeOK, WaitersAreList, EntryOK, HolderExclusion,
                      [Next]_vars
               PROVE  EntryOK' /\ HolderExclusion'
      OBVIOUS
  <1>1. ASSUME NEW k \in Calls, NEW r \in Requests, AcquireReentrant(k, r)
        PROVE  EntryOK' /\ HolderExclusion'
      <2> DEFINE h == holders[r.chat]
      <2>1. PICK h2 : h2 = [dirs |-> IF Grows(r) THEN Grown(r).dirs ELSE h.dirs,
                            mode |-> TargetMode(r), reason |-> "running",
                            activeRuns |-> h.activeRuns + 1]
          OBVIOUS
      <2>2. /\ holders' = [holders EXCEPT ![r.chat] = h2]
            /\ call' = [call EXCEPT ![k] = CallOf(r, "held")]
            /\ Enters(k, r) /\ h.dirs # {}
            /\ Grows(r) => ~findConflict(r.chat, Grown(r))
          BY <1>1, <2>1 DEF AcquireReentrant, Holds
      <2>3. r.chat \in Chats
          BY DirLockConstants
      <2>4. h2.dirs # {}
          BY <2>1, <2>2 DEF Grown
      <2>5. ASSUME NEW o \in Chats \ {r.chat}, SameRunner(o, r.chat)
            PROVE  ~Clash(h2, holders[o])
          <3>1. CASE Grows(r)
              <4>1. ~Clash(Grown(r), holders[o])
                  BY <2>2, <2>5, <3>1 DEF findConflict, BlockedByHolder
              <4>2. h2.dirs = Grown(r).dirs /\ h2.mode = Grown(r).mode
                  BY <2>1, <3>1 DEF Grown
              <4> QED BY <4>1, <4>2 DEF Clash
          <3>2. CASE ~Grows(r)
              <4>1. h2.dirs = h.dirs /\ h2.mode = h.mode
                  BY <2>1, <3>2 DEF Grows
              <4>2. ~Clash(h, holders[o])
                  BY <2>3, <2>5 DEF HolderExclusion, SameRunner
              <4> QED BY <4>1, <4>2 DEF Clash
          <3> QED BY <3>1, <3>2
      <2> HIDE DEF h
      <2> QED BY <2>2, <2>4, <2>5, EntryExcludes
  <1>2. ASSUME NEW k \in Calls, NEW r \in Requests, AcquireFree(k, r)
        PROVE  EntryOK' /\ HolderExclusion'
      <2>1. PICK h2 : h2 = [dirs |-> r.dirs, mode |-> r.mode, reason |-> "running", activeRuns |-> 1]
          OBVIOUS
      <2>2. /\ holders' = [holders EXCEPT ![r.chat] = h2]
            /\ call' = [call EXCEPT ![k] = CallOf(r, "held")]
            /\ Enters(k, r) /\ ~findConflict(r.chat, r)
          BY <1>2, <2>1 DEF AcquireFree
      <2>3. h2.dirs # {}
          BY <2>1, DirLockConstants
      <2>4. \A o \in Chats \ {r.chat} : SameRunner(o, r.chat) => ~Clash(h2, holders[o])
          BY <2>1, <2>2 DEF findConflict, BlockedByHolder, Clash
      <2> QED BY <2>2, <2>3, <2>4, EntryExcludes
  <1>3. ASSUME NEW k \in Calls, NEW r \in Requests, AcquireWait(k, r)
        PROVE  EntryOK' /\ HolderExclusion'
      <2>1. /\ Enters(k, r) /\ holders[r.chat].dirs = {} /\ holders' = holders
            /\ call' = [call EXCEPT ![k] = CallOf(r, "waiting")]
          BY <1>3 DEF AcquireWait, Holds
      <2>2. call'[k] = CallOf(r, "waiting") /\ \A j \in Calls : j # k => call'[j] = call[j]
          BY <2>1 DEF TypeOK
      <2>3. call'[k].chat = r.chat /\ call'[k].dirs = r.dirs /\ r.dirs # {}
          BY <2>2, DirLockConstants DEF CallOf
      <2>4. \A j \in Calls : j # k /\ call'[j].pc \in {"waiting", "ready"} => call'[j].chat # r.chat
          BY <2>1, <2>2 DEF Enters
      <2>5. OneEntry'
          BY <2>2, <2>3, <2>4 DEF OneEntry, EntryOK
      <2>6. \A j \in Calls : call'[j] # NoCall => call'[j].dirs # {}
          BY <2>2, <2>3 DEF EntryOK
      <2>7. \A j \in Waiting' : holders'[call'[j].chat].dirs = {}
          BY <2>1, <2>2, <2>3 DEF EntryOK, Waiting
      <2> QED BY <2>1, <2>5, <2>6, <2>7 DEF EntryOK, HolderExclusion
  <1>4. ASSUME NEW k \in Calls, Resume(k) PROVE EntryOK' /\ HolderExclusion'
      <2>1. call[k].pc = "ready" /\ call[k] \in LiveCall /\ holders' = holders
          BY <1>4, LiveCalls DEF Resume
      <2>2. call[k].dirs # {}
          BY <2>1 DEF EntryOK, NoCall, LiveCall
      <2>3. \/ call' = [call EXCEPT ![k] = NoCall]
            \/ call' = [call EXCEPT ![k] = [call[k] EXCEPT !.pc = "held"]]
          BY <1>4 DEF Resume
      <2>4. [call[k] EXCEPT !.pc = "held"].pc = "held" /\ [call[k] EXCEPT !.pc = "held"].dirs = call[k].dirs
          BY <2>1 DEF LiveCall
      <2>5. \A j \in Calls : \/ call'[j] = call[j]
                             \/ call'[j] = NoCall
                             \/ call'[j].pc = "held" /\ call'[j].dirs # {}
          BY <2>2, <2>3, <2>4 DEF TypeOK
      <2> QED BY <2>1, <2>5, QuietExcludes
  <1>5. ASSUME NEW k \in Calls, Release(k) PROVE EntryOK' /\ HolderExclusion'
      BY <1>5, ReleaseExcludes DEF Release
  <1>6. ASSUME NEW k \in Calls, CancelWaiting(k) PROVE EntryOK' /\ HolderExclusion'
      <2>1. PICK hs \in [Chats -> Lock] : hs = holders
          BY DEF TypeOK
      <2>2. processWaiters(hs, {k}, {})
          BY <1>6, <2>1 DEF CancelWaiting
      <2>3. /\ \A a, b \in Chats : a # b /\ SameRunner(a, b) => ~Clash(hs[a], hs[b])
            /\ \A d \in Chats : hs[d].dirs = {} => hs[d].mode = "readonly"
            /\ \A j \in Waiting : hs[call[j].chat].dirs = {}
          BY <2>1 DEF HolderExclusion, EntryOK
      <2> QED BY <2>2, <2>3, PassExcludes
  <1>7. ASSUME NEW k \in Calls, CancelReady(k) PROVE EntryOK' /\ HolderExclusion'
      BY <1>7, ReleaseExcludes DEF CancelReady
  <1>8. ASSUME NEW c \in Chats, UnlockIdle(c) PROVE EntryOK' /\ HolderExclusion'
      BY <1>8, FreeingPassExcludes DEF UnlockIdle
  <1>9. ASSUME NEW c \in Chats, ForceReleaseChat(c) PROVE EntryOK' /\ HolderExclusion'
      <2>1. PICK woken \in SUBSET Waiting : woken = {k \in Waiting : call[k].chat = c}
          OBVIOUS
      <2>2. processWaiters([holders EXCEPT ![c] = Free], {}, woken)
          BY <1>9, <2>1 DEF ForceReleaseChat
      <2> QED BY <2>2, FreeingPassExcludes
  <1>10. CASE UNCHANGED vars
      BY <1>10 DEF vars, EntryOK, OneEntry, HolderExclusion, Waiting
  <1> QED BY <1>1, <1>2, <1>3, <1>4, <1>5, <1>6, <1>7, <1>8, <1>9, <1>10 DEF Next

\* Two chats of one runner never hold overlapping directories unless both hold
\* them read-only, provided the runs of a chat enter one after the other, as
\* the execution guard and the call-peer chain make them.
THEOREM Exclusion ==
    ASSUME ~ParallelEntry
    PROVE  Spec => []HolderExclusion
  <1>1. Init => TypeOK /\ WaitersAreList /\ NoLostWakeup /\ EntryOK /\ HolderExclusion
      BY InitType, InitWakesAll, InitExcludes
  <1>2. /\ TypeOK /\ WaitersAreList /\ NoLostWakeup /\ EntryOK /\ HolderExclusion
        /\ [Next]_vars
        => (TypeOK /\ WaitersAreList /\ NoLostWakeup /\ EntryOK /\ HolderExclusion)'
      BY StepType, StepWakesAll, StepExcludes
  <1> QED BY <1>1, <1>2, PTL DEF Spec

-----------------------------------------------------------------------------
(* The accounting of runs *)

\* The lock h counts the calls of S and lies over the directories of each.
Backs(h, S, calls) ==
    /\ h.activeRuns = Cardinality(S)
    /\ \A k \in S :
          /\ calls[k].mode = "exclusive" => h.mode = "exclusive"
          /\ \A d \in calls[k].dirs : \E e \in h.dirs : <<e, d>> \in Under

\* Every call is for some directory.
ClaimsDirs == \A k \in Calls : call[k] # NoCall => call[k].dirs # {}

\* Sets of calls are finite.
LEMMA FiniteCalls ==
    ASSUME NEW S \in SUBSET Calls
    PROVE  IsFiniteSet(S) /\ Cardinality(S) \in Nat
  BY FS_Subset, FS_CardinalityType, DirLockConstants

\* What RunsBacked says of one chat.
LEMMA BackedChat ==
    ASSUME RunsBacked, NEW c \in Chats, c \notin torn
    PROVE  Backs(holders[c], LiveCallsOf(c), call)
  BY DEF RunsBacked, Backs

\* A chat with a live call has a lock, unless it was torn from it.
LEMMA LiveHolds ==
    ASSUME TypeOK, RunsBacked, ClaimsDirs, NEW k \in Calls,
           call[k].pc \in {"ready", "held"}, call[k].chat \notin torn
    PROVE  Holds(call[k].chat)
  <1>1. call[k] \in LiveCall /\ call[k].chat \in Chats
      BY LiveCalls DEF LiveCall
  <1>2. k \in LiveCallsOf(call[k].chat) /\ call[k].dirs # {}
      BY <1>1 DEF LiveCallsOf, ClaimsDirs, NoCall, LiveCall
  <1> QED BY <1>1, <1>2 DEF RunsBacked, Holds

\* A pass counts the waiters it grants and puts their directories in the lock.
LEMMA PassBacks ==
    ASSUME TypeOK, NEW hs \in [Chats -> Lock], NEW done \in SUBSET Calls,
           NEW woken \in SUBSET Waiting, processWaiters(hs, done, woken),
           NEW c \in Chats, \A k \in woken : call[k].chat # c,
           Backs(hs[c], LiveCallsOf(c) \ done, call)
    PROVE  Backs(holders'[c], LiveCallsOf(c)', call')
  <1> DEFINE ws == Waiting \ (done \cup woken)
  <1>1. PICK G \in SUBSET ws :
           /\ holders' = HoldersWith(hs, G)
           /\ call' = [k \in Calls |->
                          IF k \in done THEN NoCall
                          ELSE IF k \in woken \cup G
                               THEN [call[k] EXCEPT !.pc = "ready"]
                               ELSE call[k]]
      BY DEF processWaiters
  <1> DEFINE mine == {k \in G : call[k].chat = c}
             live == LiveCallsOf(c) \ done
  <1>2. \A k \in G \cup woken : k \in Calls /\ k \in Waiting /\ call[k] \in LiveCall
      BY LiveCalls DEF Waiting
  <1>3. \A k \in G \cup woken : k \notin done =>
            /\ call'[k].pc = "ready" /\ call'[k].chat = call[k].chat
            /\ call'[k].dirs = call[k].dirs /\ call'[k].mode = call[k].mode
      <2> TAKE k \in G \cup woken
      <2> HAVE k \notin done
      <2>1. call'[k] = [call[k] EXCEPT !.pc = "ready"]
          BY <1>1, <1>2
      <2> QED BY <1>2, <2>1 DEF LiveCall
  <1>4. \A k \in Calls : k \notin done /\ k \notin G \cup woken => call'[k] = call[k]
      BY <1>1
  <1>5. \A k \in done : call'[k].pc = "idle"
      BY <1>1 DEF NoCall
  <1>6. LiveCallsOf(c)' = live \cup mine
      <2> SUFFICES ASSUME NEW k \in Calls
                   PROVE  (call'[k].pc \in {"ready", "held"} /\ call'[k].chat = c)
                            <=> (k \in live \/ k \in mine)
          BY <1>2 DEF LiveCallsOf
      <2>1. CASE k \in done
          BY <1>5, <2>1
      <2>2. CASE k \notin done /\ k \in G \cup woken
          BY <1>2, <1>3, <2>2 DEF LiveCallsOf, Waiting
      <2>3. CASE k \notin done /\ k \notin G \cup woken
          BY <1>4, <2>3 DEF LiveCallsOf
      <2> QED BY <2>1, <2>2, <2>3
  <1>7. live \cap mine = {}
      BY <1>2 DEF LiveCallsOf, Waiting
  <1>8. Cardinality(live \cup mine) = Cardinality(live) + Cardinality(mine)
      <2>1. live \in SUBSET Calls /\ mine \in SUBSET Calls
          BY <1>2 DEF LiveCallsOf
      <2>2. IsFiniteSet(live) /\ IsFiniteSet(mine) /\ Cardinality(live) \in Nat /\ Cardinality(mine) \in Nat
          BY <2>1, FiniteCalls
      <2>3. Cardinality(live \cup mine) = Cardinality(live) + Cardinality(mine) - Cardinality({})
          BY <1>7, <2>2, FS_Union
      <2> QED BY <2>2, <2>3, FS_EmptySet
  <1>9. \A k \in live : call'[k] = call[k]
      BY <1>2, <1>4 DEF LiveCallsOf, Waiting
  <1> DEFINE h == hs[c]
             h2 == holders'[c]
  <1>10. /\ h2.activeRuns = h.activeRuns + Cardinality(mine)
         /\ h.dirs \subseteq h2.dirs
         /\ h.mode = "exclusive" => h2.mode = "exclusive"
         /\ \A k \in mine : /\ call[k].dirs \subseteq h2.dirs
                            /\ call[k].mode = "exclusive" => h2.mode = "exclusive"
      <2>1. CASE mine = {}
          <3>1. h2 = h
              BY <1>1, <2>1 DEF HoldersWith
          <3>2. h.activeRuns \in Int
              BY DEF Lock
          <3> HIDE DEF h, h2, mine
          <3> QED BY <2>1, <3>1, <3>2, FS_EmptySet
      <2>2. CASE mine # {}
          <3>1. h2 = [dirs |-> h.dirs \cup UNION {call[k].dirs : k \in mine},
                      mode |-> IF \/ h.mode = "exclusive"
                                  \/ \E k \in mine : call[k].mode = "exclusive"
                               THEN "exclusive" ELSE "readonly",
                      reason |-> "running",
                      activeRuns |-> h.activeRuns + Cardinality(mine)]
              BY <1>1, <2>2 DEF HoldersWith
          <3> HIDE DEF h, h2, mine
          <3> QED BY <3>1
      <2> QED BY <2>1, <2>2
  <1>11. h2.activeRuns = Cardinality(live \cup mine)
      <2> HIDE DEF h2, live, mine
      <2> QED BY <1>8, <1>10 DEF Backs, live
  <1>12. \A k \in live \cup mine :
            /\ call'[k].mode = "exclusive" => h2.mode = "exclusive"
            /\ \A d \in call'[k].dirs : \E e \in h2.dirs : <<e, d>> \in Under
      <2> TAKE k \in live \cup mine
      <2>1. CASE k \in live
          BY <1>9, <1>10, <2>1 DEF Backs
      <2>2. CASE k \in mine
          <3>1. call'[k].dirs = call[k].dirs /\ call'[k].mode = call[k].mode /\ call[k].dirs \subseteq Dirs
              BY <1>2, <1>3, <2>2 DEF LiveCall
          <3> QED BY <1>10, <2>2, <3>1, DirsFormTree
      <2> QED BY <2>1, <2>2
  <1> HIDE DEF h2, live, mine
  <1> QED BY <1>6, <1>11, <1>12 DEF Backs, h2

\* A call that goes is no longer counted.
LEMMA LeavesLive ==
    ASSUME TypeOK, NEW k \in Calls, NEW c \in Chats,
           call' = [call EXCEPT ![k] = NoCall]
    PROVE  /\ LiveCallsOf(c)' = LiveCallsOf(c) \ {k}
           /\ \A j \in LiveCallsOf(c) \ {k} : call'[j] = call[j]
  <1>1. call'[k].pc = "idle" /\ \A j \in Calls : j # k => call'[j] = call[j]
      BY DEF TypeOK, NoCall
  <1> QED BY <1>1 DEF LiveCallsOf

\* A step that touches neither the lock nor the live calls of a chat.
LEMMA SameBacks ==
    ASSUME NEW c \in Chats, RunsBacked, c \notin torn,
           holders'[c] = holders[c], LiveCallsOf(c)' = LiveCallsOf(c),
           \A k \in LiveCallsOf(c) : call'[k].dirs = call[k].dirs /\ call'[k].mode = call[k].mode
    PROVE  Backs(holders'[c], LiveCallsOf(c)', call')
  BY BackedChat DEF Backs

\* A run that enters is counted, and its directories are in the lock.
LEMMA EntryBacks ==
    ASSUME TypeOK, NEW k \in Calls, call[k] = NoCall, NEW r \in Requests, NEW h2,
           NEW c \in Chats \ torn, RunsBacked,
           holders' = [holders EXCEPT ![r.chat] = h2],
           call' = [call EXCEPT ![k] = CallOf(r, "held")],
           c = r.chat =>
              /\ h2.activeRuns = Cardinality(LiveCallsOf(c)) + 1
              /\ \A j \in LiveCallsOf(c) :
                    /\ call[j].mode = "exclusive" => h2.mode = "exclusive"
                    /\ \A d \in call[j].dirs : \E e \in h2.dirs : <<e, d>> \in Under
              /\ r.mode = "exclusive" => h2.mode = "exclusive"
              /\ \A d \in r.dirs : \E e \in h2.dirs : <<e, d>> \in Under
    PROVE  Backs(holders'[c], LiveCallsOf(c)', call')
  <1>1. r.chat \in Chats
      BY DirLockConstants
  <1>2. call'[k] = CallOf(r, "held") /\ \A j \in Calls : j # k => call'[j] = call[j]
      BY DEF TypeOK
  <1>3. k \notin LiveCallsOf(c)
      BY DEF LiveCallsOf, NoCall
  <1>4. CASE c # r.chat
      <2>1. holders'[c] = holders[c]
          BY <1>1, <1>4 DEF TypeOK
      <2>2. LiveCallsOf(c)' = LiveCallsOf(c)
          BY <1>2, <1>3, <1>4 DEF LiveCallsOf, CallOf
      <2> QED BY <1>2, <1>3, <2>1, <2>2, SameBacks DEF LiveCallsOf
  <1>5. CASE c = r.chat
      <2>1. holders'[c] = h2
          BY <1>1, <1>5 DEF TypeOK
      <2>2. LiveCallsOf(c)' = LiveCallsOf(c) \cup {k}
          BY <1>2, <1>5 DEF LiveCallsOf, CallOf
      <2>3. Cardinality(LiveCallsOf(c) \cup {k}) = Cardinality(LiveCallsOf(c)) + 1
          <3>1. IsFiniteSet(LiveCallsOf(c))
              BY FiniteCalls DEF LiveCallsOf
          <3> QED BY <1>3, <3>1, FS_AddElement
      <2>4. \A j \in LiveCallsOf(c) : call'[j] = call[j]
          BY <1>2, <1>3 DEF LiveCallsOf
      <2>5. call'[k].dirs = r.dirs /\ call'[k].mode = r.mode
          BY <1>2 DEF CallOf
      <2>6. \A j \in LiveCallsOf(c) \cup {k} :
               /\ call'[j].mode = "exclusive" => h2.mode = "exclusive"
               /\ \A d \in call'[j].dirs : \E e \in h2.dirs : <<e, d>> \in Under
          BY <1>5, <2>4, <2>5
      <2> QED BY <1>5, <2>1, <2>2, <2>3, <2>6 DEF Backs
  <1> QED BY <1>4, <1>5

\* A pass that begins by freeing the lock of chat f, whose last live call, if
\* it has one, is among those that go.
LEMMA FreeingPassBacks ==
    ASSUME TypeOK, RunsBacked, NEW f \in Chats, NEW done \in SUBSET Calls,
           NEW woken \in SUBSET Waiting,
           processWaiters([holders EXCEPT ![f] = Free], done, woken),
           NEW c \in Chats \ torn, \A k \in woken : call[k].chat # c,
           IF c = f THEN LiveCallsOf(c) \subseteq done ELSE LiveCallsOf(c) \cap done = {}
    PROVE  Backs(holders'[c], LiveCallsOf(c)', call')
  <1>1. PICK hs \in [Chats -> Lock] : hs = [holders EXCEPT ![f] = Free]
      BY FreeType DEF TypeOK
  <1>2. processWaiters(hs, done, woken)
      BY <1>1
  <1>3. Backs(hs[c], LiveCallsOf(c) \ done, call)
      <2>1. CASE c = f
          <3>1. hs[c] = Free /\ LiveCallsOf(c) \ done = {}
              BY <1>1, <2>1 DEF TypeOK
          <3> QED BY <3>1, FS_EmptySet DEF Backs, Free
      <2>2. CASE c # f
          <3>1. hs[c] = holders[c] /\ LiveCallsOf(c) \ done = LiveCallsOf(c)
              BY <1>1, <2>2 DEF TypeOK
          <3> QED BY <3>1, BackedChat
      <2> QED BY <2>1, <2>2
  <1> QED BY <1>2, <1>3, PassBacks

\* The release function counts down, and frees the lock with the last run.
LEMMA ReleaseBacks ==
    ASSUME TypeOK, RunsBacked, ClaimsDirs, NEW k \in Calls,
           call[k].pc \in {"ready", "held"}, NEW keep \in BOOLEAN, release(k, keep),
           NEW c \in Chats \ torn
    PROVE  Backs(holders'[c], LiveCallsOf(c)', call')
  <1> DEFINE o == call[k].chat
             left == [holders[o] EXCEPT !.activeRuns = @ - 1]
             idle == [left EXCEPT !.reason = "uncommitted"]
  <1>1. o \in Chats /\ holders[o] \in Lock
      BY LiveCalls DEF LiveCall, TypeOK
  <1>2. k \in LiveCallsOf(o) /\ (c # o => k \notin LiveCallsOf(c))
      BY DEF LiveCallsOf
  <1>3. /\ left.activeRuns = holders[o].activeRuns - 1 /\ idle.activeRuns = holders[o].activeRuns - 1
        /\ left.dirs = holders[o].dirs /\ idle.dirs = holders[o].dirs
        /\ left.mode = holders[o].mode /\ idle.mode = holders[o].mode
      BY <1>1 DEF Lock
  <1>4. IsFiniteSet(LiveCallsOf(c)) /\ Cardinality(LiveCallsOf(c)) \in Nat
      BY FiniteCalls DEF LiveCallsOf
  <1>5. c = o => /\ Holds(o) /\ holders[o].activeRuns = Cardinality(LiveCallsOf(c))
                 /\ Cardinality(LiveCallsOf(c) \ {k}) = holders[o].activeRuns - 1
      <2> HAVE c = o
      <2>1. Holds(o)
          BY LiveHolds
      <2>2. holders[o].activeRuns = Cardinality(LiveCallsOf(c))
          BY DEF RunsBacked
      <2> QED BY <1>2, <1>4, <2>1, <2>2, FS_RemoveElement
  <1>6. CASE /\ call' = [call EXCEPT ![k] = NoCall]
             /\ \/ holders' = holders /\ ~Holds(o)
                \/ holders' = [holders EXCEPT ![o] = left]
                \/ holders' = [holders EXCEPT ![o] = idle]
      <2>1. /\ LiveCallsOf(c)' = LiveCallsOf(c) \ {k}
            /\ \A j \in LiveCallsOf(c) \ {k} : call'[j] = call[j]
          BY <1>6, LeavesLive
      <2>2. CASE c # o
          <3>1. holders'[c] = holders[c]
              BY <1>1, <1>6, <2>2 DEF TypeOK
          <3>2. LiveCallsOf(c)' = LiveCallsOf(c)
              BY <1>2, <2>1, <2>2
          <3> HIDE DEF left, idle, o
          <3> QED BY <2>1, <3>1, <3>2, SameBacks
      <2>3. CASE c = o
          <3>1. holders'[c] = left \/ holders'[c] = idle
              BY <1>1, <1>5, <1>6, <2>3 DEF TypeOK
          <3>2. Backs(holders[c], LiveCallsOf(c), call)
              BY BackedChat
          <3> HIDE DEF left, idle, o
          <3> QED BY <1>3, <1>5, <2>1, <2>3, <3>1, <3>2 DEF Backs
      <2> QED BY <2>2, <2>3
  <1>7. CASE /\ processWaiters([holders EXCEPT ![o] = Free], {k}, {})
             /\ left.activeRuns <= 0
      <2>1. c = o => LiveCallsOf(c) \subseteq {k}
          <3> HAVE c = o
          <3>1. IsFiniteSet(LiveCallsOf(c) \ {k})
              BY <1>4, FS_RemoveElement
          <3>2. Cardinality(LiveCallsOf(c) \ {k}) \in Nat
              BY <3>1, FS_CardinalityType
          <3> HIDE DEF left, idle, o
          <3>3. Cardinality(LiveCallsOf(c) \ {k}) = 0
              BY <1>3, <1>5, <1>7, <3>2
          <3> QED BY <3>1, <3>3, FS_EmptySet
      <2>2. c # o => LiveCallsOf(c) \cap {k} = {}
          BY <1>2
      <2>3. {k} \in SUBSET Calls /\ {} \in SUBSET Waiting
          OBVIOUS
      <2>4. PICK f \in Chats : f = o
          BY <1>1
      <2>5. processWaiters([holders EXCEPT ![f] = Free], {k}, {})
          BY <1>7, <2>4
      <2> HIDE DEF left, idle, o
      <2>6. IF c = f THEN LiveCallsOf(c) \subseteq {k} ELSE LiveCallsOf(c) \cap {k} = {}
          BY <2>1, <2>2, <2>4
      <2> QED BY <2>3, <2>5, <2>6, FreeingPassBacks
  <1> QED BY <1>6, <1>7 DEF release

\* Every step keeps the directories of the calls, and a new one has some.
LEMMA StepClaims == TypeOK /\ ClaimsDirs /\ [Next]_vars => ClaimsDirs'
  <1> SUFFICES ASSUME TypeOK, ClaimsDirs, [Next]_vars PROVE ClaimsDirs'
      OBVIOUS
  <1> DEFINE Same == \A k \in Calls : call'[k] # NoCall => call[k] # NoCall /\ call'[k].dirs = call[k].dirs
  <1>1. ASSUME NEW hs, NEW done \in SUBSET Calls, NEW woken \in SUBSET Waiting,
               processWaiters(hs, done, woken)
        PROVE  Same
      <2>1. PICK G \in SUBSET (Waiting \ (done \cup woken)) :
               call' = [k \in Calls |->
                          IF k \in done THEN NoCall
                          ELSE IF k \in woken \cup G
                               THEN [call[k] EXCEPT !.pc = "ready"]
                               ELSE call[k]]
          BY <1>1 DEF processWaiters
      <2> TAKE k \in Calls
      <2>2. CASE k \in done
          BY <2>1, <2>2
      <2>3. CASE k \notin done /\ k \in woken \cup G
          <3>1. call[k] \in LiveCall /\ call[k] # NoCall
              BY <2>3, LiveCalls DEF Waiting, NoCall
          <3>2. call'[k] = [call[k] EXCEPT !.pc = "ready"]
              BY <2>1, <2>3
          <3> QED BY <3>1, <3>2 DEF LiveCall
      <2>4. CASE k \notin done /\ k \notin woken \cup G
          BY <2>1, <2>4
      <2> QED BY <2>2, <2>3, <2>4
  <1>2. Same => ClaimsDirs'
      BY DEF ClaimsDirs
  <1>3. ASSUME NEW k \in Calls, call' = [call EXCEPT ![k] = NoCall] PROVE Same
      BY <1>3 DEF TypeOK
  <1>4. ASSUME NEW k \in Calls, NEW keep \in BOOLEAN, release(k, keep) PROVE Same
      <2>1. {k} \in SUBSET Calls /\ {} \in SUBSET Waiting
          OBVIOUS
      <2>2. \/ call' = [call EXCEPT ![k] = NoCall]
            \/ \E hs : processWaiters(hs, {k}, {})
          BY <1>4 DEF release
      <2> HIDE DEF Same
      <2> QED BY <1>1, <1>3, <2>1, <2>2
  <1>5. ASSUME NEW k \in Calls, NEW r \in Requests, NEW pc \in {"held", "waiting"},
               call' = [call EXCEPT ![k] = CallOf(r, pc)]
        PROVE  ClaimsDirs'
      BY <1>5, DirLockConstants DEF TypeOK, ClaimsDirs, CallOf
  <1>6. ASSUME NEW k \in Calls, NEW r \in Requests,
               AcquireReentrant(k, r) \/ AcquireFree(k, r) \/ AcquireWait(k, r)
        PROVE  ClaimsDirs'
      BY <1>5, <1>6 DEF AcquireReentrant, AcquireFree, AcquireWait
  <1>7. ASSUME NEW k \in Calls, Resume(k) PROVE Same
      <2>1. call[k] \in LiveCall /\ call[k] # NoCall
          BY <1>7, LiveCalls DEF Resume, NoCall
      <2>2. \/ call' = [call EXCEPT ![k] = NoCall]
            \/ call' = [call EXCEPT ![k] = [call[k] EXCEPT !.pc = "held"]]
          BY <1>7 DEF Resume
      <2>3. [call[k] EXCEPT !.pc = "held"].dirs = call[k].dirs
          BY <2>1 DEF LiveCall
      <2> QED BY <2>1, <2>2, <2>3 DEF TypeOK
  <1>8. ASSUME NEW k \in Calls, Release(k) \/ CancelReady(k) PROVE Same
      <2> HIDE DEF Same
      <2> QED BY <1>4, <1>8 DEF Release, CancelReady
  <1>9. ASSUME NEW k \in Calls, CancelWaiting(k) PROVE Same
      <2> {k} \in SUBSET Calls /\ {} \in SUBSET Waiting
          OBVIOUS
      <2> HIDE DEF Same
      <2> QED BY <1>1, <1>9 DEF CancelWaiting
  <1>10. ASSUME NEW c \in Chats, UnlockIdle(c) \/ ForceReleaseChat(c) PROVE Same
      <2> {} \in SUBSET Calls /\ {} \in SUBSET Waiting /\ {k \in Waiting : call[k].chat = c} \in SUBSET Waiting
          OBVIOUS
      <2> HIDE DEF Same
      <2> QED BY <1>1, <1>10 DEF UnlockIdle, ForceReleaseChat
  <1>11. CASE UNCHANGED vars
      BY <1>11 DEF vars, ClaimsDirs
  <1> HIDE DEF Same
  <1> QED BY <1>2, <1>6, <1>7, <1>8, <1>9, <1>10, <1>11 DEF Next

\* Every step keeps the accounting exact, whether or not the runs of a chat
\* enter one after the other.
LEMMA StepBacks == TypeOK /\ ClaimsDirs /\ RunsBacked /\ [Next]_vars => RunsBacked'
  <1> SUFFICES ASSUME TypeOK, ClaimsDirs, RunsBacked, [Next]_vars, NEW c \in Chats \ torn'
               PROVE  Backs(holders'[c], LiveCallsOf(c)', call')
      BY DEF RunsBacked, Backs
  <1>1. torn \subseteq torn' /\ c \in Chats \ torn
      BY DEF Next, AcquireReentrant, AcquireFree, AcquireWait, Resume, Release, CancelWaiting,
             CancelReady, UnlockIdle, ForceReleaseChat, vars
  <1>2. Backs(holders[c], LiveCallsOf(c), call)
      BY <1>1, BackedChat
  <1>3. ASSUME NEW k \in Calls, NEW r \in Requests, AcquireReentrant(k, r)
        PROVE  Backs(holders'[c], LiveCallsOf(c)', call')
      <2> DEFINE h == holders[r.chat]
      <2>1. PICK h2 : h2 = [dirs |-> IF Grows(r) THEN Grown(r).dirs ELSE h.dirs,
                            mode |-> TargetMode(r), reason |-> "running",
                            activeRuns |-> h.activeRuns + 1]
          OBVIOUS
      <2>2. /\ holders' = [holders EXCEPT ![r.chat] = h2]
            /\ call' = [call EXCEPT ![k] = CallOf(r, "held")]
            /\ call[k] = NoCall
          BY <1>3, <2>1 DEF AcquireReentrant, Enters
      <2>3. /\ h.dirs \subseteq h2.dirs /\ h2.activeRuns = h.activeRuns + 1
            /\ h.mode = "exclusive" \/ r.mode = "exclusive" => h2.mode = "exclusive"
          BY <2>1 DEF Grown, TargetMode
      <2>4. \A d \in r.dirs : \E e \in h2.dirs : <<e, d>> \in Under
          <3>1. CASE Grows(r)
              <4>1. r.dirs \subseteq h2.dirs /\ r.dirs \subseteq Dirs
                  BY <2>1, <3>1, DirLockConstants DEF Grown
              <4> QED BY <4>1, DirsFormTree
          <3>2. CASE ~Grows(r)
              BY <2>1, <3>2 DEF Grows, Covered
          <3> QED BY <3>1, <3>2
      <2> HIDE DEF h
      <2>5. c = r.chat =>
              /\ h2.activeRuns = Cardinality(LiveCallsOf(c)) + 1
              /\ \A j \in LiveCallsOf(c) :
                    /\ call[j].mode = "exclusive" => h2.mode = "exclusive"
                    /\ \A d \in call[j].dirs : \E e \in h2.dirs : <<e, d>> \in Under
          BY <1>2, <2>3 DEF Backs, h
      <2> QED BY <1>1, <2>2, <2>3, <2>4, <2>5, EntryBacks
  <1>4. ASSUME NEW k \in Calls, NEW r \in Requests, AcquireFree(k, r)
        PROVE  Backs(holders'[c], LiveCallsOf(c)', call')
      <2>1. PICK h2 : h2 = [dirs |-> r.dirs, mode |-> r.mode, reason |-> "running", activeRuns |-> 1]
          OBVIOUS
      <2>2. /\ holders' = [holders EXCEPT ![r.chat] = h2]
            /\ call' = [call EXCEPT ![k] = CallOf(r, "held")]
            /\ call[k] = NoCall /\ ~Holds(r.chat)
          BY <1>4, <2>1 DEF AcquireFree, Enters
      <2>3. c = r.chat => LiveCallsOf(c) = {}
          BY <1>1, <2>2, LiveHolds DEF LiveCallsOf
      <2>4. \A d \in r.dirs : \E e \in h2.dirs : <<e, d>> \in Under
          BY <2>1, DirLockConstants, DirsFormTree
      <2>5. c = r.chat =>
              /\ h2.activeRuns = Cardinality(LiveCallsOf(c)) + 1
              /\ \A j \in LiveCallsOf(c) :
                    /\ call[j].mode = "exclusive" => h2.mode = "exclusive"
                    /\ \A d \in call[j].dirs : \E e \in h2.dirs : <<e, d>> \in Under
          <3> HAVE c = r.chat
          <3>1. LiveCallsOf(c) = {} /\ Cardinality(LiveCallsOf(c)) = 0
              BY <2>3, FS_EmptySet
          <3>2. h2.activeRuns = 1
              BY <2>1
          <3> QED BY <3>1, <3>2
      <2>6. r.mode = "exclusive" => h2.mode = "exclusive"
          BY <2>1
      <2> QED BY <1>1, <2>2, <2>4, <2>5, <2>6, EntryBacks
  <1>5. ASSUME NEW k \in Calls, NEW r \in Requests, AcquireWait(k, r)
        PROVE  Backs(holders'[c], LiveCallsOf(c)', call')
      <2>1. /\ holders' = holders /\ call[k] = NoCall
            /\ call' = [call EXCEPT ![k] = CallOf(r, "waiting")]
          BY <1>5 DEF AcquireWait, Enters
      <2>2. call'[k].pc = "waiting" /\ \A j \in Calls : j # k => call'[j] = call[j]
          BY <2>1 DEF TypeOK, CallOf
      <2>3. LiveCallsOf(c)' = LiveCallsOf(c) /\ \A j \in LiveCallsOf(c) : call'[j] = call[j]
          BY <2>1, <2>2 DEF LiveCallsOf, NoCall
      <2> QED BY <1>1, <2>1, <2>3, SameBacks
  <1>6. ASSUME NEW k \in Calls, Resume(k)
        PROVE  Backs(holders'[c], LiveCallsOf(c)', call')
      <2>1. call[k].pc = "ready" /\ call[k] \in LiveCall /\ holders' = holders
          BY <1>6, LiveCalls DEF Resume
      <2>2. CASE Holds(call[k].chat)
          <3>1. call' = [call EXCEPT ![k] = [call[k] EXCEPT !.pc = "held"]]
              BY <1>6, <2>2 DEF Resume
          <3>2. /\ call'[k].pc = "held" /\ call'[k].chat = call[k].chat
                /\ call'[k].dirs = call[k].dirs /\ call'[k].mode = call[k].mode
              BY <2>1, <3>1 DEF TypeOK, LiveCall
          <3>3. \A j \in Calls : j # k => call'[j] = call[j]
              BY <3>1 DEF TypeOK
          <3>4. LiveCallsOf(c)' = LiveCallsOf(c)
              BY <2>1, <3>2, <3>3 DEF LiveCallsOf
          <3>5. \A j \in LiveCallsOf(c) : call'[j].dirs = call[j].dirs /\ call'[j].mode = call[j].mode
              BY <3>2, <3>3 DEF LiveCallsOf
          <3> QED BY <1>1, <2>1, <3>4, <3>5, SameBacks
      <2>3. CASE ~Holds(call[k].chat)
          <3>1. call' = [call EXCEPT ![k] = NoCall]
              BY <1>6, <2>3 DEF Resume
          <3>2. call[k].chat # c
              BY <1>1, <2>1, <2>3, LiveHolds
          <3>3. k \notin LiveCallsOf(c)
              BY <3>2 DEF LiveCallsOf
          <3>4. /\ LiveCallsOf(c)' = LiveCallsOf(c) \ {k}
                /\ \A j \in LiveCallsOf(c) \ {k} : call'[j] = call[j]
              BY <1>1, <3>1, LeavesLive
          <3>5. LiveCallsOf(c) \ {k} = LiveCallsOf(c)
              BY <3>3
          <3>6. LiveCallsOf(c)' = LiveCallsOf(c) /\ \A j \in LiveCallsOf(c) : call'[j] = call[j]
              BY <3>4, <3>5
          <3> QED BY <1>1, <2>1, <3>6, SameBacks
      <2> QED BY <2>2, <2>3
  <1>7. ASSUME NEW k \in Calls, Release(k)
        PROVE  Backs(holders'[c], LiveCallsOf(c)', call')
      BY <1>1, <1>7, ReleaseBacks DEF Release
  <1>8. ASSUME NEW k \in Calls, CancelReady(k)
        PROVE  Backs(holders'[c], LiveCallsOf(c)', call')
      BY <1>1, <1>8, ReleaseBacks DEF CancelReady
  <1>9. ASSUME NEW k \in Calls, CancelWaiting(k)
        PROVE  Backs(holders'[c], LiveCallsOf(c)', call')
      <2>1. PICK hs \in [Chats -> Lock] : hs = holders
          BY DEF TypeOK
      <2>2. processWaiters(hs, {k}, {}) /\ call[k].pc = "waiting"
          BY <1>9, <2>1 DEF CancelWaiting
      <2>3. LiveCallsOf(c) \ {k} = LiveCallsOf(c)
          BY <2>2 DEF LiveCallsOf
      <2> QED BY <1>2, <2>1, <2>2, <2>3, PassBacks
  <1>10. ASSUME NEW f \in Chats, UnlockIdle(f)
         PROVE  Backs(holders'[c], LiveCallsOf(c)', call')
      <2>1. c = f => LiveCallsOf(c) = {}
          <3> HAVE c = f
          <3>1. holders[c].activeRuns <= 0 /\ holders[c].activeRuns = Cardinality(LiveCallsOf(c))
              BY <1>2, <1>10 DEF UnlockIdle, Backs
          <3>2. IsFiniteSet(LiveCallsOf(c)) /\ Cardinality(LiveCallsOf(c)) \in Nat
              BY FiniteCalls DEF LiveCallsOf
          <3>3. Cardinality(LiveCallsOf(c)) = 0
              BY <3>1, <3>2
          <3> QED BY <3>2, <3>3, FS_EmptySet
      <2>2. IF c = f THEN LiveCallsOf(c) \subseteq {} ELSE LiveCallsOf(c) \cap {} = {}
          BY <2>1
      <2> QED BY <1>1, <1>10, <2>2, FreeingPassBacks DEF UnlockIdle
  <1>11. ASSUME NEW f \in Chats, ForceReleaseChat(f)
         PROVE  Backs(holders'[c], LiveCallsOf(c)', call')
      <2>1. PICK woken \in SUBSET Waiting : woken = {k \in Waiting : call[k].chat = f}
          OBVIOUS
      <2>2. processWaiters([holders EXCEPT ![f] = Free], {}, woken)
          BY <1>11, <2>1 DEF ForceReleaseChat
      <2>3. c = f => \A k \in Calls : call[k] = NoCall \/ call[k].chat # c
          BY <1>1, <1>11 DEF ForceReleaseChat
      <2>4. \A k \in woken : call[k].chat # c
          BY <2>1, <2>3 DEF Waiting, NoCall
      <2>5. IF c = f THEN LiveCallsOf(c) \subseteq {} ELSE LiveCallsOf(c) \cap {} = {}
          BY <2>3 DEF LiveCallsOf, NoCall
      <2> QED BY <1>1, <2>2, <2>4, <2>5, FreeingPassBacks
  <1>12. CASE UNCHANGED vars
      <2>1. holders' = holders /\ call' = call /\ LiveCallsOf(c)' = LiveCallsOf(c)
          BY <1>12 DEF vars, LiveCallsOf
      <2> QED BY <1>2, <2>1
  <1> QED BY <1>3, <1>4, <1>5, <1>6, <1>7, <1>8, <1>9, <1>10, <1>11, <1>12 DEF Next

\* Each run that was granted the lock of its chat, and has not released it, is
\* counted in activeRuns and lies within the lock: the lock is there until the
\* last of them is gone.
THEOREM Accounting == Spec => []RunsBacked
  <1>1. Init => ClaimsDirs /\ RunsBacked
      <2> SUFFICES ASSUME Init PROVE ClaimsDirs /\ RunsBacked
          OBVIOUS
      <2>1. ClaimsDirs /\ \A c \in Chats : LiveCallsOf(c) = {} /\ holders[c] = Free
          BY DEF Init, ClaimsDirs, LiveCallsOf, NoCall
      <2> QED BY <2>1, FS_EmptySet DEF RunsBacked, Free
  <1>2. TypeOK /\ ClaimsDirs /\ RunsBacked /\ [Next]_vars => (TypeOK /\ ClaimsDirs /\ RunsBacked)'
      BY StepType, StepClaims, StepBacks
  <1> QED BY <1>1, <1>2, InitType, PTL DEF Spec

\* What the locks exclude, the runs inside them exclude.
LEMMA BackedRunsExclude == TypeOK /\ HolderExclusion /\ RunsBacked => RunExclusion
  <1> SUFFICES ASSUME TypeOK, HolderExclusion, RunsBacked, NEW j \in Calls, NEW k \in Calls,
                      call[j].pc = "held", call[k].pc = "held", call[j].chat # call[k].chat,
                      {call[j].chat, call[k].chat} \cap torn = {},
                      SameRunner(call[j].chat, call[k].chat),
                      Clash(call[j], call[k])
               PROVE  FALSE
      BY DEF RunExclusion
  <1> DEFINE g == holders[call[j].chat]
             h == holders[call[k].chat]
  <1>1. /\ call[j] \in LiveCall /\ call[k] \in LiveCall
        /\ call[j].chat \in Chats \ torn /\ call[k].chat \in Chats \ torn
        /\ call[j].dirs \subseteq Dirs /\ call[k].dirs \subseteq Dirs
        /\ g.dirs \subseteq Dirs /\ h.dirs \subseteq Dirs
      BY LiveCalls DEF LiveCall, TypeOK, Lock
  <1>2. /\ call[j].mode = "exclusive" => g.mode = "exclusive"
        /\ \A d \in call[j].dirs : \E e \in g.dirs : <<e, d>> \in Under
      BY <1>1 DEF RunsBacked, LiveCallsOf
  <1>3. /\ call[k].mode = "exclusive" => h.mode = "exclusive"
        /\ \A d \in call[k].dirs : \E e \in h.dirs : <<e, d>> \in Under
      BY <1>1 DEF RunsBacked, LiveCallsOf
  <1>4. PICK a \in call[j].dirs, b \in call[k].dirs : <<a, b>> \in Under \/ <<b, a>> \in Under
      BY DEF Clash, PathsOverlap
  <1>5. PICK u \in g.dirs : <<u, a>> \in Under
      BY <1>2
  <1>6. PICK v \in h.dirs : <<v, b>> \in Under
      BY <1>3
  <1>7. a \in Dirs /\ b \in Dirs /\ u \in Dirs /\ v \in Dirs
      BY <1>1
  <1>8. <<u, v>> \in Under \/ <<v, u>> \in Under
      BY <1>4, <1>5, <1>6, <1>7, DirsFormTree
  <1>9. Clash(g, h)
      BY <1>2, <1>3, <1>5, <1>6, <1>8 DEF Clash, PathsOverlap
  <1> QED BY <1>1, <1>9 DEF HolderExclusion

\* No two runs of different chats are in each other's directories at the same
\* time, however the runs of either chat joined, grew or left its lock.
THEOREM RunsExclude ==
    ASSUME ~ParallelEntry
    PROVE  Spec => []RunExclusion
  BY TypeCorrect, Exclusion, Accounting, BackedRunsExclude, PTL

-----------------------------------------------------------------------------
(* First come, first served *)

\* Chat c has no lock yet and waiter w of another chat is before it in the list.
Precedes(w, c) ==
    /\ holders[c] = Free /\ w \in Waiting
    /\ call[w].chat # c /\ SameRunner(call[w].chat, c)
    /\ \A k \in Waiting : call[k].chat = c => w \in ahead[k]

\* A pass that leaves w waiting gives c no lock that conflicts with w.
LEMMA PassServes ==
    ASSUME TypeOK, OneEntry, NEW hs \in [Chats -> Lock], NEW done \in SUBSET Calls,
           NEW woken \in SUBSET Waiting, processWaiters(hs, done, woken),
           NEW c \in Chats, NEW w, Precedes(w, c), w \in Waiting', hs[c] = Free
    PROVE  ~Clash(holders'[c], call[w])
  <1> DEFINE ws == Waiting \ (done \cup woken)
  <1>1. PICK G \in SUBSET ws :
           /\ IsGrantPass(hs, ws, G)
           /\ holders' = HoldersWith(hs, G)
           /\ call' = [k \in Calls |->
                          IF k \in done THEN NoCall
                          ELSE IF k \in woken \cup G
                               THEN [call[k] EXCEPT !.pc = "ready"]
                               ELSE call[k]]
      BY DEF processWaiters
  <1>2. Waiting' = ws \ G
      BY <1>1, PassWaiters
  <1>3. CASE \A k \in G : call[k].chat # c
      <2>1. holders'[c] = Free
          BY <1>1, <1>3 DEF HoldersWith
      <2> QED BY <2>1 DEF Clash, Free
  <1>4. CASE \E k \in G : call[k].chat = c
      <2>1. PICK k \in G : call[k].chat = c
          BY <1>4
      <2>2. k \in Waiting /\ k \in ws /\ w \in (ws \cap ahead[k]) \ G
          BY <1>2, <2>1 DEF Precedes
      <2>3. ~Clash(call[k], call[w])
          BY <1>1, <2>1, <2>2 DEF IsGrantPass, Precedes
      <2>4. holders'[c].dirs = call[k].dirs /\ holders'[c].mode = call[k].mode
          BY <1>1, <2>1, OneGrant DEF Free
      <2> QED BY <2>3, <2>4, ClashSame
  <1> QED BY <1>3, <1>4

\* The release function gives a lock to nobody who is behind a waiter that
\* conflicts.
LEMMA ReleaseServes ==
    ASSUME TypeOK, OneEntry, NEW k \in Calls, call[k].pc \in {"ready", "held"},
           NEW keep \in BOOLEAN, release(k, keep),
           NEW c \in Chats, NEW w, Precedes(w, c), w \in Waiting', holders'[c] # Free
    PROVE  ~Clash(holders'[c], call[w])
  <1> DEFINE o == call[k].chat
  <1>1. o \in Chats
      BY LiveCalls DEF LiveCall
  <1>2. CASE processWaiters([holders EXCEPT ![o] = Free], {k}, {})
      <2>1. PICK hs \in [Chats -> Lock] : hs = [holders EXCEPT ![o] = Free]
          BY FreeType DEF TypeOK
      <2>2. hs[c] = Free
          BY <1>1, <2>1 DEF TypeOK, Precedes
      <2>3. processWaiters(hs, {k}, {}) /\ {k} \in SUBSET Calls /\ {} \in SUBSET Waiting
          BY <1>2, <2>1
      <2> QED BY <2>2, <2>3, PassServes
  <1>3. CASE \/ holders' = holders
             \/ Holds(o) /\ \E h : holders' = [holders EXCEPT ![o] = h]
      <2>1. ~Holds(c)
          BY DEF Precedes, Holds, Free
      <2>2. holders'[c] = holders[c]
          BY <1>3, <2>1 DEF TypeOK
      <2> QED BY <2>2 DEF Precedes
  <1> QED BY <1>2, <1>3 DEF release

\* A chat gets a lock it did not have only if no conflicting request of another
\* chat was waiting before and is waiting still.
LEMMA StepServes ==
    ASSUME TypeOK, OneEntry, Next, NEW c \in Chats, NEW w, Precedes(w, c), w \in Waiting',
           holders'[c] # Free
    PROVE  ~Clash(holders'[c], call[w])
  <1>1. ASSUME NEW k \in Calls, NEW r \in Requests, AcquireReentrant(k, r) PROVE FALSE
      <2>1. Holds(r.chat) /\ ~Holds(c) /\ \E h : holders' = [holders EXCEPT ![r.chat] = h]
          BY <1>1 DEF AcquireReentrant, Precedes, Holds, Free
      <2>2. holders'[c] = holders[c]
          BY <2>1 DEF TypeOK
      <2> QED BY <2>2 DEF Precedes
  <1>2. ASSUME NEW k \in Calls, NEW r \in Requests, AcquireFree(k, r)
        PROVE  ~Clash(holders'[c], call[w])
      <2>1. PICK h2 : h2 = [dirs |-> r.dirs, mode |-> r.mode, reason |-> "running", activeRuns |-> 1]
          OBVIOUS
      <2>2. holders' = [holders EXCEPT ![r.chat] = h2] /\ ~BlockedByWaiter(r.chat, r)
          BY <1>2, <2>1 DEF AcquireFree, findConflict
      <2>3. CASE c # r.chat
          <3>1. holders'[c] = holders[c]
              BY <2>2, <2>3 DEF TypeOK
          <3> QED BY <3>1 DEF Precedes
      <2>4. CASE c = r.chat
          <3>1. holders'[c] = h2
              BY <2>2, <2>4 DEF TypeOK
          <3>2. ~Clash(r, call[w])
              BY <2>2, <2>4 DEF BlockedByWaiter, Precedes
          <3>3. h2.dirs = r.dirs /\ h2.mode = r.mode
              BY <2>1
          <3> QED BY <3>1, <3>2, <3>3, ClashSame
      <2> QED BY <2>3, <2>4
  <1>3. ASSUME NEW k \in Calls, NEW r \in Requests, AcquireWait(k, r) PROVE FALSE
      BY <1>3 DEF AcquireWait, Precedes
  <1>4. ASSUME NEW k \in Calls, Resume(k) PROVE FALSE
      BY <1>4 DEF Resume, Precedes
  <1>5. ASSUME NEW k \in Calls, Release(k) PROVE ~Clash(holders'[c], call[w])
      BY <1>5, ReleaseServes DEF Release
  <1>6. ASSUME NEW k \in Calls, CancelReady(k) PROVE ~Clash(holders'[c], call[w])
      BY <1>6, ReleaseServes DEF CancelReady
  <1>7. ASSUME NEW k \in Calls, CancelWaiting(k) PROVE ~Clash(holders'[c], call[w])
      <2>1. PICK hs \in [Chats -> Lock] : hs = holders
          BY DEF TypeOK
      <2>2. processWaiters(hs, {k}, {}) /\ hs[c] = Free
          BY <1>7, <2>1 DEF CancelWaiting, Precedes
      <2>3. {k} \in SUBSET Calls /\ {} \in SUBSET Waiting
          OBVIOUS
      <2> QED BY <2>2, <2>3, PassServes
  <1>8. ASSUME NEW o \in Chats, UnlockIdle(o) \/ ForceReleaseChat(o)
        PROVE  ~Clash(holders'[c], call[w])
      <2>1. PICK hs \in [Chats -> Lock] : hs = [holders EXCEPT ![o] = Free]
          BY FreeType DEF TypeOK
      <2>2. hs[c] = Free
          BY <2>1 DEF TypeOK, Precedes
      <2>3. PICK woken \in SUBSET Waiting : processWaiters(hs, {}, woken)
          <3>1. {} \in SUBSET Waiting /\ {k \in Waiting : call[k].chat = o} \in SUBSET Waiting
              OBVIOUS
          <3> QED BY <1>8, <2>1, <3>1 DEF UnlockIdle, ForceReleaseChat
      <2> QED BY <2>2, <2>3, PassServes
  <1> QED BY <1>1, <1>2, <1>3, <1>4, <1>5, <1>6, <1>7, <1>8 DEF Next

\* Waiters are served in the order in which they came, provided the runs of a
\* chat enter one after the other.
THEOREM FirstComeFirstServed ==
    ASSUME ~ParallelEntry
    PROVE  Spec => NoOvertaking
  <1>1. Init => TypeOK /\ WaitersAreList /\ NoLostWakeup /\ EntryOK /\ HolderExclusion
      BY InitType, InitWakesAll, InitExcludes
  <1>2. /\ TypeOK /\ WaitersAreList /\ NoLostWakeup /\ EntryOK /\ HolderExclusion
        /\ [Next]_vars
        => (TypeOK /\ WaitersAreList /\ NoLostWakeup /\ EntryOK /\ HolderExclusion)'
      BY StepType, StepExcludes, StepWakesAll
  <1> DEFINE Serves ==
        \A c \in Chats, w \in Waiting :
           /\ holders[c] = Free /\ holders'[c] # Free
           /\ w \in Waiting'
           /\ call[w].chat # c /\ SameRunner(call[w].chat, c)
           /\ \A k \in Waiting : call[k].chat = c => w \in ahead[k]
           => ~Clash(holders'[c], call[w])
  <1>3. TypeOK /\ EntryOK /\ [Next]_vars => [Serves]_vars
      BY StepServes DEF Precedes, EntryOK
  <1>4. NoOvertaking <=> [][Serves]_vars
      BY DEF NoOvertaking
  <1> HIDE DEF Serves
  <1> QED BY <1>1, <1>2, <1>3, <1>4, PTL DEF Spec
=============================================================================
