------------------------------ MODULE DirLock ------------------------------
(***************************************************************************)
(* The directory lock manager, backend/lib/dirlock/dirlock.go: before an   *)
(* agent or a workflow runs, its chat locks the directories the run works  *)
(* in, exclusively or read-only.  A lock belongs to a chat and is shared   *)
(* by every run of that chat (a peer call re-enters the lock of the agent  *)
(* that makes it).  A request that conflicts waits in a FIFO list.         *)
(*                                                                         *)
(* Manager.mu makes each section below one atomic step.  What is not       *)
(* under the mutex is the gap between the closing of a waiter's ready      *)
(* channel and the moment the waiting goroutine runs again, where it also  *)
(* may find its context cancelled: a call in that gap has pc = "ready".    *)
(***************************************************************************)
EXTENDS Integers, FiniteSets

CONSTANTS
    Chats,         \* chat sessions
    Calls,         \* slots for concurrent invocations of Acquire
    Dirs,          \* cleaned directory paths
    Under,         \* <<a, b>> : b is a or lies below a
    RunnerOf,      \* the runner node each chat is pinned to
    Requests,      \* the requests [chat, dirs, mode] the callers make
    ParallelEntry  \* may a chat request while an earlier request of it waits?

Modes == {"exclusive", "readonly"}
Reasons == {"running", "uncommitted"}

ASSUME DirLockConstants ==
    /\ IsFiniteSet(Calls)
    /\ ParallelEntry \in BOOLEAN
    /\ Requests \subseteq [chat : Chats, dirs : SUBSET Dirs, mode : Modes]
    /\ \A r \in Requests : r.dirs # {}

\* Directories form a tree: the ancestors of a directory are a chain.
ASSUME DirsFormTree ==
    /\ \A d \in Dirs : <<d, d>> \in Under
    /\ \A a, b, c \in Dirs :
          <<a, b>> \in Under /\ <<b, c>> \in Under => <<a, c>> \in Under
    /\ \A a, b, c \in Dirs :
          <<a, c>> \in Under /\ <<b, c>> \in Under
             => <<a, b>> \in Under \/ <<b, a>> \in Under

VARIABLES
    holders,   \* Manager.holders; a chat without a lock has the value Free
    call,      \* each invocation of Acquire, from its call to its release
    ahead,     \* Manager.waiters: for each waiting call, those before it
    torn       \* history: chats force-released while one of their calls was live

vars == <<holders, call, ahead, torn>>

Free == [dirs |-> {}, mode |-> "readonly", reason |-> "running", activeRuns |-> 0]
NoCall == [pc |-> "idle"]

-----------------------------------------------------------------------------
(* Conflicts *)

\* Mutant: only a directory above counts.
PathsOverlapAbove(a, b) == <<a, b>> \in Under

PathsOverlap(a, b) == <<a, b>> \in Under \/ <<b, a>> \in Under

\* Two claims on directories that cannot be held together.
Clash(x, y) ==
    /\ x.mode = "exclusive" \/ y.mode = "exclusive"
    /\ \E a \in x.dirs, b \in y.dirs : PathsOverlap(a, b)

SameRunner(c, d) == RunnerOf[c] = RunnerOf[d]

\* The claim x of chat c conflicts with the lock of another chat.
BlockedByHolder(hs, c, x) ==
    \E o \in Chats \ {c} : SameRunner(o, c) /\ Clash(x, hs[o])

Waiting == {k \in Calls : call[k].pc = "waiting"}

\* The claim x of chat c conflicts with a request another chat waits for.
BlockedByWaiter(c, x) ==
    \E w \in Waiting : /\ call[w].chat # c
                       /\ SameRunner(call[w].chat, c)
                       /\ Clash(x, call[w])

\* Mutant: the waiters are not looked at.
findConflictHolders(c, x) == BlockedByHolder(holders, c, x)

findConflict(c, x) == BlockedByHolder(holders, c, x) \/ BlockedByWaiter(c, x)

-----------------------------------------------------------------------------
(* processWaitersLocked: one pass over the waiters in FIFO order *)

\* The locks once the waiters in G have been granted: a grant to a chat that
\* already has a lock adds its directories and may make the lock exclusive.
HoldersWith(hs, G) ==
    [c \in Chats |->
        LET mine == {k \in G : call[k].chat = c}
        IN  IF mine = {} THEN hs[c]
            ELSE [dirs |-> hs[c].dirs \cup UNION {call[k].dirs : k \in mine},
                  mode |-> IF \/ hs[c].mode = "exclusive"
                              \/ \E k \in mine : call[k].mode = "exclusive"
                           THEN "exclusive" ELSE "readonly",
                  reason |-> "running",
                  activeRuns |-> hs[c].activeRuns + Cardinality(mine)]]

\* Mutant: the pass forgets the waiters of the same chat.
IsGrantPassOthers(hs, ws, G) ==
    \A k \in ws :
        k \in G <=>
            /\ ~BlockedByHolder(HoldersWith(hs, G \cap ahead[k]), call[k].chat, call[k])
            /\ \A w \in (ws \cap ahead[k]) \ G :
                  ~(/\ call[w].chat # call[k].chat
                    /\ SameRunner(call[w].chat, call[k].chat)
                    /\ Clash(call[k], call[w]))

\* The loop grants exactly the waiters of ws that conflict neither with a
\* lock, counting those just granted to waiters before them, nor with a
\* waiter before them that stays (of the same chat too).
IsGrantPass(hs, ws, G) ==
    \A k \in ws :
        k \in G <=>
            /\ ~BlockedByHolder(HoldersWith(hs, G \cap ahead[k]), call[k].chat, call[k])
            /\ \A w \in (ws \cap ahead[k]) \ G :
                  ~(SameRunner(call[w].chat, call[k].chat) /\ Clash(call[k], call[w]))

\* The end of every section that frees a lock or drops waiters: the calls of
\* done have gone back to their callers and those of woken have been told.
processWaiters(hs, done, woken) ==
    LET ws == Waiting \ (done \cup woken)
    IN  \E G \in SUBSET ws :
           /\ IsGrantPass(hs, ws, G)
           /\ holders' = HoldersWith(hs, G)
           /\ call' = [k \in Calls |->
                          IF k \in done THEN NoCall
                          ELSE IF k \in woken \cup G
                               THEN [call[k] EXCEPT !.pc = "ready"]
                               ELSE call[k]]
           /\ ahead' = [k \in Calls |->
                          IF k \in ws \ G THEN ahead[k] \cap (ws \ G) ELSE {}]

-----------------------------------------------------------------------------
(* Acquire *)

CallOf(r, pc) == [pc |-> pc, chat |-> r.chat, dirs |-> r.dirs, mode |-> r.mode]

\* The caller starts a request.  Without ParallelEntry the runs of a chat enter
\* one after the other: an agent has its lock before it calls its peers.
Enters(k, r) ==
    /\ call[k] = NoCall
    /\ r \in Requests
    /\ \/ ParallelEntry
       \/ \A j \in Calls : call[j].pc \in {"waiting", "ready"} => call[j].chat # r.chat

Holds(c) == holders[c].dirs # {}

\* What the chat's lock has to become to admit the request r.
TargetMode(r) ==
    IF r.mode = "exclusive" THEN "exclusive" ELSE holders[r.chat].mode

Covered(r) ==
    \A d \in r.dirs : \E h \in holders[r.chat].dirs : <<h, d>> \in Under

Grows(r) == TargetMode(r) # holders[r.chat].mode \/ ~Covered(r)

Grown(r) == [dirs |-> holders[r.chat].dirs \cup r.dirs, mode |-> TargetMode(r)]

\* The chat already has a lock: the run joins it, and a lock that must grow
\* does so at once or not at all.
AcquireReentrant(k, r) ==
    /\ Enters(k, r)
    /\ Holds(r.chat)
    /\ Grows(r) => ~findConflict(r.chat, Grown(r))
    /\ holders' = [holders EXCEPT
                     ![r.chat] = [dirs |-> IF Grows(r) THEN Grown(r).dirs ELSE @.dirs,
                                  mode |-> TargetMode(r),
                                  reason |-> "running",
                                  activeRuns |-> @.activeRuns + 1]]
    /\ call' = [call EXCEPT ![k] = CallOf(r, "held")]
    /\ UNCHANGED <<ahead, torn>>

AcquireFree(k, r) ==
    /\ Enters(k, r)
    /\ ~Holds(r.chat)
    /\ ~findConflict(r.chat, r)
    /\ holders' = [holders EXCEPT ![r.chat] = [dirs |-> r.dirs, mode |-> r.mode,
                                               reason |-> "running", activeRuns |-> 1]]
    /\ call' = [call EXCEPT ![k] = CallOf(r, "held")]
    /\ UNCHANGED <<ahead, torn>>

AcquireWait(k, r) ==
    /\ Enters(k, r)
    /\ ~Holds(r.chat)
    /\ findConflict(r.chat, r)
    /\ call' = [call EXCEPT ![k] = CallOf(r, "waiting")]
    /\ ahead' = [ahead EXCEPT ![k] = Waiting]
    /\ UNCHANGED <<holders, torn>>

\* The goroutine of a waiter runs after its ready channel was closed: with a
\* lock of its chat in place it takes the lock as granted to it.
Resume(k) ==
    /\ call[k].pc = "ready"
    /\ call' = [call EXCEPT ![k] = IF Holds(call[k].chat) THEN [@ EXCEPT !.pc = "held"]
                                   ELSE NoCall]
    /\ UNCHANGED <<holders, ahead, torn>>

-----------------------------------------------------------------------------
(* Release *)

\* Mutant: the first run that ends takes the lock of the others along.
releaseAll(k, keepUncommitted) ==
    LET c == call[k].chat
    IN  processWaiters([holders EXCEPT ![c] = Free], {k}, {})

\* The release function of call k, which looks the lock up by chat.
release(k, keepUncommitted) ==
    LET c == call[k].chat
        h == holders[c]
        left == [h EXCEPT !.activeRuns = @ - 1]
    IN  \/ /\ ~Holds(c)
           /\ call' = [call EXCEPT ![k] = NoCall]
           /\ UNCHANGED <<holders, ahead>>
        \/ /\ Holds(c)
           /\ left.activeRuns > 0
           /\ holders' = [holders EXCEPT ![c] = left]
           /\ call' = [call EXCEPT ![k] = NoCall]
           /\ UNCHANGED ahead
        \/ /\ Holds(c)
           /\ left.activeRuns <= 0
           /\ h.mode = "exclusive" /\ keepUncommitted
           /\ holders' = [holders EXCEPT ![c] = [left EXCEPT !.reason = "uncommitted"]]
           /\ call' = [call EXCEPT ![k] = NoCall]
           /\ UNCHANGED ahead
        \/ /\ Holds(c)
           /\ left.activeRuns <= 0
           /\ ~(h.mode = "exclusive" /\ keepUncommitted)
           /\ processWaiters([holders EXCEPT ![c] = Free], {k}, {})

\* A run ends; the caller keeps the lock when the directories have
\* uncommitted changes or the chat has queued messages.
Release(k) ==
    /\ call[k].pc = "held"
    /\ \E keepUncommitted \in BOOLEAN : release(k, keepUncommitted)
    /\ UNCHANGED torn

\* Mutants: the waiters behind a cancelled one are not looked at; a grant that
\* comes with the cancellation is not given back.
CancelWaitingQuietly(k) ==
    /\ call[k].pc = "waiting"
    /\ call' = [call EXCEPT ![k] = NoCall]
    /\ ahead' = [j \in Calls |-> IF j = k THEN {} ELSE ahead[j] \ {k}]
    /\ UNCHANGED <<holders, torn>>
CancelReadyQuietly(k) ==
    /\ call[k].pc = "ready"
    /\ call' = [call EXCEPT ![k] = NoCall]
    /\ UNCHANGED <<holders, ahead, torn>>

\* The context of a waiting call ends before it is granted ...
CancelWaiting(k) ==
    /\ call[k].pc = "waiting"
    /\ processWaiters(holders, {k}, {})
    /\ UNCHANGED torn

\* ... or after its ready channel was closed.
CancelReady(k) ==
    /\ call[k].pc = "ready"
    /\ release(k, FALSE)
    /\ UNCHANGED torn

\* The user, or the git view once everything is committed, drops an idle lock.
UnlockIdle(c) ==
    /\ Holds(c)
    /\ holders[c].activeRuns <= 0
    /\ processWaiters([holders EXCEPT ![c] = Free], {}, {})
    /\ UNCHANGED torn

\* The session is archived or deleted, whatever its runs are doing.
ForceReleaseChat(c) ==
    /\ processWaiters([holders EXCEPT ![c] = Free], {},
                      {k \in Waiting : call[k].chat = c})
    /\ torn' = IF \E k \in Calls : call[k] # NoCall /\ call[k].chat = c
               THEN torn \cup {c} ELSE torn

-----------------------------------------------------------------------------

Init ==
    /\ holders = [c \in Chats |-> Free]
    /\ call = [k \in Calls |-> NoCall]
    /\ ahead = [k \in Calls |-> {}]
    /\ torn = {}

Next ==
    \/ \E k \in Calls, r \in Requests :
          AcquireReentrant(k, r) \/ AcquireFree(k, r) \/ AcquireWait(k, r)
    \/ \E k \in Calls : Resume(k) \/ Release(k) \/ CancelWaiting(k) \/ CancelReady(k)
    \/ \E c \in Chats : UnlockIdle(c) \/ ForceReleaseChat(c)

Spec == Init /\ [][Next]_vars
-----------------------------------------------------------------------------
(* What the lock promises *)

Lock == [dirs : SUBSET Dirs, mode : Modes, reason : Reasons, activeRuns : Int]
LiveCall == [pc : {"waiting", "ready", "held"}, chat : Chats,
             dirs : SUBSET Dirs, mode : Modes]

TypeOK ==
    /\ holders \in [Chats -> Lock]
    /\ call \in [Calls -> {NoCall} \cup LiveCall]
    /\ ahead \in [Calls -> SUBSET Calls]
    /\ torn \in SUBSET Chats

\* Mutual exclusion of the locks: two chats of one runner never hold
\* overlapping directories unless both hold them read-only, whatever mix of
\* grants, merges, upgrades, cancellations and force-releases led there
\* (Acquire, processWaitersLocked).
HolderExclusion ==
    \A c, d \in Chats :
        c # d /\ SameRunner(c, d) => ~Clash(holders[c], holders[d])

\* Mutual exclusion of the runs themselves: while a run has not called its
\* release function, no run of another chat is in its directories.  It needs
\* the accounting of activeRuns to be exact.  A chat whose session was archived
\* or deleted under a live run has given that up (ForceReleaseChat).
RunExclusion ==
    \A j, k \in Calls :
        /\ call[j].pc = "held" /\ call[k].pc = "held"
        /\ call[j].chat # call[k].chat
        /\ {call[j].chat, call[k].chat} \cap torn = {}
        /\ SameRunner(call[j].chat, call[k].chat)
        => ~Clash(call[j], call[k])

LiveCallsOf(c) ==
    {k \in Calls : call[k].pc \in {"ready", "held"} /\ call[k].chat = c}

\* Each run that was granted the lock, and has not released it, is counted in
\* activeRuns and lies within its chat's lock (makeReleaseFunc counts down to
\* the moment the last of them is gone).
RunsBacked ==
    \A c \in Chats \ torn :
        /\ holders[c].activeRuns = Cardinality(LiveCallsOf(c))
        /\ \A k \in LiveCallsOf(c) :
              /\ call[k].mode = "exclusive" => holders[c].mode = "exclusive"
              /\ \A d \in call[k].dirs : \E h \in holders[c].dirs : <<h, d>> \in Under

\* No lost wake-up: a waiter is blocked by a lock or by a waiter before it.
\* Every path that frees a lock or drops a waiter ends in processWaitersLocked,
\* so none is left behind that could run.
NoLostWakeup ==
    \A k \in Waiting :
        \/ BlockedByHolder(holders, call[k].chat, call[k])
        \/ \E w \in ahead[k] : /\ SameRunner(call[w].chat, call[k].chat)
                               /\ Clash(call[k], call[w])

\* The waiters form a list: any two are ordered, and only waiters are in it
\* (the other properties of the list rest on it, see DirLockProofs).
WaitersAreList ==
    /\ \A k \in Calls : ahead[k] \subseteq Waiting /\ (k \notin Waiting => ahead[k] = {})
    /\ \A k \in Waiting : k \notin ahead[k]
    /\ \A j, k \in Waiting : j # k => (j \in ahead[k] <=> k \notin ahead[j])
    /\ \A j, k \in Waiting : j \in ahead[k] => ahead[j] \subseteq ahead[k]

\* First come, first served: a chat gets a lock it did not have only if no
\* conflicting request of another chat was waiting before and is waiting still
\* (findConflictLocked and processWaitersLocked respect earlier waiters).
NoOvertaking ==
    [][\A c \in Chats, w \in Waiting :
         /\ holders[c] = Free /\ holders'[c] # Free
         /\ w \in Waiting'
         /\ call[w].chat # c /\ SameRunner(call[w].chat, c)
         /\ \A k \in Waiting : call[k].chat = c => w \in ahead[k]
         => ~Clash(holders'[c], call[w])]_vars

\* No starvation: if every chat's lock is free again and again, each waiting
\* request eventually stops waiting, however many others arrive meanwhile.
NoStarvation ==
    (\A c \in Chats : []<>(holders[c] = Free))
        => \A k \in Calls : k \in Waiting ~> k \notin Waiting
=============================================================================
