------------------------ MODULE RunnerServicesProofs ------------------------
(***************************************************************************)
(* The services of a runner, for every number of requests, attempts,       *)
(* streams and units of output: a request that is sent again is not        *)
(* carried out twice, the output of a command is put together without a    *)
(* hole, and nothing is left running that nobody listens to.               *)
(***************************************************************************)
EXTENDS RunnerServices, FiniteSetTheorems, TLAPS

-----------------------------------------------------------------------------
(***************************************************************************)
(* The requests.                                                           *)
(***************************************************************************)

HandlerTypeOK ==
    /\ handler \in [Attempts -> [at : {"none", "waiting", "admitted", "executing", "attached",
                                       "answering", "gone"}, entry : 0..MaxAttempts]]
    /\ \A t \in Attempts : handler[t].at \in {"executing", "attached", "answering"} => handler[t].entry # 0

RequestsTypeOK ==
    /\ caller \in [RequestIds -> [attempt : Nat, got : {NoResult, "unavailable", "done", "interrupted"}]]
    /\ HandlerTypeOK
    /\ cache \subseteq Attempts
    /\ older \in [Attempts -> SUBSET Attempts]
    /\ result \in [Attempts -> {NoResult, "done", "interrupted"}]
    /\ connected \subseteq Attempts
    /\ dropped \subseteq RequestIds

\* An attempt that has not been made has no handler.
NotYetMade == \A t \in Attempts : t[2] > caller[t[1]].attempt => At(t, "none")

\* A function has its result when its handler is past it.
ResultIsLate == \A t \in Attempts : Completed(t) => handler[t].at \in {"answering", "gone"}

\* An entry is of a function that is being carried out or has its result.
EntriesTell == \A t \in cache : At(t, "executing") \/ Completed(t)

\* A request has one entry.
OneEntry == \A t, u \in cache : t[1] = u[1] => t = u

\* A result is in the cache until it is dropped.
ResultsKept == \A t \in Attempts : Completed(t) => t \in cache \/ t[1] \in dropped

RequestsInv == RunningIsKept /\ NotYetMade /\ ResultIsLate /\ EntriesTell /\ OneEntry /\ ResultsKept

LEMMA AttemptParts ==
    ASSUME NEW t \in Attempts
    PROVE  t[1] \in RequestIds /\ t[2] \in 1..MaxAttempts /\ t = <<t[1], t[2]>>
BY RequestConstants DEF Attempts

\* What the cache is left with when some of its completed entries go.
LEMMA KeepsType ==
    ASSUME NEW c \in SUBSET Attempts, NEW old \in [Attempts -> SUBSET Attempts], NEW gone \in SUBSET c,
           RequestsTypeOK, Keeps(c, old, gone)
    PROVE  /\ cache' \subseteq Attempts
           /\ older' \in [Attempts -> SUBSET Attempts]
           /\ dropped' \subseteq RequestIds
BY AttemptParts DEF Keeps, RequestsTypeOK

LEMMA RequestsTypeInit == RequestsInit => RequestsTypeOK
BY RequestConstants DEF RequestsInit, RequestsTypeOK, HandlerTypeOK, NoResult

LEMMA HandlerMoves ==
    ASSUME HandlerTypeOK, NEW t \in Attempts, NEW w \in {"waiting", "admitted", "gone"},
           handler' = [handler EXCEPT ![t].at = w]
    PROVE  HandlerTypeOK'
BY DEF HandlerTypeOK

LEMMA RequestsTypeStep == RequestsTypeOK /\ [RequestsNext]_requestVars => RequestsTypeOK'
<1> SUFFICES ASSUME RequestsTypeOK, [RequestsNext]_requestVars PROVE RequestsTypeOK'
    OBVIOUS
<1> USE RequestConstants
<1>1. ASSUME NEW r \in RequestIds, Call(r) PROVE RequestsTypeOK'
      <2>1. caller[r].attempt + 1 \in 1..MaxAttempts
            BY <1>1 DEF Call, RequestsTypeOK
      <2>2. <<r, caller[r].attempt + 1>> \in Attempts
            BY <2>1 DEF Attempts
      <2>3. caller' \in [RequestIds -> [attempt : Nat, got : {NoResult, "unavailable", "done", "interrupted"}]]
            BY <1>1 DEF Call, RequestsTypeOK
      <2>4. HandlerTypeOK'
            BY <1>1, <2>2, HandlerMoves DEF Call, RequestsTypeOK
      <2> QED BY <1>1, <2>2, <2>3, <2>4 DEF Call, RequestsTypeOK
<1>2. ASSUME NEW r \in RequestIds, GiveUp(r) PROVE RequestsTypeOK'
      BY <1>2 DEF GiveUp, RequestsTypeOK, HandlerTypeOK
<1>3. ASSUME NEW t \in Attempts, Break(t) PROVE RequestsTypeOK'
      BY <1>3 DEF Break, RequestsTypeOK, HandlerTypeOK
<1>4. ASSUME NEW t \in Attempts, Admit(t) PROVE RequestsTypeOK'
      <2>1. HandlerTypeOK'
            BY <1>4, HandlerMoves DEF Admit, RequestsTypeOK
      <2> QED BY <1>4, <2>1 DEF Admit, RequestsTypeOK
<1>5. ASSUME NEW t \in Attempts, Do(t) PROVE RequestsTypeOK'
      <2>1. CASE \E u \in Joins(t) : handler' = [handler EXCEPT ![t] = [at |-> "attached", entry |-> u[2]]]
                 /\ UNCHANGED <<cache, older, dropped>>
            <3>1. PICK u \in Joins(t) : handler' = [handler EXCEPT ![t] = [at |-> "attached", entry |-> u[2]]]
                  BY <2>1
            <3>2. u[2] \in 1..MaxAttempts
                  BY AttemptParts DEF Joins, Entry, RequestsTypeOK, HandlerTypeOK
            <3> QED BY <1>5, <2>1, <3>1, <3>2 DEF Do, RequestsTypeOK, HandlerTypeOK
      <2>2. CASE Joins(t) = {}
            <3> DEFINE c == cache \cup {t}
                       old == [older EXCEPT ![t] = cache]
                       gone == Evicted(c, old, result)
            <3>1. Keeps(c, old, gone)
                  BY <1>5, <2>2 DEF Do
            <3>2. old \in [Attempts -> SUBSET Attempts]
                  BY DEF RequestsTypeOK, HandlerTypeOK
            <3>3. gone \in SUBSET c
                  BY DEF Evicted
            <3>4. c \in SUBSET Attempts
                  BY DEF RequestsTypeOK, HandlerTypeOK
            <3> HIDE DEF c, old, gone
            <3>5. cache' \subseteq Attempts /\ older' \in [Attempts -> SUBSET Attempts] /\ dropped' \subseteq RequestIds
                  BY <3>1, <3>2, <3>3, <3>4, KeepsType
            <3>6. handler' = [handler EXCEPT ![t] = [at |-> "executing", entry |-> t[2]]] /\ t[2] \in 1..MaxAttempts
                  BY <1>5, <2>2, AttemptParts DEF Do
            <3> QED BY <1>5, <3>5, <3>6 DEF Do, RequestsTypeOK, HandlerTypeOK
      <2> QED BY <1>5, <2>1, <2>2 DEF Do
<1>6. ASSUME NEW t \in Attempts, Complete(t) PROVE RequestsTypeOK'
      <2>1. Evicted(cache, older, result') \subseteq cache
            BY DEF Evicted
      <2>2. cache' \subseteq Attempts /\ older' \in [Attempts -> SUBSET Attempts] /\ dropped' \subseteq RequestIds
            BY <1>6, <2>1, KeepsType DEF Complete, RequestsTypeOK, HandlerTypeOK
      <2>3. result' \in [Attempts -> {NoResult, "done", "interrupted"}]
            BY <1>6 DEF Complete, RequestsTypeOK, HandlerTypeOK
      <2> QED BY <1>6, <2>2, <2>3 DEF Complete, At, RequestsTypeOK, HandlerTypeOK
<1>7. ASSUME NEW t \in Attempts, Detach(t) PROVE RequestsTypeOK'
      BY <1>7 DEF Detach, At, RequestsTypeOK, HandlerTypeOK
<1>8. ASSUME NEW t \in Attempts, Answer(t) PROVE RequestsTypeOK'
      <2>1. <<t[1], handler[t].entry>> \in Attempts /\ t[1] \in RequestIds
            BY <1>8, AttemptParts DEF Answer, At, RequestsTypeOK, HandlerTypeOK, Attempts
      <2>2. caller' \in [RequestIds -> [attempt : Nat, got : {NoResult, "unavailable", "done", "interrupted"}]]
            BY <1>8, <2>1 DEF Answer, RequestsTypeOK, HandlerTypeOK
      <2> QED BY <1>8, <2>2 DEF Answer, At, RequestsTypeOK, HandlerTypeOK
<1>9. ASSUME NEW t \in Attempts, Expire(t) PROVE RequestsTypeOK'
      <2>1. cache' \subseteq Attempts /\ older' \in [Attempts -> SUBSET Attempts] /\ dropped' \subseteq RequestIds
            BY <1>9, KeepsType DEF Expire, RequestsTypeOK, HandlerTypeOK
      <2> QED BY <1>9, <2>1 DEF Expire, RequestsTypeOK, HandlerTypeOK
<1>10. CASE UNCHANGED requestVars
       BY <1>10 DEF requestVars, RequestsTypeOK, HandlerTypeOK
<1> QED BY <1>1, <1>2, <1>3, <1>4, <1>5, <1>6, <1>7, <1>8, <1>9, <1>10 DEF RequestsNext

-----------------------------------------------------------------------------
LEMMA RequestsInvInit == RequestsInit => RequestsInv
BY AttemptParts DEF RequestsInit, RequestsInv, RunningIsKept, NotYetMade, ResultIsLate, EntriesTell,
   OneEntry, ResultsKept, At, Completed, NoResult

\* What goes has its result.
LEMMA GoneIsCompleted ==
    ASSUME NEW c, NEW old, NEW res, NEW t \in Evicted(c, old, res)
    PROVE  t \in c /\ res[t] # NoResult
BY DEF Evicted

LEMMA RequestsInvStep ==
    RequestsTypeOK /\ RequestsInv /\ [RequestsNext]_requestVars => RequestsInv'
<1> SUFFICES ASSUME RequestsTypeOK, RequestsInv, [RequestsNext]_requestVars PROVE RequestsInv'
    OBVIOUS
<1> DEFINE Parts == RequestsTypeOK /\ RunningIsKept /\ NotYetMade /\ ResultIsLate /\ EntriesTell
                    /\ OneEntry /\ ResultsKept
<1>0. Parts
      BY DEF RequestsInv
<1>1. ASSUME NEW r \in RequestIds, Call(r) PROVE RequestsInv'
      <2> DEFINE t0 == <<r, caller[r].attempt + 1>>
      <2>1. t0 \in Attempts /\ At(t0, "none") /\ handler' = [handler EXCEPT ![t0].at = "waiting"]
            BY <1>0, <1>1, RequestConstants DEF Call, RequestsTypeOK, HandlerTypeOK, Attempts, NotYetMade
      <2>2. ~Completed(t0) /\ t0 \notin cache
            BY <1>0, <2>1 DEF ResultIsLate, EntriesTell, At
      <2>3. NotYetMade'
            <3> SUFFICES ASSUME NEW t \in Attempts, t[2] > caller'[t[1]].attempt PROVE At(t, "none")'
                BY DEF NotYetMade
            <3>1. t[1] \in RequestIds /\ t[2] \in Nat /\ t = <<t[1], t[2]>>
                  BY AttemptParts, RequestConstants
            <3>2. t # t0 /\ t[2] > caller[t[1]].attempt
                  BY <1>0, <1>1, <3>1 DEF Call, RequestsTypeOK, HandlerTypeOK
            <3> QED BY <1>0, <2>1, <3>2 DEF NotYetMade, At, RequestsTypeOK, HandlerTypeOK
      <2>4. RunningIsKept' /\ ResultIsLate' /\ EntriesTell'
            BY <1>0, <1>1, <2>1, <2>2 DEF Call, RunningIsKept, ResultIsLate, EntriesTell, At, Completed, RequestsTypeOK, HandlerTypeOK
      <2>5. OneEntry' /\ ResultsKept'
            BY <1>0, <1>1 DEF Call, OneEntry, ResultsKept, Completed
      <2> QED BY <2>3, <2>4, <2>5 DEF RequestsInv
<1>2. ASSUME NEW r \in RequestIds, GiveUp(r) PROVE RequestsInv'
      <2>1. NotYetMade'
            BY <1>0, <1>2, AttemptParts DEF GiveUp, NotYetMade, At, RequestsTypeOK, HandlerTypeOK
      <2> QED BY <1>0, <1>2, <2>1 DEF GiveUp, RequestsInv, RunningIsKept, ResultIsLate, EntriesTell,
                 OneEntry, ResultsKept, At, Completed
<1>3. ASSUME NEW t \in Attempts, Break(t) PROVE RequestsInv'
      BY <1>0, <1>3 DEF Break, RequestsInv, NotYetMade, RunningIsKept, ResultIsLate, EntriesTell,
         OneEntry, ResultsKept, At, Completed
<1>4. ASSUME NEW t \in Attempts, At(t, "waiting"), handler'[t].at \in {"admitted", "gone"},
             handler' = [handler EXCEPT ![t].at = handler'[t].at],
             UNCHANGED <<caller, cache, older, result, connected, dropped>>
      PROVE  RequestsInv'
      <2>1. ~Completed(t) /\ t \notin cache
            BY <1>0, <1>4 DEF ResultIsLate, EntriesTell, At
      <2> QED BY <1>0, <1>4, <2>1 DEF RequestsInv, NotYetMade, RunningIsKept, ResultIsLate, EntriesTell,
                 OneEntry, ResultsKept, At, Completed, RequestsTypeOK, HandlerTypeOK
<1>5. ASSUME NEW t \in Attempts, Do(t) PROVE RequestsInv'
      <2>1. At(t, "admitted") /\ ~Completed(t) /\ t \notin cache
            BY <1>0, <1>5 DEF Do, ResultIsLate, EntriesTell, At
      <2>2. CASE \E u \in Joins(t) : handler' = [handler EXCEPT ![t] = [at |-> "attached", entry |-> u[2]]]
                 /\ UNCHANGED <<cache, older, dropped>>
            <3>1. PICK u \in Joins(t) : handler' = [handler EXCEPT ![t] = [at |-> "attached", entry |-> u[2]]]
                  BY <2>2
            <3> QED BY <1>0, <1>5, <2>1, <2>2, <3>1 DEF Do, RequestsInv, NotYetMade, RunningIsKept, ResultIsLate,
                       EntriesTell, OneEntry, ResultsKept, At, Completed, RequestsTypeOK, HandlerTypeOK
      <2>3. CASE Joins(t) = {}
            <3> DEFINE gone == Evicted(cache \cup {t}, [older EXCEPT ![t] = cache], result)
            <3>1. /\ handler' = [handler EXCEPT ![t] = [at |-> "executing", entry |-> t[2]]]
                  /\ Keeps(cache \cup {t}, [older EXCEPT ![t] = cache], gone)
                  /\ UNCHANGED <<caller, result, connected>>
                  BY <1>5, <2>3 DEF Do
            <3>2. \A u \in gone : u \in cache \cup {t} /\ Completed(u)
                  BY GoneIsCompleted DEF Completed
            <3> HIDE DEF gone
            <3>3. t \notin gone /\ gone \subseteq cache
                  BY <2>1, <3>2
            <3>4. cache' = (cache \cup {t}) \ gone /\ dropped' = dropped \cup {u[1] : u \in gone}
                  BY <3>1 DEF Keeps
            <3>5. RunningIsKept'
                  BY <1>0, <3>1, <3>2, <3>3, <3>4 DEF RunningIsKept, ResultIsLate, At, RequestsTypeOK, HandlerTypeOK
            <3>6. NotYetMade' /\ ResultIsLate' /\ EntriesTell'
                  BY <1>0, <2>1, <3>1, <3>4 DEF NotYetMade, ResultIsLate, EntriesTell, At, Completed, RequestsTypeOK, HandlerTypeOK
            <3>7. OneEntry'
                  BY <1>0, <2>3, <3>4 DEF OneEntry, Joins, Entry
            <3>8. ResultsKept'
                  BY <1>0, <3>1, <3>4 DEF ResultsKept, Completed
            <3> QED BY <3>5, <3>6, <3>7, <3>8 DEF RequestsInv
      <2> QED BY <1>5, <2>2, <2>3 DEF Do
<1>6. ASSUME NEW t \in Attempts, Complete(t) PROVE RequestsInv'
      <2> DEFINE gone == Evicted(cache, older, result')
      <2>1. PICK v \in {"done", "interrupted"} : result' = [result EXCEPT ![t] = v]
            BY <1>6 DEF Complete
      <2>2. /\ At(t, "executing") /\ handler' = [handler EXCEPT ![t].at = "answering"]
            /\ Keeps(cache, older, gone)
            /\ UNCHANGED <<caller, connected>>
            BY <1>6 DEF Complete
      <2>3. t \in cache
            BY <1>0, <2>2 DEF RunningIsKept
      <2>4. \A u \in gone : u \in cache /\ result'[u] # NoResult
            BY GoneIsCompleted
      <2> HIDE DEF gone
      <2>5. cache' = cache \ gone /\ dropped' = dropped \cup {u[1] : u \in gone}
            BY <2>2 DEF Keeps
      <2>6. \A u \in Attempts : u # t => (Completed(u)' <=> Completed(u)) /\ (\A w : At(u, w)' <=> At(u, w))
            BY <2>1, <2>2 DEF Completed, At, RequestsTypeOK, HandlerTypeOK
      <2>7. Completed(t)' /\ At(t, "answering")'
            BY <2>1, <2>2 DEF Completed, At, RequestsTypeOK, HandlerTypeOK, NoResult
      <2>8. RunningIsKept'
            BY <1>0, <2>4, <2>5, <2>6, <2>7 DEF RunningIsKept, ResultIsLate, At, Completed
      <2>9. NotYetMade' /\ ResultIsLate' /\ EntriesTell'
            BY <1>0, <2>1, <2>2, <2>5, <2>7 DEF NotYetMade, ResultIsLate, EntriesTell, At, Completed, RequestsTypeOK, HandlerTypeOK
      <2>10. OneEntry'
             BY <1>0, <2>5 DEF OneEntry
      <2>11. ResultsKept'
             BY <1>0, <2>3, <2>5, <2>6 DEF ResultsKept
      <2> QED BY <2>8, <2>9, <2>10, <2>11 DEF RequestsInv
<1>7. ASSUME NEW t \in Attempts, Detach(t) PROVE RequestsInv'
      <2>1. ~Completed(t) /\ t \notin cache
            BY <1>0, <1>7 DEF Detach, ResultIsLate, EntriesTell, At
      <2> QED BY <1>0, <1>7, <2>1 DEF Detach, RequestsInv, NotYetMade, RunningIsKept, ResultIsLate, EntriesTell,
                 OneEntry, ResultsKept, At, Completed, RequestsTypeOK, HandlerTypeOK
<1>8. ASSUME NEW t \in Attempts, Answer(t) PROVE RequestsInv'
      <2>1. NotYetMade'
            BY <1>0, <1>8, AttemptParts DEF Answer, NotYetMade, At, RequestsTypeOK, HandlerTypeOK
      <2> QED BY <1>0, <1>8, <2>1 DEF Answer, RequestsInv, RunningIsKept, ResultIsLate, EntriesTell,
                 OneEntry, ResultsKept, At, Completed, RequestsTypeOK, HandlerTypeOK
<1>9. ASSUME NEW t \in Attempts, Expire(t) PROVE RequestsInv'
      BY <1>0, <1>9 DEF Expire, Keeps, RequestsInv, NotYetMade, RunningIsKept, ResultIsLate, EntriesTell,
         OneEntry, ResultsKept, At, Completed, RequestsTypeOK, HandlerTypeOK
<1>10. CASE UNCHANGED requestVars
       BY <1>0, <1>10 DEF requestVars, RequestsInv, NotYetMade, RunningIsKept, ResultIsLate, EntriesTell,
          OneEntry, ResultsKept, At, Completed
<1>11. ASSUME NEW t \in Attempts, Admit(t) PROVE RequestsInv'
       <2>1. At(t, "waiting") /\ handler'[t].at \in {"admitted", "gone"}
             /\ handler' = [handler EXCEPT ![t].at = handler'[t].at]
             /\ UNCHANGED <<caller, cache, older, result, connected, dropped>>
             BY <1>11 DEF Admit, RequestsTypeOK, HandlerTypeOK
       <2> QED BY <1>4, <2>1
<1> QED BY <1>1, <1>2, <1>3, <1>5, <1>6, <1>7, <1>8, <1>9, <1>10, <1>11 DEF RequestsNext

\* A set whose members are all the same has one at most.
LEMMA AtMostOne ==
    ASSUME NEW S, \A x, y \in S : x = y
    PROVE  Cardinality(S) <= 1
<1>1. CASE S = {}
      BY <1>1, FS_EmptySet
<1>2. CASE S # {}
      <2>1. PICK x \in S : S = {x}
            BY <1>2
      <2> QED BY <2>1, FS_Singleton
<1> QED BY <1>1, <1>2

LEMMA RequestsAreServed == RequestsTypeOK /\ RequestsInv => RequestsServed
<1> SUFFICES ASSUME RequestsTypeOK, RequestsInv PROVE ExecutedOnce
    BY DEF RequestsServed, RequestsInv
<1> SUFFICES ASSUME NEW r \in RequestIds
             PROVE  /\ Cardinality({t \in Executed(r) : At(t, "executing")}) <= 1
                    /\ r \notin dropped => Cardinality(Executed(r)) <= 1
    BY DEF ExecutedOnce
<1>1. \A t, u \in {t \in Executed(r) : At(t, "executing")} : t = u
      BY DEF Executed, RequestsInv, RunningIsKept, OneEntry
<1>2. ASSUME r \notin dropped PROVE \A t, u \in Executed(r) : t = u
      BY <1>2 DEF Executed, RequestsInv, RunningIsKept, OneEntry, ResultsKept
<1> HIDE DEF Executed
<1> QED BY <1>1, <1>2, AtMostOne

\* However often a request is sent and whatever the cache drops, its function is never
\* carried out twice at a time, a second time only when the result of the first has been
\* dropped, and one that is being carried out can be joined (idemCache.do, evictLocked).
THEOREM RequestsCorrect == RequestsSpec => []RequestsServed
<1>1. RequestsInit => RequestsTypeOK /\ RequestsInv
      BY RequestsTypeInit, RequestsInvInit
<1>2. RequestsTypeOK /\ RequestsInv /\ [RequestsNext]_requestVars => (RequestsTypeOK /\ RequestsInv)'
      BY RequestsTypeStep, RequestsInvStep
<1>3. RequestsTypeOK /\ RequestsInv => RequestsServed
      BY RequestsAreServed
<1> QED BY <1>1, <1>2, <1>3, PTL DEF RequestsSpec

-----------------------------------------------------------------------------
(***************************************************************************)
(* The commands.                                                           *)
(***************************************************************************)

RunType == [state : {"none", "running", "done"}, known : BOOLEAN, start : Nat, end : Nat, sent : Nat,
            killed : BOOLEAN, outcome : Int, gen : Nat, attached : Int,
            grace : {"off", "armed", "over"}, late : Nat, kills : BOOLEAN]
StreamType == [pc : {"none", "request", "created", "attached", "over"}, gen : Nat, off : Nat,
               resumed : BOOLEAN, up : BOOLEAN]
ClientType == [pc : {"retry", "stream", "gap", "exited", "failed", "cancelled"},
               attempts : 0..MaxStreams, off : Nat]

CommandTypeOK ==
    /\ command \in RunType
    /\ started \in Nat
    /\ commandHandler \in [Streams -> StreamType]
    /\ frames \in [Streams -> Seq(Int)]
    /\ commandClient \in ClientType

LEMMA CommandTypes ==
    CommandTypeOK => /\ command \in RunType /\ started \in Nat
                     /\ commandHandler \in [Streams -> StreamType] /\ frames \in [Streams -> Seq(Int)]
                     /\ commandClient \in ClientType
BY DEF CommandTypeOK

-----------------------------------------------------------------------------
(***************************************************************************)
(* What a step does to a run and to a stream, field by field.              *)
(***************************************************************************)

SameCommand(d, c) ==
    d.state = c.state /\ d.known = c.known /\ d.end = c.end /\ d.killed = c.killed /\ d.outcome = c.outcome
SameListeners(d, c) ==
    d.gen = c.gen /\ d.attached = c.attached /\ d.grace = c.grace /\ d.late = c.late /\ d.kills = c.kills

NewRun == [NoRun EXCEPT !.state = "running", !.known = TRUE]

LEMMA NewRunFields ==
    /\ NewRun \in RunType /\ NoRun \in RunType
    /\ NewRun.state = "running" /\ NewRun.known /\ NewRun.start = 0 /\ NewRun.end = 0 /\ NewRun.sent = 0
    /\ ~NewRun.killed /\ NewRun.gen = 0 /\ NewRun.attached = 0 /\ NewRun.late = 0 /\ ~NewRun.kills
<1>1. NoRun \in RunType
      BY DEF NoRun, RunType
<1>2. PICK d : d = NewRun
      OBVIOUS
<1>3. d = [NoRun EXCEPT !.state = "running", !.known = TRUE]
      BY <1>2 DEF NewRun
<1>4. d = [state |-> "running", known |-> TRUE, start |-> NoRun.start, end |-> NoRun.end, sent |-> NoRun.sent,
           killed |-> NoRun.killed, outcome |-> NoRun.outcome, gen |-> NoRun.gen, attached |-> NoRun.attached,
           grace |-> NoRun.grace, late |-> NoRun.late, kills |-> NoRun.kills]
      BY <1>1, <1>3 DEF RunType
<1>5. d \in RunType
      BY <1>1, <1>4 DEF RunType
<1>6. /\ NoRun.start = 0 /\ NoRun.end = 0 /\ NoRun.sent = 0 /\ ~NoRun.killed /\ NoRun.gen = 0
      /\ NoRun.attached = 0 /\ NoRun.late = 0 /\ ~NoRun.kills
      BY DEF NoRun
<1>7. /\ d.state = "running" /\ d.known /\ d.start = 0 /\ d.end = 0 /\ d.sent = 0
      /\ ~d.killed /\ d.gen = 0 /\ d.attached = 0 /\ d.late = 0 /\ ~d.kills
      BY <1>4, <1>6
<1> QED BY <1>1, <1>2, <1>5, <1>7

\* What c becomes when a stream attaches at an offset.
IsAttached(d, c, off) ==
    /\ d \in RunType /\ SameCommand(d, c)
    /\ d.gen = c.gen + 1 /\ d.attached = c.attached + 1 /\ d.grace = "off" /\ d.sent = off
    /\ d.late = c.late /\ d.kills = c.kills

LEMMA AttachedFields ==
    ASSUME NEW c \in RunType, NEW off \in Nat
    PROVE  IsAttached(Attached(c, off), c, off)
<1>0. PICK d : d = Attached(c, off)
      OBVIOUS
<1>1. d = [state |-> c.state, known |-> c.known, start |-> c.start, end |-> c.end, sent |-> off,
           killed |-> c.killed, outcome |-> c.outcome, gen |-> c.gen + 1, attached |-> c.attached + 1,
           grace |-> "off", late |-> c.late, kills |-> c.kills]
      BY <1>0 DEF RunType, Attached
<1>2. d \in RunType
      BY <1>1 DEF RunType
<1> QED BY <1>0, <1>1, <1>2 DEF SameCommand, IsAttached

LEMMA DetachedFields ==
    ASSUME NEW c \in RunType, NEW d, d = Detached(c)
    PROVE  /\ d \in RunType /\ SameCommand(d, c)
           /\ d.gen = c.gen /\ d.attached = c.attached - 1 /\ d.sent = c.sent
           /\ d.grace = IF c.attached > 1 \/ c.state = "done" \/ c.grace # "off" THEN c.grace ELSE "armed"
           /\ d.late = c.late /\ d.kills = c.kills
<1> DEFINE g == IF c.attached > 1 \/ c.state = "done" \/ c.grace # "off" THEN c.grace ELSE "armed"
<1>1. g \in {"off", "armed", "over"}
      BY DEF RunType
<1>2. d = [c EXCEPT !.attached = c.attached - 1, !.grace = g]
      BY DEF Detached
<1>3. g = IF c.attached > 1 \/ c.state = "done" \/ c.grace # "off" THEN c.grace ELSE "armed"
      OBVIOUS
<1> HIDE DEF g
<1>4. d = [state |-> c.state, known |-> c.known, start |-> c.start, end |-> c.end, sent |-> c.sent,
           killed |-> c.killed, outcome |-> c.outcome, gen |-> c.gen, attached |-> c.attached - 1,
           grace |-> g, late |-> c.late, kills |-> c.kills]
      BY <1>2 DEF RunType
<1>5. d \in RunType
      BY <1>1, <1>4 DEF RunType
<1> QED BY <1>3, <1>4, <1>5 DEF SameCommand

LEMMA TrimmedFields ==
    ASSUME NEW c \in RunType, NEW d, d = Trimmed(c)
    PROVE  /\ d \in RunType /\ SameCommand(d, c) /\ SameListeners(d, c) /\ d.sent = c.sent
           /\ c.sent <= c.start + Keep => d.start = c.start
<1>1. Keep \in Nat /\ c.sent \in Nat /\ c.start \in Nat /\ c.end \in Nat
      BY CommandConstants DEF RunType
<1>2. CASE c.sent <= c.start + Keep
      BY <1>2 DEF Trimmed, SameCommand, SameListeners
<1>3. CASE ~(c.sent <= c.start + Keep)
      <2> DEFINE n == IF c.sent - Keep < c.end THEN c.sent - Keep ELSE c.end
      <2>1. n \in Nat
            BY <1>1, <1>3
      <2>2. d = [c EXCEPT !.start = n]
            BY <1>3 DEF Trimmed
      <2> HIDE DEF n
      <2>3. d = [state |-> c.state, known |-> c.known, start |-> n, end |-> c.end, sent |-> c.sent,
                 killed |-> c.killed, outcome |-> c.outcome, gen |-> c.gen, attached |-> c.attached,
                 grace |-> c.grace, late |-> c.late, kills |-> c.kills]
            BY <2>2 DEF RunType
      <2>4. d \in RunType
            BY <2>1, <2>3 DEF RunType
      <2> QED BY <1>3, <2>3, <2>4 DEF SameCommand, SameListeners
<1> QED BY <1>2, <1>3

LEMMA WrittenFields ==
    ASSUME NEW c \in RunType, NEW d, d = Trimmed([c EXCEPT !.end = c.end + 1])
    PROVE  /\ d \in RunType /\ SameListeners(d, c) /\ d.sent = c.sent /\ d.end = c.end + 1
           /\ d.state = c.state /\ d.known = c.known /\ d.killed = c.killed /\ d.outcome = c.outcome
           /\ c.sent = 0 => d.start = c.start
<1> DEFINE w == [c EXCEPT !.end = c.end + 1]
<1>1. w = [state |-> c.state, known |-> c.known, start |-> c.start, end |-> c.end + 1, sent |-> c.sent,
           killed |-> c.killed, outcome |-> c.outcome, gen |-> c.gen, attached |-> c.attached,
           grace |-> c.grace, late |-> c.late, kills |-> c.kills]
      BY DEF RunType
<1>2. d = Trimmed(w)
      OBVIOUS
<1> HIDE DEF w
<1>3. w \in RunType
      BY <1>1 DEF RunType
<1>4. SameCommand(d, w) /\ SameListeners(d, w) /\ d.sent = w.sent /\ d \in RunType
      /\ (w.sent <= w.start + Keep => d.start = w.start)
      BY <1>2, <1>3, TrimmedFields
<1>5. c.sent = 0 => w.sent <= w.start + Keep
      BY <1>1, CommandConstants DEF RunType
<1> QED BY <1>1, <1>4, <1>5 DEF SameCommand, SameListeners

LEMMA SentFields ==
    ASSUME NEW c \in RunType, NEW d, d = Trimmed([c EXCEPT !.sent = c.sent + 1])
    PROVE  d \in RunType /\ SameCommand(d, c) /\ SameListeners(d, c) /\ d.sent = c.sent + 1
<1> DEFINE w == [c EXCEPT !.sent = c.sent + 1]
<1>1. w = [state |-> c.state, known |-> c.known, start |-> c.start, end |-> c.end, sent |-> c.sent + 1,
           killed |-> c.killed, outcome |-> c.outcome, gen |-> c.gen, attached |-> c.attached,
           grace |-> c.grace, late |-> c.late, kills |-> c.kills]
      BY DEF RunType
<1>2. d = Trimmed(w)
      OBVIOUS
<1> HIDE DEF w
<1>3. w \in RunType
      BY <1>1 DEF RunType
<1>4. SameCommand(d, w) /\ SameListeners(d, w) /\ d.sent = w.sent /\ d \in RunType
      BY <1>2, <1>3, TrimmedFields
<1> QED BY <1>1, <1>4 DEF SameCommand, SameListeners

IsDone(d, c, o) ==
    /\ d \in RunType /\ SameListeners(d, c) /\ d.sent = c.sent /\ d.end = c.end
    /\ d.state = "done" /\ d.known = c.known /\ d.killed = c.killed /\ d.outcome = o /\ d.start = c.start

LEMMA DoneFields ==
    ASSUME NEW c \in RunType, NEW o \in Int
    PROVE  IsDone([c EXCEPT !.state = "done", !.outcome = o], c, o)
<1>0. PICK d : d = [c EXCEPT !.state = "done", !.outcome = o]
      OBVIOUS
<1>1. d = [state |-> "done", known |-> c.known, start |-> c.start, end |-> c.end, sent |-> c.sent,
           killed |-> c.killed, outcome |-> o, gen |-> c.gen, attached |-> c.attached,
           grace |-> c.grace, late |-> c.late, kills |-> c.kills]
      BY <1>0 DEF RunType
<1>2. d \in RunType
      BY <1>1 DEF RunType
<1>3. IsDone(d, c, o)
      BY <1>1, <1>2 DEF SameListeners, IsDone
<1> QED BY <1>0, <1>3

LEMMA FiresFields ==
    ASSUME NEW c \in RunType, NEW d, d = [c EXCEPT !.grace = "over", !.late = c.late + 1]
    PROVE  /\ d \in RunType /\ SameCommand(d, c) /\ d.sent = c.sent /\ d.gen = c.gen /\ d.attached = c.attached
           /\ d.grace = "over" /\ d.late = c.late + 1 /\ d.kills = c.kills /\ d.start = c.start
<1>1. d = [state |-> c.state, known |-> c.known, start |-> c.start, end |-> c.end, sent |-> c.sent,
           killed |-> c.killed, outcome |-> c.outcome, gen |-> c.gen, attached |-> c.attached,
           grace |-> "over", late |-> c.late + 1, kills |-> c.kills]
      BY DEF RunType
<1>2. d \in RunType
      BY <1>1 DEF RunType
<1> QED BY <1>1, <1>2 DEF SameCommand

LEMMA LooksFields ==
    ASSUME NEW c \in RunType, c.late > 0, NEW d,
           d = [c EXCEPT !.late = c.late - 1, !.kills = c.kills \/ ~(c.attached > 0 \/ c.state = "done")]
    PROVE  /\ d \in RunType /\ SameCommand(d, c) /\ d.sent = c.sent /\ d.gen = c.gen /\ d.attached = c.attached
           /\ d.grace = c.grace /\ d.late = c.late - 1 /\ d.start = c.start
           /\ d.kills <=> c.kills \/ ~(c.attached > 0 \/ c.state = "done")
<1>1. d.kills \in BOOLEAN /\ (d.kills <=> c.kills \/ ~(c.attached > 0 \/ c.state = "done"))
      BY DEF RunType
<1>2. d = [state |-> c.state, known |-> c.known, start |-> c.start, end |-> c.end, sent |-> c.sent,
           killed |-> c.killed, outcome |-> c.outcome, gen |-> c.gen, attached |-> c.attached,
           grace |-> c.grace, late |-> c.late - 1, kills |-> d.kills]
      BY DEF RunType
<1>3. /\ SameCommand(d, c) /\ d.sent = c.sent /\ d.gen = c.gen /\ d.attached = c.attached
      /\ d.grace = c.grace /\ d.late = c.late - 1 /\ d.start = c.start
      BY <1>2 DEF SameCommand
<1> DEFINE k == d.kills
<1>4. d = [state |-> c.state, known |-> c.known, start |-> c.start, end |-> c.end, sent |-> c.sent,
           killed |-> c.killed, outcome |-> c.outcome, gen |-> c.gen, attached |-> c.attached,
           grace |-> c.grace, late |-> c.late - 1, kills |-> k] /\ k \in BOOLEAN
      BY <1>1, <1>2
<1> HIDE DEF k
<1>5. d \in RunType
      BY <1>4 DEF RunType
<1> QED BY <1>1, <1>3, <1>5

LEMMA KillsFields ==
    ASSUME NEW c \in RunType, NEW d, d = [c EXCEPT !.kills = FALSE, !.killed = TRUE]
    PROVE  /\ d \in RunType /\ d.state = c.state /\ d.known = c.known /\ d.end = c.end /\ d.outcome = c.outcome
           /\ d.sent = c.sent /\ d.gen = c.gen /\ d.attached = c.attached
           /\ d.grace = c.grace /\ d.killed /\ d.start = c.start
<1>1. d = [state |-> c.state, known |-> c.known, start |-> c.start, end |-> c.end, sent |-> c.sent,
           killed |-> TRUE, outcome |-> c.outcome, gen |-> c.gen, attached |-> c.attached,
           grace |-> c.grace, late |-> c.late, kills |-> FALSE]
      BY DEF RunType
<1>2. d \in RunType
      BY <1>1 DEF RunType
<1> QED BY <1>1, <1>2

LEMMA CancelledFields ==
    ASSUME NEW c \in RunType, NEW d, d = [c EXCEPT !.killed = TRUE]
    PROVE  /\ d \in RunType /\ d.state = c.state /\ d.known = c.known /\ d.end = c.end /\ d.outcome = c.outcome
           /\ d.sent = c.sent /\ SameListeners(d, c) /\ d.killed /\ d.start = c.start
<1>1. d = [state |-> c.state, known |-> c.known, start |-> c.start, end |-> c.end, sent |-> c.sent,
           killed |-> TRUE, outcome |-> c.outcome, gen |-> c.gen, attached |-> c.attached,
           grace |-> c.grace, late |-> c.late, kills |-> c.kills]
      BY DEF RunType
<1>2. d \in RunType
      BY <1>1 DEF RunType
<1> QED BY <1>1, <1>2 DEF SameListeners

LEMMA ForgottenFields ==
    ASSUME NEW c \in RunType, NEW d, d = [c EXCEPT !.known = FALSE]
    PROVE  /\ d \in RunType /\ d.state = c.state /\ ~d.known /\ d.end = c.end /\ d.outcome = c.outcome
           /\ d.sent = c.sent /\ SameListeners(d, c) /\ d.killed = c.killed /\ d.start = c.start
<1>1. d = [state |-> c.state, known |-> FALSE, start |-> c.start, end |-> c.end, sent |-> c.sent,
           killed |-> c.killed, outcome |-> c.outcome, gen |-> c.gen, attached |-> c.attached,
           grace |-> c.grace, late |-> c.late, kills |-> c.kills]
      BY DEF RunType
<1>2. d \in RunType
      BY <1>1 DEF RunType
<1> QED BY <1>1, <1>2 DEF SameListeners

\* The handler of stream s, with the others as they are.
HandlerBecomes(s, pc, gen) ==
    /\ commandHandler' \in [Streams -> StreamType]
    /\ commandHandler'[s].pc = pc /\ commandHandler'[s].gen = gen
    /\ commandHandler'[s].off = commandHandler[s].off
    /\ commandHandler'[s].resumed = commandHandler[s].resumed /\ commandHandler'[s].up = commandHandler[s].up
    /\ \A t \in Streams \ {s} : commandHandler'[t] = commandHandler[t]

LEMMA HandlerOver ==
    ASSUME NEW s \in Streams, commandHandler \in [Streams -> StreamType],
           commandHandler' = [commandHandler EXCEPT ![s].pc = "over"]
    PROVE  HandlerBecomes(s, "over", commandHandler[s].gen)
<1> DEFINE h == commandHandler[s]
<1>1. commandHandler' = [commandHandler EXCEPT ![s] = [h EXCEPT !.pc = "over"]] /\ h \in StreamType
      OBVIOUS
<1>2. PICK d : d = [h EXCEPT !.pc = "over"]
      OBVIOUS
<1>3. d = [pc |-> "over", gen |-> h.gen, off |-> h.off, resumed |-> h.resumed, up |-> h.up]
      BY <1>1, <1>2 DEF StreamType
<1>4. d \in StreamType
      BY <1>1, <1>3 DEF StreamType
<1>5. /\ commandHandler' \in [Streams -> StreamType] /\ commandHandler'[s] = d
      /\ \A t \in Streams \ {s} : commandHandler'[t] = commandHandler[t]
      BY <1>1, <1>2, <1>4
<1> QED BY <1>3, <1>5 DEF HandlerBecomes

LEMMA HandlerCreated ==
    ASSUME NEW s \in Streams, commandHandler \in [Streams -> StreamType],
           commandHandler' = [commandHandler EXCEPT ![s].pc = "created"]
    PROVE  HandlerBecomes(s, "created", commandHandler[s].gen)
<1> DEFINE h == commandHandler[s]
<1>1. commandHandler' = [commandHandler EXCEPT ![s] = [h EXCEPT !.pc = "created"]] /\ h \in StreamType
      OBVIOUS
<1>2. PICK d : d = [h EXCEPT !.pc = "created"]
      OBVIOUS
<1>3. d = [pc |-> "created", gen |-> h.gen, off |-> h.off, resumed |-> h.resumed, up |-> h.up]
      BY <1>1, <1>2 DEF StreamType
<1>4. d \in StreamType
      BY <1>1, <1>3 DEF StreamType
<1>5. /\ commandHandler' \in [Streams -> StreamType] /\ commandHandler'[s] = d
      /\ \A t \in Streams \ {s} : commandHandler'[t] = commandHandler[t]
      BY <1>1, <1>2, <1>4
<1> QED BY <1>3, <1>5 DEF HandlerBecomes

LEMMA HandlerAttached ==
    ASSUME NEW s \in Streams, commandHandler \in [Streams -> StreamType], NEW n \in Nat,
           commandHandler' = [commandHandler EXCEPT ![s].pc = "attached", ![s].gen = n]
    PROVE  HandlerBecomes(s, "attached", n)
<1> DEFINE h == commandHandler[s]
<1>1. commandHandler' = [commandHandler EXCEPT ![s] = [h EXCEPT !.pc = "attached", !.gen = n]] /\ h \in StreamType
      OBVIOUS
<1>2. PICK d : d = [h EXCEPT !.pc = "attached", !.gen = n]
      OBVIOUS
<1>3. d = [pc |-> "attached", gen |-> n, off |-> h.off, resumed |-> h.resumed, up |-> h.up]
      BY <1>1, <1>2 DEF StreamType
<1>4. d \in StreamType
      BY <1>1, <1>3 DEF StreamType
<1>5. /\ commandHandler' \in [Streams -> StreamType] /\ commandHandler'[s] = d
      /\ \A t \in Streams \ {s} : commandHandler'[t] = commandHandler[t]
      BY <1>1, <1>2, <1>4
<1> QED BY <1>3, <1>5 DEF HandlerBecomes

LEMMA StreamDown ==
    ASSUME NEW h \in StreamType, NEW d, d = [h EXCEPT !.up = FALSE]
    PROVE  /\ d \in StreamType
           /\ d.pc = h.pc /\ d.gen = h.gen /\ d.off = h.off /\ d.resumed = h.resumed /\ ~d.up
<1>1. d = [pc |-> h.pc, gen |-> h.gen, off |-> h.off, resumed |-> h.resumed, up |-> FALSE]
      BY DEF StreamType
<1>2. d \in StreamType
      BY <1>1 DEF StreamType
<1> QED BY <1>1, <1>2

Requested(h, off, n) == [h EXCEPT !.pc = "request", !.up = TRUE, !.off = off, !.resumed = n > 0]

LEMMA RequestedFields ==
    ASSUME NEW h \in StreamType, NEW off \in Nat, NEW n \in Int
    PROVE  /\ Requested(h, off, n) \in StreamType
           /\ Requested(h, off, n).pc = "request" /\ Requested(h, off, n).off = off
           /\ Requested(h, off, n).resumed <=> n > 0
           /\ Requested(h, off, n).up
<1>1. PICK d : d = Requested(h, off, n)
      OBVIOUS
<1>2. d.resumed \in BOOLEAN /\ (d.resumed <=> n > 0)
      <2>1. d = [[h EXCEPT !.pc = "request", !.up = TRUE, !.off = off] EXCEPT !.resumed = n > 0]
            BY <1>1 DEF Requested
      <2>2. PICK g : g = [h EXCEPT !.pc = "request", !.up = TRUE, !.off = off]
            OBVIOUS
      <2>3. g = [pc |-> "request", gen |-> h.gen, off |-> off, resumed |-> h.resumed, up |-> TRUE]
            BY <2>2 DEF StreamType
      <2>4. d = [g EXCEPT !.resumed = n > 0]
            BY <2>1, <2>2
      <2>5. g \in StreamType
            BY <2>3 DEF StreamType
      <2>6. d.resumed \in BOOLEAN
            BY <2>4, <2>5 DEF StreamType
      <2>7. d.resumed <=> n > 0
            BY <2>4, <2>5 DEF StreamType
      <2> QED BY <2>6, <2>7, Zenon
<1> DEFINE b == d.resumed
<1>3. d = [pc |-> "request", gen |-> h.gen, off |-> off, resumed |-> b, up |-> TRUE]
      BY <1>1 DEF StreamType, Requested
<1>4. b \in BOOLEAN
      BY <1>2
<1>5. d.pc = "request" /\ d.off = off /\ d.up
      BY <1>3
<1> HIDE DEF b
<1>6. d \in StreamType
      BY <1>3, <1>4 DEF StreamType
<1> QED BY <1>1, <1>2, <1>5, <1>6

LEMMA SendsType ==
    ASSUME NEW s \in Streams, NEW frame \in Int, frames \in [Streams -> Seq(Int)], Sends(s, frame)
    PROVE  /\ frames' \in [Streams -> Seq(Int)]
           /\ frames'[s] = IF commandHandler[s].up THEN Append(frames[s], frame) ELSE frames[s]
           /\ \A t \in Streams \ {s} : frames'[t] = frames[t]
<1>1. Append(frames[s], frame) \in Seq(Int)
      OBVIOUS
<1> QED BY <1>1 DEF Sends

-----------------------------------------------------------------------------
(***************************************************************************)
(* The invariants of a command.                                            *)
(***************************************************************************)

\* An attempt that has not been made has no handler and no frames; the first one asks for
\* the output from its start and is the only one that may start the command.
AttemptsMade ==
    /\ commandClient.attempts = 0 => commandClient.off = 0
    /\ \A s \in Streams :
          /\ s > commandClient.attempts => commandHandler[s].pc = "none" /\ frames[s] = <<>>
          /\ s <= commandClient.attempts =>
                /\ commandHandler[s].pc # "none"
                /\ commandHandler[s].resumed <=> s > 1
                /\ s = 1 => commandHandler[s].off = 0

\* A command that has been started was so by the first attempt.
StartedByFirst ==
    /\ started = IF command.state = "none" THEN 0 ELSE 1
    /\ command.known => command.state # "none"
    /\ \A s \in Streams : s = 1 /\ commandHandler[s].pc \in {"none", "request"} => command.state = "none"
    /\ \A s \in Streams : /\ commandHandler[s].pc \in {"created", "attached"} => command.state # "none"
                          /\ commandHandler[s].pc = "created" => s = 1

\* The streams that are served.
Listening == {s \in Streams : Serving(s)}

Counted == command.attached = Cardinality(Listening)

\* The generations of the streams that are served differ.
GensDiffer ==
    /\ \A s \in Listening : 0 < commandHandler[s].gen /\ commandHandler[s].gen <= command.gen
    /\ \A s, t \in Listening : commandHandler[s].gen = commandHandler[t].gen => s = t

SentIsWritten == command.sent <= command.end

\* The timer is off while somebody is there.
GraceIsOff == command.attached > 0 => command.grace = "off"

\* Until a stream attaches nothing is sent and the one that has started the command is to
\* attach; after that, the timer is on its way when nobody is there.
Tended ==
    /\ command.gen = 0 => command.sent = 0 /\ command.start = 0
    /\ command.state = "running" /\ command.gen = 0 => \E s \in Streams : commandHandler[s].pc = "created"
    /\ command.state = "running" /\ command.gen > 0 /\ command.attached = 0 /\ ~command.killed
          => command.grace = "armed" \/ command.late > 0 \/ command.kills

OutcomeTells == command.state = "done" => command.outcome \in {Exit, Failed, Again}

\* The frames on their way in the stream that the backend reads go on where it is, up to
\* what the ring has sent; the exit comes after all of it.
Flows(s) ==
    LET h == commandHandler[s]
        fs == frames[s]
        off == commandClient.off
    IN  /\ h.up
        /\ h.pc \in {"request", "created"} => fs = <<>> /\ h.off = off
        /\ h.pc = "attached" =>
              /\ \A i \in 1 .. Len(fs) : fs[i] = off + i
              /\ h.gen = command.gen => off + Len(fs) = command.sent
        /\ h.pc = "over" =>
              /\ fs # <<>>
              /\ \A i \in 1 .. (Len(fs) - 1) : fs[i] = off + i
              /\ fs[Len(fs)] \in {Exit, Failed, Again}
              /\ fs[Len(fs)] = Exit => command.state = "done" /\ off + Len(fs) - 1 = command.end

StreamFlows == commandClient.pc = "stream" => commandClient.attempts > 0 /\ \A s \in Streams :
    s = commandClient.attempts => Flows(s)

ReceivedWhole ==
    /\ commandClient.pc # "gap"
    /\ commandClient.pc = "exited" => command.state = "done" /\ commandClient.off = command.end

CommandInv ==
    /\ AttemptsMade /\ StartedByFirst /\ Counted /\ GensDiffer /\ SentIsWritten
    /\ GraceIsOff /\ Tended /\ OutcomeTells /\ StreamFlows /\ ReceivedWhole

LEMMA ListeningIsFinite == IsFiniteSet(Listening) /\ Cardinality(Listening) \in Nat
<1>1. IsFiniteSet(Streams)
      BY FS_Interval, CommandConstants DEF Streams
<1>2. Listening \subseteq Streams
      BY DEF Listening
<1> QED BY <1>1, <1>2, FS_Subset, FS_CardinalityType

-----------------------------------------------------------------------------
\* A stream attaches to run c at an offset.
Attaches(s, c, off) ==
    /\ command' \in RunType /\ SameCommand(command', c)
    /\ command'.gen = c.gen + 1 /\ command'.attached = c.attached + 1 /\ command'.grace = "off"
    /\ command'.sent = off /\ command'.late = c.late /\ command'.kills = c.kills
    /\ HandlerBecomes(s, "attached", c.gen + 1)
    /\ frames' = frames

\* A stream is answered with a frame and its handler is over.
Answered(s, frame) ==
    /\ HandlerBecomes(s, "over", commandHandler[s].gen)
    /\ frames' \in [Streams -> Seq(Int)]
    /\ frames'[s] = IF commandHandler[s].up THEN Append(frames[s], frame) ELSE frames[s]
    /\ \A t \in Streams \ {s} : frames'[t] = frames[t]

\* A stream leaves the run, which is then c, as detach does.
Leaves(c) ==
    /\ command' \in RunType /\ SameCommand(command', c)
    /\ command'.gen = c.gen /\ command'.attached = c.attached - 1 /\ command'.sent = c.sent
    /\ command'.grace = IF c.attached > 1 \/ c.state = "done" \/ c.grace # "off" THEN c.grace ELSE "armed"
    /\ command'.late = c.late /\ command'.kills = c.kills

LEMMA AttachEffect ==
    ASSUME NEW s \in Streams, NEW c \in RunType, CommandTypeOK, Attach(s, c)
    PROVE  \/ /\ command' = c /\ Answered(s, Failed)
              /\ commandHandler[s].off < c.start \/ commandHandler[s].off > c.end
           \/ /\ Attaches(s, c, commandHandler[s].off)
              /\ commandHandler[s].off \in Nat /\ commandHandler[s].off <= c.end
<1> DEFINE off == commandHandler[s].off
<1>1. off \in Nat /\ c.gen + 1 \in Nat /\ c.start \in Nat /\ c.end \in Nat
      <2>1. commandHandler[s] \in StreamType
            BY CommandTypes
      <2>2. off \in Nat
            BY <2>1 DEF StreamType
      <2>3. c.gen \in Nat /\ c.start \in Nat /\ c.end \in Nat
            BY DEF RunType
      <2> QED BY <2>2, <2>3
<1>2. CASE off < c.start \/ off > c.end
      <2>1. command' = c /\ Sends(s, Failed) /\ commandHandler' = [commandHandler EXCEPT ![s].pc = "over"]
            BY <1>2 DEF Attach, Reply
      <2>2. HandlerBecomes(s, "over", commandHandler[s].gen)
            BY <2>1, HandlerOver, CommandTypes
      <2>3. Failed \in Int
            BY DEF Failed
      <2> QED BY <1>2, <2>1, <2>2, <2>3, SendsType, CommandTypes DEF Answered
<1>3. CASE ~(off < c.start \/ off > c.end)
      <2>1. /\ command' = Attached(c, off) /\ frames' = frames
            /\ commandHandler' = [commandHandler EXCEPT ![s].pc = "attached", ![s].gen = c.gen + 1]
            BY <1>3 DEF Attach
      <2>2. HandlerBecomes(s, "attached", c.gen + 1)
            BY <1>1, <2>1, HandlerAttached, CommandTypes
      <2>3. /\ command' \in RunType /\ SameCommand(command', c)
            /\ command'.gen = c.gen + 1 /\ command'.attached = c.attached + 1 /\ command'.grace = "off"
            /\ command'.sent = off /\ command'.late = c.late /\ command'.kills = c.kills
            BY <1>1, <2>1, AttachedFields DEF IsAttached
      <2>4. Attaches(s, c, off)
            BY <2>1, <2>2, <2>3 DEF Attaches
      <2> QED BY <1>1, <1>3, <2>4
<1> QED BY <1>2, <1>3

\* RunCommand: the stream attaches to the run there is, starts it, or is refused.
LEMMA RunCommandEffect ==
    ASSUME NEW s \in Streams, CommandTypeOK, AttemptsMade, StartedByFirst, RunCommand(s)
    PROVE  /\ commandHandler[s].pc = "request" /\ commandClient' = commandClient
           /\ \/ /\ command.known /\ started' = started
                 /\ Attaches(s, command, commandHandler[s].off)
                 /\ commandHandler[s].off \in Nat /\ commandHandler[s].off <= command.end
              \/ /\ command.state = "none" /\ command' = NewRun /\ started' = 1 /\ s = 1
                 /\ HandlerBecomes(s, "created", commandHandler[s].gen) /\ frames' = frames
              \/ command' = command /\ started' = started /\ Answered(s, Failed)
<1>1. commandHandler[s].pc = "request" /\ commandClient' = commandClient
      BY DEF RunCommand
<1>2. command \in RunType
      BY CommandTypes
<1>3. CASE command.known /\ Attach(s, command) /\ UNCHANGED started
      BY <1>1, <1>2, <1>3, AttachEffect
<1>4. CASE /\ MayStart(s) /\ command' = NewRun /\ started' = started + 1 /\ UNCHANGED frames
           /\ commandHandler' = [commandHandler EXCEPT ![s].pc = "created"]
      <2>1. commandClient.attempts \in Nat /\ s \in Nat
            BY CommandTypes, CommandConstants DEF ClientType, Streams
      <2>2. s <= commandClient.attempts
            BY <1>1, <2>1 DEF AttemptsMade
      <2>3. s = 1
            BY <1>4, <2>1, <2>2, CommandConstants DEF MayStart, AttemptsMade, Streams
      <2>4. command.state = "none" /\ started' = 1
            BY <1>1, <1>4, <2>3 DEF StartedByFirst
      <2>5. HandlerBecomes(s, "created", commandHandler[s].gen)
            BY <1>4, HandlerCreated, CommandTypes
      <2> QED BY <1>1, <1>4, <2>3, <2>4, <2>5
<1>5. CASE Reply(s, Failed) /\ UNCHANGED <<command, started>>
      <2>1. Failed \in Int
            BY DEF Failed
      <2>2. HandlerBecomes(s, "over", commandHandler[s].gen)
            BY <1>5, HandlerOver, CommandTypes DEF Reply
      <2>3. Answered(s, Failed)
            BY <1>5, <2>1, <2>2, SendsType, CommandTypes DEF Reply, Answered
      <2> QED BY <1>1, <1>5, <2>3
<1> QED BY <1>3, <1>4, <1>5 DEF RunCommand, NewRun

\* The stream that has started the run attaches to it, or comes when another has already got
\* so much of the output that its beginning is gone.
LEMMA AttachCreatedEffect ==
    ASSUME NEW s \in Streams, CommandTypeOK, AttemptsMade, StartedByFirst, Tended, AttachCreated(s)
    PROVE  /\ commandHandler[s].pc = "created" /\ commandClient' = commandClient /\ started' = started
           /\ \/ /\ Attaches(s, command, commandHandler[s].off)
                 /\ commandHandler[s].off \in Nat /\ commandHandler[s].off <= command.end
              \/ command' = command /\ Answered(s, Failed) /\ command.gen > 0
<1>1. commandHandler[s].pc = "created" /\ Attach(s, command) /\ UNCHANGED <<started, commandClient>>
      BY DEF AttachCreated
<1>2. command \in RunType /\ command.start \in Nat /\ command.end \in Nat /\ command.gen \in Nat
      BY CommandTypes DEF RunType
<1>3. commandHandler[s].off = 0
      <2>1. s = 1 /\ s \in Nat /\ commandClient.attempts \in Nat
            BY <1>1, CommandTypes, CommandConstants DEF StartedByFirst, ClientType, Streams
      <2>2. ~(s > commandClient.attempts)
            BY <1>1 DEF AttemptsMade
      <2> QED BY <2>1, <2>2 DEF AttemptsMade
<1>4. CASE /\ command' = command /\ Answered(s, Failed)
           /\ commandHandler[s].off < command.start \/ commandHandler[s].off > command.end
      <2>1. command.start # 0
            BY <1>2, <1>3, <1>4
      <2>2. command.gen # 0
            BY <2>1 DEF Tended
      <2> QED BY <1>1, <1>2, <1>4, <2>2
<1> QED BY <1>1, <1>2, <1>4, AttachEffect

\* A turn of attach's loop: output is sent, or the stream leaves, with an answer or
\* because it is gone.
LEMMA ServeEffect ==
    ASSUME NEW s \in Streams, CommandTypeOK, Serve(s)
    PROVE  /\ Serving(s) /\ started' = started /\ commandClient' = commandClient
           /\ \/ ~Newest(s) /\ Answered(s, Again) /\ Leaves(command)
              \/ /\ Newest(s) /\ command.sent < command.end
                 /\ command' \in RunType /\ SameCommand(command', command)
                 /\ SameListeners(command', command) /\ command'.sent = command.sent + 1
                 /\ commandHandler' = commandHandler /\ frames' \in [Streams -> Seq(Int)]
                 /\ frames'[s] = IF commandHandler[s].up THEN Append(frames[s], command.sent + 1) ELSE frames[s]
                 /\ \A t \in Streams \ {s} : frames'[t] = frames[t]
              \/ /\ Newest(s) /\ command.sent < command.end /\ ~commandHandler[s].up
                 /\ \E c \in RunType : /\ SameCommand(c, command) /\ SameListeners(c, command)
                                       /\ c.sent = command.sent + 1 /\ Leaves(c)
                 /\ HandlerBecomes(s, "over", commandHandler[s].gen)
                 /\ frames' \in [Streams -> Seq(Int)] /\ \A t \in Streams : frames'[t] = frames[t]
              \/ /\ Newest(s) /\ command.sent >= command.end /\ command.state = "done"
                 /\ Answered(s, command.outcome) /\ Leaves(command)
              \/ /\ ~commandHandler[s].up /\ Leaves(command) /\ frames' = frames
                 /\ HandlerBecomes(s, "over", commandHandler[s].gen)
<1>1. Serving(s) /\ started' = started /\ commandClient' = commandClient
      BY DEF Serve, Superseded, SendOutput, SendOutcome, StreamGone
<1>2. command \in RunType /\ commandHandler \in [Streams -> StreamType] /\ frames \in [Streams -> Seq(Int)]
      BY CommandTypes
<1>3. command.sent + 1 \in Int /\ command.outcome \in Int /\ Again \in Int
      BY <1>2 DEF RunType, Again
<1>4. CASE Superseded(s)
      <2>1. Leaves(command)
            BY <1>2, <1>4, DetachedFields DEF Superseded, Leave, Leaves
      <2>2. HandlerBecomes(s, "over", commandHandler[s].gen)
            BY <1>2, <1>4, HandlerOver DEF Superseded, Leave
      <2>3. Answered(s, Again)
            BY <1>2, <1>3, <1>4, <2>2, SendsType DEF Superseded, Answered
      <2> QED BY <1>1, <1>4, <2>1, <2>3 DEF Superseded
<1>5. CASE SendOutput(s)
      <2> DEFINE c == Trimmed([command EXCEPT !.sent = command.sent + 1])
      <2>1. c \in RunType /\ SameCommand(c, command) /\ SameListeners(c, command) /\ c.sent = command.sent + 1
            BY <1>2, SentFields
      <2>2. /\ Newest(s) /\ command.sent < command.end /\ Sends(s, command.sent + 1)
            /\ \/ command' = c /\ UNCHANGED commandHandler
               \/ /\ ~commandHandler[s].up /\ command' = Detached(c)
                  /\ commandHandler' = [commandHandler EXCEPT ![s].pc = "over"]
            BY <1>5 DEF SendOutput
      <2> HIDE DEF c
      <2>3. /\ frames' \in [Streams -> Seq(Int)]
            /\ frames'[s] = IF commandHandler[s].up THEN Append(frames[s], command.sent + 1) ELSE frames[s]
            /\ \A t \in Streams \ {s} : frames'[t] = frames[t]
            BY <1>2, <1>3, <2>2, SendsType
      <2>4. CASE command' = c /\ UNCHANGED commandHandler
            BY <1>1, <2>1, <2>2, <2>3, <2>4
      <2>5. CASE ~commandHandler[s].up /\ command' = Detached(c)
                 /\ commandHandler' = [commandHandler EXCEPT ![s].pc = "over"]
            <3>1. Leaves(c)
                  BY <2>1, <2>5, DetachedFields DEF Leaves
            <3>2. HandlerBecomes(s, "over", commandHandler[s].gen)
                  BY <1>2, <2>5, HandlerOver
            <3>3. \A t \in Streams : frames'[t] = frames[t]
                  BY <2>3, <2>5
            <3> QED BY <1>1, <2>1, <2>2, <2>3, <2>5, <3>1, <3>2, <3>3
      <2> QED BY <2>2, <2>4, <2>5
<1>6. CASE SendOutcome(s)
      <2>1. Leaves(command)
            BY <1>2, <1>6, DetachedFields DEF SendOutcome, Leave, Leaves
      <2>2. HandlerBecomes(s, "over", commandHandler[s].gen)
            BY <1>2, <1>6, HandlerOver DEF SendOutcome, Leave
      <2>3. Answered(s, command.outcome)
            BY <1>2, <1>3, <1>6, <2>2, SendsType DEF SendOutcome, Answered
      <2> QED BY <1>1, <1>6, <2>1, <2>3 DEF SendOutcome
<1>7. CASE StreamGone(s)
      <2>1. Leaves(command)
            BY <1>2, <1>7, DetachedFields DEF StreamGone, Leave, Leaves
      <2>2. HandlerBecomes(s, "over", commandHandler[s].gen)
            BY <1>2, <1>7, HandlerOver DEF StreamGone, Leave
      <2> QED BY <1>1, <1>7, <2>1, <2>2 DEF StreamGone
<1> QED BY <1>4, <1>5, <1>6, <1>7 DEF Serve

\* The steps of the command itself and of its timer.
LEMMA RunEffect ==
    ASSUME CommandTypeOK,
           Write \/ Execute \/ GraceFires \/ GraceLooks \/ GraceKills \/ CancelArrives \/ ForgetCommand
    PROVE  /\ UNCHANGED <<started, commandHandler, frames, commandClient>>
           /\ command' \in RunType /\ command'.gen = command.gen /\ command'.attached = command.attached
           /\ command'.sent = command.sent /\ (command.sent = 0 => command'.start = command.start)
           /\ \/ /\ command.state = "running" /\ ~command.killed /\ command'.state = "running"
                 /\ command'.known = command.known /\ command'.end = command.end + 1
                 /\ command'.killed = command.killed /\ SameListeners(command', command)
              \/ /\ command.state = "running" /\ command'.state = "done" /\ command'.known = command.known
                 /\ command'.end = command.end /\ command'.outcome \in {Exit, Failed, Again}
                 /\ SameListeners(command', command)
              \/ /\ command.grace = "armed" /\ command'.late = command.late + 1
                 /\ SameCommand(command', command)
              \/ /\ SameCommand(command', command) /\ command'.grace = command.grace
                 /\ command'.kills <=> command.kills \/ ~(command.attached > 0 \/ command.state = "done")
              \/ /\ command'.state = command.state /\ command'.known = command.known
                 /\ command'.end = command.end /\ command'.outcome = command.outcome
                 /\ command'.killed /\ command'.grace = command.grace
              \/ /\ command.state = "done" /\ command'.state = "done" /\ ~command'.known
                 /\ command'.end = command.end /\ command'.outcome = command.outcome
                 /\ SameListeners(command', command)
<1>0. command \in RunType
      BY CommandTypes
<1>1. CASE Write
      BY <1>0, <1>1, WrittenFields DEF Write, SameListeners
<1>2. CASE Execute
      <2>1. PICK o \in {Exit, Failed, Again} : command' = [command EXCEPT !.state = "done", !.outcome = o]
            BY <1>2 DEF Execute
      <2>2. o \in Int
            BY DEF Exit, Failed, Again
      <2>3. /\ command' \in RunType /\ SameListeners(command', command) /\ command'.sent = command.sent
            /\ command'.end = command.end /\ command'.state = "done" /\ command'.known = command.known
            /\ command'.outcome = o /\ command'.start = command.start
            BY <1>0, <2>1, <2>2, DoneFields DEF IsDone
      <2>4. command'.gen = command.gen /\ command'.attached = command.attached
            BY <2>3 DEF SameListeners
      <2>5. command'.outcome \in {Exit, Failed, Again}
            BY <2>1, <2>3
      <2>6. command.state = "running" /\ UNCHANGED <<started, commandHandler, frames, commandClient>>
            BY <1>2 DEF Execute
      <2> QED BY <2>3, <2>4, <2>5, <2>6
<1>3. CASE GraceFires
      BY <1>0, <1>3, FiresFields DEF GraceFires
<1>4. CASE GraceLooks
      BY <1>0, <1>4, LooksFields DEF GraceLooks
<1>5. CASE GraceKills
      BY <1>0, <1>5, KillsFields DEF GraceKills
<1>6. CASE CancelArrives
      BY <1>0, <1>6, CancelledFields DEF CancelArrives, SameListeners
<1>7. CASE ForgetCommand
      BY <1>0, <1>7, ForgottenFields DEF ForgetCommand, SameListeners
<1> QED BY <1>1, <1>2, <1>3, <1>4, <1>5, <1>6, <1>7

LEMMA CommandOnceEffect ==
    ASSUME CommandTypeOK, CommandOnce
    PROVE  LET s == commandClient.attempts + 1 IN
           /\ s \in Streams /\ commandClient.pc = "retry"
           /\ UNCHANGED <<command, started, frames>>
           /\ commandHandler' \in [Streams -> StreamType]
           /\ commandHandler'[s].pc = "request" /\ commandHandler'[s].up
           /\ commandHandler'[s].off = commandClient.off
           /\ commandHandler'[s].resumed <=> commandClient.attempts > 0
           /\ \A t \in Streams \ {s} : commandHandler'[t] = commandHandler[t]
           /\ commandClient' \in ClientType /\ commandClient'.pc = "stream"
           /\ commandClient'.attempts = s /\ commandClient'.off = commandClient.off
<1> DEFINE s == commandClient.attempts + 1
<1>1. commandClient \in ClientType /\ commandHandler \in [Streams -> StreamType]
      BY CommandTypes
<1>2. s \in Streams /\ s \in 0..MaxStreams /\ commandClient.off \in Nat
      BY <1>1, CommandConstants DEF CommandOnce, ClientType, Streams
<1>3. commandClient.attempts \in Int
      BY <1>1, CommandConstants DEF ClientType
<1> DEFINE d == Requested(NoHandler, commandClient.off, commandClient.attempts)
<1>4. NoHandler \in StreamType
      BY DEF NoHandler, StreamType
<1>5. d \in StreamType /\ d.pc = "request" /\ d.off = commandClient.off /\ d.up
      /\ (d.resumed <=> commandClient.attempts > 0)
      BY <1>2, <1>3, <1>4, RequestedFields
<1>6. commandHandler' = [commandHandler EXCEPT ![s] = d]
      BY DEF CommandOnce, Requested
<1> HIDE DEF d
<1>7. PICK e : e = [commandClient EXCEPT !.pc = "stream", !.attempts = s]
      OBVIOUS
<1>8. e = [pc |-> "stream", attempts |-> s, off |-> commandClient.off]
      BY <1>1, <1>7 DEF ClientType
<1>9. e \in ClientType
      BY <1>2, <1>8 DEF ClientType
<1>10. commandClient' = e
       BY <1>7 DEF CommandOnce
<1>11. /\ commandHandler' \in [Streams -> StreamType] /\ commandHandler'[s] = d
       /\ \A t \in Streams \ {s} : commandHandler'[t] = commandHandler[t]
       BY <1>1, <1>2, <1>5, <1>6
<1> QED BY <1>2, <1>3, <1>5, <1>8, <1>9, <1>10, <1>11 DEF CommandOnce

\* What the backend's side becomes, with its attempts and its offset.
ClientBecomes(pc, off) ==
    /\ commandClient' \in ClientType
    /\ commandClient'.pc = pc /\ commandClient'.attempts = commandClient.attempts /\ commandClient'.off = off

LEMMA ClientMoves ==
    ASSUME commandClient \in ClientType, NEW pc \in {"retry", "stream", "gap", "exited", "failed", "cancelled"},
           commandClient' = [commandClient EXCEPT !.pc = pc]
    PROVE  ClientBecomes(pc, commandClient.off)
<1>1. PICK e : e = [commandClient EXCEPT !.pc = pc]
      OBVIOUS
<1>2. e = [pc |-> pc, attempts |-> commandClient.attempts, off |-> commandClient.off]
      BY <1>1 DEF ClientType
<1>3. e \in ClientType
      BY <1>2 DEF ClientType
<1> QED BY <1>1, <1>2, <1>3 DEF ClientBecomes

LEMMA StreamBreaksEffect ==
    ASSUME NEW s \in Streams, CommandTypeOK, StreamBreaks(s)
    PROVE  /\ commandClient.pc = "stream" /\ UNCHANGED <<command, started>>
           /\ frames' \in [Streams -> Seq(Int)] /\ \A t \in Streams : frames'[t] \in {frames[t], <<>>}
           /\ commandHandler' \in [Streams -> StreamType]
           /\ \A t \in Streams : /\ commandHandler'[t].pc = commandHandler[t].pc
                                 /\ commandHandler'[t].gen = commandHandler[t].gen
                                 /\ commandHandler'[t].off = commandHandler[t].off
                                 /\ commandHandler'[t].resumed = commandHandler[t].resumed
           /\ \E pc \in {"retry", "failed"} : ClientBecomes(pc, commandClient.off)
<1>0. commandHandler \in [Streams -> StreamType] /\ frames \in [Streams -> Seq(Int)] /\ commandClient \in ClientType
      BY CommandTypes
<1>1. PICK d : d = [commandHandler[s] EXCEPT !.up = FALSE]
      OBVIOUS
<1>2. /\ d \in StreamType
      /\ d.pc = commandHandler[s].pc /\ d.gen = commandHandler[s].gen /\ d.off = commandHandler[s].off
      /\ d.resumed = commandHandler[s].resumed
      BY <1>0, <1>1, StreamDown
<1>3. commandHandler' = [commandHandler EXCEPT ![s] = d]
      BY <1>1 DEF StreamBreaks
<1>4. /\ commandHandler' \in [Streams -> StreamType] /\ commandHandler'[s] = d
      /\ \A t \in Streams \ {s} : commandHandler'[t] = commandHandler[t]
      BY <1>0, <1>2, <1>3
<1>5. PICK pc \in {"retry", "failed"} : commandClient' = [commandClient EXCEPT !.pc = pc]
      BY DEF StreamBreaks
<1>6. ClientBecomes(pc, commandClient.off)
      BY <1>0, <1>5, ClientMoves
<1>7. frames' \in [Streams -> Seq(Int)] /\ \A t \in Streams : frames'[t] \in {frames[t], <<>>}
      BY <1>0 DEF StreamBreaks
<1> QED BY <1>2, <1>4, <1>6, <1>7 DEF StreamBreaks

LEMMA CancelCommandEffect ==
    ASSUME CommandTypeOK, CancelCommand
    PROVE  /\ UNCHANGED <<command, started>>
           /\ frames' \in [Streams -> Seq(Int)] /\ \A t \in Streams : frames'[t] = <<>>
           /\ commandHandler' \in [Streams -> StreamType]
           /\ \A t \in Streams : /\ commandHandler'[t].pc = commandHandler[t].pc
                                 /\ commandHandler'[t].gen = commandHandler[t].gen
                                 /\ commandHandler'[t].off = commandHandler[t].off
                                 /\ commandHandler'[t].resumed = commandHandler[t].resumed
           /\ ClientBecomes("cancelled", commandClient.off)
<1>0. commandHandler \in [Streams -> StreamType] /\ commandClient \in ClientType
      BY CommandTypes
<1>1. \A t \in Streams : commandHandler'[t] = [commandHandler[t] EXCEPT !.up = FALSE]
      BY DEF CancelCommand
<1>2. ASSUME NEW t \in Streams
      PROVE  /\ commandHandler'[t] \in StreamType /\ commandHandler'[t].pc = commandHandler[t].pc
             /\ commandHandler'[t].gen = commandHandler[t].gen
             /\ commandHandler'[t].off = commandHandler[t].off
             /\ commandHandler'[t].resumed = commandHandler[t].resumed
      BY <1>0, <1>1, StreamDown
<1>3. commandHandler' = [t \in Streams |-> commandHandler'[t]]
      BY DEF CancelCommand
<1>4. commandHandler' \in [Streams -> StreamType]
      BY <1>2, <1>3
<1>5. ClientBecomes("cancelled", commandClient.off)
      BY <1>0, ClientMoves DEF CancelCommand
<1>6. frames' \in [Streams -> Seq(Int)] /\ \A t \in Streams : frames'[t] = <<>>
      BY DEF CancelCommand
<1> QED BY <1>2, <1>4, <1>5, <1>6 DEF CancelCommand

\* The backend takes the first frame on its way.
LEMMA ReceiveEffect ==
    ASSUME NEW s \in Streams, CommandTypeOK, Receive(s)
    PROVE  /\ commandClient.pc = "stream" /\ commandClient.attempts = s /\ frames[s] # <<>>
           /\ UNCHANGED <<command, started, commandHandler>>
           /\ frames' \in [Streams -> Seq(Int)] /\ frames'[s] = Tail(frames[s])
           /\ \A t \in Streams \ {s} : frames'[t] = frames[t]
           /\ LET f == frames[s][1] IN
              \/ f = Exit /\ ClientBecomes("exited", commandClient.off)
              \/ f \in {Failed, Again} /\ \E pc \in {"retry", "failed"} : ClientBecomes(pc, commandClient.off)
              \/ f - 1 > commandClient.off /\ ClientBecomes("gap", commandClient.off)
              \/ f - 1 < commandClient.off /\ f > 0 /\ ClientBecomes("stream", commandClient.off)
              \/ f # Exit /\ f \notin {Failed, Again} /\ (f > 0 => f - 1 = commandClient.off)
                 /\ commandClient' = [commandClient EXCEPT !.off = f]
<1>0. frames \in [Streams -> Seq(Int)] /\ commandClient \in ClientType
      BY CommandTypes
<1>1. /\ commandClient.pc = "stream" /\ commandClient.attempts = s /\ frames[s] # <<>>
      /\ UNCHANGED <<command, started, commandHandler>>
      /\ frames' = [frames EXCEPT ![s] = Tail(frames[s])]
      BY DEF Receive
<1>2. frames[s] \in Seq(Int) /\ Tail(frames[s]) \in Seq(Int)
      BY <1>0, <1>1
<1>3. /\ frames' \in [Streams -> Seq(Int)] /\ frames'[s] = Tail(frames[s])
      /\ \A t \in Streams \ {s} : frames'[t] = frames[t]
      BY <1>0, <1>1, <1>2
<1> DEFINE f == frames[s][1]
<1>4. Head(frames[s]) = f /\ f \in Int
      BY <1>1, <1>2
<1>5. commandClient.off \in Nat
      BY <1>0 DEF ClientType
<1>6. commandClient' = CASE f = Exit -> [commandClient EXCEPT !.pc = "exited"]
                       [] f = Failed -> [commandClient EXCEPT !.pc = "failed"]
                       [] f = Again -> [commandClient EXCEPT !.pc = IF s < MaxStreams THEN "retry" ELSE "failed"]
                       [] f > 0 /\ f - 1 > commandClient.off -> [commandClient EXCEPT !.pc = "gap"]
                       [] f > 0 /\ f - 1 < commandClient.off -> commandClient
                       [] OTHER -> [commandClient EXCEPT !.off = f]
      BY <1>4 DEF Receive
<1> HIDE DEF f
<1>7. CASE f = Exit
      <2>1. commandClient' = [commandClient EXCEPT !.pc = "exited"]
            BY <1>6, <1>7 DEF Exit, Failed, Again
      <2> QED BY <1>0, <1>1, <1>3, <1>7, <2>1, ClientMoves DEF f
<1>8. CASE f \in {Failed, Again}
      <2>1. PICK pc \in {"retry", "failed"} : commandClient' = [commandClient EXCEPT !.pc = pc]
            BY <1>6, <1>8 DEF Exit, Failed, Again
      <2> QED BY <1>0, <1>1, <1>3, <1>8, <2>1, ClientMoves DEF f
<1>9. CASE f # Exit /\ f \notin {Failed, Again} /\ f > 0 /\ f - 1 > commandClient.off
      <2>1. commandClient' = [commandClient EXCEPT !.pc = "gap"]
            BY <1>4, <1>5, <1>6, <1>9 DEF Exit, Failed, Again
      <2> QED BY <1>0, <1>1, <1>3, <1>9, <2>1, ClientMoves DEF f
<1>10. CASE f # Exit /\ f \notin {Failed, Again} /\ f > 0 /\ f - 1 < commandClient.off
      <2>1. commandClient' = commandClient
            BY <1>4, <1>5, <1>6, <1>10 DEF Exit, Failed, Again
      <2> QED BY <1>0, <1>1, <1>3, <1>10, <2>1 DEF f, ClientBecomes
<1>11. CASE f # Exit /\ f \notin {Failed, Again} /\ (f > 0 => f - 1 = commandClient.off)
      <2>1. commandClient' = [commandClient EXCEPT !.off = f]
            BY <1>4, <1>5, <1>6, <1>11 DEF Exit, Failed, Again
      <2> QED BY <1>0, <1>1, <1>3, <1>11, <2>1 DEF f
<1> QED BY <1>4, <1>5, <1>7, <1>8, <1>9, <1>10, <1>11

-----------------------------------------------------------------------------
(***************************************************************************)
(* The invariants are preserved.                                           *)
(***************************************************************************)

LEMMA CommandNumbers ==
    CommandTypeOK =>
        /\ command.end \in Nat /\ command.sent \in Nat /\ command.gen \in Nat /\ command.attached \in Int
        /\ command.late \in Nat /\ command.kills \in BOOLEAN /\ command.killed \in BOOLEAN
        /\ commandClient.attempts \in 0..MaxStreams /\ commandClient.attempts \in Nat /\ commandClient.off \in Nat
        /\ Streams \subseteq Nat \ {0}
        /\ \A s \in Streams : commandHandler[s].gen \in Nat /\ commandHandler[s].off \in Nat
        /\ \A s \in Streams : frames[s] \in Seq(Int) /\ Len(frames[s]) \in Nat
<1> SUFFICES ASSUME CommandTypeOK PROVE CommandNumbers!2
    OBVIOUS
<1>1. /\ command.end \in Nat /\ command.sent \in Nat /\ command.gen \in Nat /\ command.attached \in Int
      /\ command.late \in Nat /\ command.kills \in BOOLEAN /\ command.killed \in BOOLEAN
      BY CommandTypes DEF RunType
<1>2. /\ commandClient.attempts \in 0..MaxStreams /\ commandClient.attempts \in Nat /\ commandClient.off \in Nat
      /\ Streams \subseteq Nat \ {0}
      BY CommandTypes, CommandConstants DEF ClientType, Streams
<1>3. \A s \in Streams : commandHandler[s].gen \in Nat /\ commandHandler[s].off \in Nat
      BY CommandTypes DEF StreamType
<1>4. \A s \in Streams : frames[s] \in Seq(Int) /\ Len(frames[s]) \in Nat
      BY CommandTypes
<1> QED BY <1>1, <1>2, <1>3, <1>4

LEMMA CommandInitHolds == CommandInit => CommandTypeOK /\ CommandInv
<1> SUFFICES ASSUME CommandInit PROVE CommandTypeOK /\ CommandInv
    OBVIOUS
<1>1. CommandTypeOK
      <2>1. command \in RunType
            BY NewRunFields DEF CommandInit
      <2>2. NoHandler \in StreamType
            BY DEF NoHandler, StreamType
      <2>3. commandClient \in ClientType
            BY CommandConstants DEF CommandInit, ClientType
      <2> QED BY <2>1, <2>2, <2>3 DEF CommandInit, CommandTypeOK
<1>2. /\ command.state = "none" /\ ~command.known /\ command.sent = 0 /\ command.end = 0 /\ command.attached = 0
      /\ command.start = 0 /\ started = 0
      BY DEF CommandInit, NoRun
<1>3. commandClient.pc = "retry" /\ commandClient.attempts = 0 /\ commandClient.off = 0
      BY DEF CommandInit
<1>4. \A s \in Streams : commandHandler[s].pc = "none" /\ frames[s] = <<>>
      BY DEF CommandInit, NoHandler
<1>5. AttemptsMade
      BY <1>1, <1>3, <1>4, CommandNumbers DEF AttemptsMade
<1>6. StartedByFirst
      BY <1>2, <1>4 DEF StartedByFirst
<1>7. Listening = {}
      BY <1>4 DEF Listening, Serving
<1>8. Counted /\ GensDiffer
      BY <1>2, <1>7, FS_EmptySet DEF Counted, GensDiffer
<1>9. SentIsWritten /\ GraceIsOff /\ Tended /\ OutcomeTells /\ StreamFlows /\ ReceivedWhole
      BY <1>2, <1>3 DEF SentIsWritten, GraceIsOff, Tended, OutcomeTells, StreamFlows, ReceivedWhole
<1> QED BY <1>1, <1>5, <1>6, <1>8, <1>9 DEF CommandInv

\* Who listens after a step.
LEMMA ListeningMore ==
    ASSUME NEW s \in Streams, NEW n, ~Serving(s), HandlerBecomes(s, "attached", n)
    PROVE  Listening' = Listening \cup {s} /\ Cardinality(Listening') = Cardinality(Listening) + 1
<1>1. Listening' = Listening \cup {s} /\ s \notin Listening
      BY DEF Listening, Serving, HandlerBecomes
<1> QED BY <1>1, ListeningIsFinite, FS_AddElement

LEMMA ListeningLess ==
    ASSUME NEW s \in Streams, NEW n, Serving(s), HandlerBecomes(s, "over", n)
    PROVE  Listening' = Listening \ {s} /\ Cardinality(Listening') = Cardinality(Listening) - 1
<1>1. Listening' = Listening \ {s} /\ s \in Listening
      BY DEF Listening, Serving, HandlerBecomes
<1> QED BY <1>1, ListeningIsFinite, FS_RemoveElement

\* The steps of the command and of its timer.
LEMMA RunStep ==
    ASSUME CommandTypeOK, CommandInv,
           Write \/ Execute \/ GraceFires \/ GraceLooks \/ GraceKills \/ CancelArrives \/ ForgetCommand
    PROVE  CommandTypeOK' /\ CommandInv'
<1>1. UNCHANGED <<started, commandHandler, frames, commandClient>>
      BY RunEffect
<1>2. /\ command' \in RunType /\ command'.gen = command.gen /\ command'.attached = command.attached
      /\ command'.sent = command.sent /\ (command.sent = 0 => command'.start = command.start)
      BY RunEffect
<1>3. CommandTypeOK'
      BY <1>1, <1>2 DEF CommandTypeOK
<1>4. AttemptsMade'
      BY <1>1 DEF CommandInv, AttemptsMade
<1>5. (command'.state = "none" <=> command.state = "none") /\ (command'.known => command.known)
      BY RunEffect DEF SameCommand
<1>6. StartedByFirst'
      BY <1>1, <1>5 DEF CommandInv, StartedByFirst
<1>7. Listening' = Listening
      BY <1>1 DEF Listening, Serving
<1>8. Counted' /\ GensDiffer'
      BY <1>1, <1>2, <1>7 DEF CommandInv, Counted, GensDiffer
<1>9. SentIsWritten' /\ OutcomeTells'
      BY <1>2, RunEffect, CommandNumbers DEF CommandInv, SentIsWritten, OutcomeTells, SameCommand
<1>10. GraceIsOff'
       BY <1>2, RunEffect, CommandNumbers DEF CommandInv, GraceIsOff, SameListeners
<1>11. Tended'
       <2>1. command'.state = "running" => command.state = "running"
             BY RunEffect DEF SameCommand
       <2>2. command'.gen = 0 => command'.sent = 0 /\ command'.start = 0
             BY <1>2 DEF CommandInv, Tended
       <2>3. command'.state = "running" /\ command'.gen = 0 => \E u \in Streams : commandHandler'[u].pc = "created"
             BY <1>1, <1>2, <2>1 DEF CommandInv, Tended
       <2>4. command'.state = "running" /\ command'.gen > 0 /\ command'.attached = 0 /\ ~command'.killed
                => command'.grace = "armed" \/ command'.late > 0 \/ command'.kills
             BY <1>2, <2>1, RunEffect, CommandNumbers DEF CommandInv, Tended, SameListeners, SameCommand
       <2> QED BY <2>2, <2>3, <2>4 DEF Tended
<1>12. command.state = "done" => command'.state = "done" /\ command'.end = command.end
       BY RunEffect DEF SameCommand
<1>13. StreamFlows'
       BY <1>1, <1>2, <1>12 DEF CommandInv, StreamFlows, Flows
<1>14. ReceivedWhole'
       BY <1>1, <1>12 DEF CommandInv, ReceivedWhole
<1> QED BY <1>3, <1>4, <1>6, <1>8, <1>9, <1>10, <1>11, <1>13, <1>14 DEF CommandInv

LEMMA CommandOnceStep ==
    ASSUME CommandTypeOK, CommandInv, CommandOnce
    PROVE  CommandTypeOK' /\ CommandInv'
<1> DEFINE s == commandClient.attempts + 1
<1>1. /\ s \in Streams /\ commandClient.pc = "retry"
      /\ UNCHANGED <<command, started, frames>>
      /\ commandHandler' \in [Streams -> StreamType]
      /\ commandHandler'[s].pc = "request" /\ commandHandler'[s].up
      /\ commandHandler'[s].off = commandClient.off
      /\ commandHandler'[s].resumed <=> commandClient.attempts > 0
      /\ \A t \in Streams \ {s} : commandHandler'[t] = commandHandler[t]
      /\ commandClient' \in ClientType /\ commandClient'.pc = "stream"
      /\ commandClient'.attempts = s /\ commandClient'.off = commandClient.off
      BY CommandOnceEffect
<1>2. commandClient.attempts \in Nat /\ Streams \subseteq Nat \ {0}
      BY CommandNumbers
<1>3. commandHandler[s].pc = "none" /\ frames[s] = <<>>
      BY <1>1, <1>2 DEF CommandInv, AttemptsMade
<1>4. CommandTypeOK'
      BY <1>1 DEF CommandTypeOK
<1>5. AttemptsMade'
      <2>1. s = 1 => commandClient.off = 0
            BY <1>2 DEF CommandInv, AttemptsMade
      <2>2. ASSUME NEW t \in Streams, t # s
            PROVE  /\ t > s => commandHandler'[t].pc = "none" /\ frames'[t] = <<>>
                   /\ t <= s => /\ commandHandler'[t].pc # "none"
                                /\ commandHandler'[t].resumed <=> t > 1
                                /\ t = 1 => commandHandler'[t].off = 0
            <3>1. commandHandler'[t] = commandHandler[t] /\ frames'[t] = frames[t]
                  BY <1>1, <2>2
            <3>2. (t > s => t > commandClient.attempts) /\ (t <= s => t <= commandClient.attempts)
                  BY <1>2, <2>2
            <3> QED BY <3>1, <3>2 DEF CommandInv, AttemptsMade
      <2>3. commandHandler'[s].resumed <=> s > 1
            BY <1>1, <1>2
      <2> QED BY <1>1, <1>2, <1>3, <2>1, <2>2, <2>3 DEF AttemptsMade
<1>6. StartedByFirst'
      BY <1>1, <1>3 DEF CommandInv, StartedByFirst
<1>7. Listening' = Listening
      BY <1>1, <1>3 DEF Listening, Serving
<1>8. Counted' /\ GensDiffer'
      <2>1. \A t \in Listening : commandHandler'[t] = commandHandler[t]
            BY <1>1, <1>3 DEF Listening, Serving
      <2> QED BY <1>1, <1>7, <2>1 DEF CommandInv, Counted, GensDiffer
<1>9. SentIsWritten' /\ OutcomeTells' /\ GraceIsOff' /\ Tended'
      <2>1. \A u \in Streams : commandHandler[u].pc = "created" => commandHandler'[u].pc = "created"
            BY <1>1, <1>3
      <2> QED BY <1>1, <2>1 DEF CommandInv, SentIsWritten, OutcomeTells, GraceIsOff, Tended
<1>10. StreamFlows'
       <2>1. ASSUME NEW t \in Streams, t = commandClient'.attempts
             PROVE  Flows(t)'
             <3>1. /\ commandHandler'[t].pc = "request" /\ commandHandler'[t].up
                   /\ commandHandler'[t].off = commandClient'.off /\ frames'[t] = <<>>
                   BY <1>1, <1>3, <2>1
             <3> QED BY <3>1 DEF Flows
       <2> QED BY <1>1, <1>2, <2>1 DEF StreamFlows
<1>11. ReceivedWhole'
       BY <1>1 DEF CommandInv, ReceivedWhole
<1> QED BY <1>4, <1>5, <1>6, <1>8, <1>9, <1>10, <1>11 DEF CommandInv

\* A stream breaks or all do: the backend no longer reads, and the handlers stay where they are.
LEMMA BrokenStep ==
    ASSUME CommandTypeOK, CommandInv, CancelCommand \/ \E s \in Streams : StreamBreaks(s)
    PROVE  CommandTypeOK' /\ CommandInv'
<1>1. /\ UNCHANGED <<command, started>>
      /\ frames' \in [Streams -> Seq(Int)] /\ \A t \in Streams : frames'[t] \in {frames[t], <<>>}
      /\ commandHandler' \in [Streams -> StreamType]
      /\ \A t \in Streams : /\ commandHandler'[t].pc = commandHandler[t].pc
                            /\ commandHandler'[t].gen = commandHandler[t].gen
                            /\ commandHandler'[t].off = commandHandler[t].off
                            /\ commandHandler'[t].resumed = commandHandler[t].resumed
      /\ \E pc \in {"retry", "failed", "cancelled"} : ClientBecomes(pc, commandClient.off)
      BY CancelCommandEffect, StreamBreaksEffect
<1>2. /\ commandClient' \in ClientType /\ commandClient'.attempts = commandClient.attempts
      /\ commandClient'.off = commandClient.off /\ commandClient'.pc \in {"retry", "failed", "cancelled"}
      BY <1>1 DEF ClientBecomes
<1>3. CommandTypeOK'
      BY <1>1, <1>2 DEF CommandTypeOK
<1>4. AttemptsMade'
      BY <1>1, <1>2 DEF CommandInv, AttemptsMade
<1>5. StartedByFirst'
      BY <1>1 DEF CommandInv, StartedByFirst
<1>6. Listening' = Listening
      BY <1>1 DEF Listening, Serving
<1>7. Counted' /\ GensDiffer'
      <2>1. \A t \in Listening : commandHandler'[t].gen = commandHandler[t].gen
            BY <1>1 DEF Listening
      <2>2. Counted'
            BY <1>1, <1>6 DEF CommandInv, Counted
      <2>3. GensDiffer'
            BY <1>1, <1>6, <2>1 DEF CommandInv, GensDiffer
      <2> QED BY <2>2, <2>3
<1>8. SentIsWritten' /\ OutcomeTells' /\ GraceIsOff' /\ Tended'
      BY <1>1 DEF CommandInv, SentIsWritten, OutcomeTells, GraceIsOff, Tended
<1>9. StreamFlows' /\ ReceivedWhole'
      BY <1>2 DEF StreamFlows, ReceivedWhole
<1> QED BY <1>3, <1>4, <1>5, <1>7, <1>8, <1>9 DEF CommandInv

\* The frame that the backend takes is the next one: a piece of output at its offset, or an
\* answer after all of them.
LEMMA NextFrame ==
    ASSUME NEW s \in Streams, CommandTypeOK, CommandInv, commandClient.pc = "stream",
           commandClient.attempts = s, frames[s] # <<>>
    PROVE  LET f == frames[s][1] IN
           \/ /\ f = commandClient.off + 1
              /\ commandHandler[s].pc = "over" => Len(frames[s]) > 1
           \/ /\ f \in {Exit, Failed, Again} /\ commandHandler[s].pc = "over"
              /\ f = Exit => command.state = "done" /\ commandClient.off = command.end
<1>1. frames[s] \in Seq(Int) /\ Len(frames[s]) \in Nat /\ Len(frames[s]) >= 1 /\ s \in Nat
      BY CommandNumbers
<1>2. Flows(s) /\ commandHandler[s].pc # "none"
      BY <1>1 DEF CommandInv, StreamFlows, AttemptsMade
<1>3. commandHandler[s].pc \in {"none", "request", "created", "attached", "over"}
      BY CommandTypes DEF StreamType
<1>4. CASE commandHandler[s].pc \in {"request", "created"}
      BY <1>2, <1>4 DEF Flows
<1>5. CASE commandHandler[s].pc = "attached"
      BY <1>1, <1>2, <1>5 DEF Flows
<1>6. CASE commandHandler[s].pc = "over" /\ Len(frames[s]) > 1
      <2>1. 1 \in 1 .. (Len(frames[s]) - 1)
            BY <1>1, <1>6
      <2> QED BY <1>2, <1>6, <2>1 DEF Flows
<1>7. CASE commandHandler[s].pc = "over" /\ Len(frames[s]) = 1
      <2>1. frames[s][1] \in {Exit, Failed, Again}
            BY <1>2, <1>7 DEF Flows
      <2>2. frames[s][1] = Exit => command.state = "done" /\ commandClient.off + 1 - 1 = command.end
            BY <1>2, <1>7 DEF Flows
      <2>3. commandClient.off + 1 - 1 = commandClient.off
            BY CommandNumbers
      <2> QED BY <1>7, <2>1, <2>2, <2>3
<1>8. CASE commandHandler[s].pc = "over"
      <2>1. Len(frames[s]) \in Nat /\ Len(frames[s]) >= 1
            BY <1>1
      <2>2. \A n \in Nat : n >= 1 => n > 1 \/ n = 1
            OBVIOUS
      <2>3. Len(frames[s]) > 1 \/ Len(frames[s]) = 1
            BY <2>1, <2>2, Zenon
      <2> QED BY <1>6, <1>7, <1>8, <2>3
<1> QED BY <1>2, <1>3, <1>4, <1>5, <1>8

\* Output that goes on at an offset goes on after it when its first piece is taken.
LEMMA TailGoesOn ==
    ASSUME NEW q \in Seq(Int), q # <<>>, NEW off \in Nat
    PROVE  /\ Len(Tail(q)) = Len(q) - 1 /\ (off + 1) + Len(Tail(q)) = off + Len(q)
           /\ (\A i \in 1 .. Len(q) : q[i] = off + i) => \A i \in 1 .. Len(Tail(q)) : Tail(q)[i] = (off + 1) + i
           /\ (\A i \in 1 .. (Len(q) - 1) : q[i] = off + i) =>
                 \A i \in 1 .. (Len(Tail(q)) - 1) : Tail(q)[i] = (off + 1) + i
           /\ Len(q) > 1 => Tail(q) # <<>> /\ Tail(q)[Len(Tail(q))] = q[Len(q)]
<1>1. Len(q) \in Nat /\ Len(q) >= 1 /\ Len(Tail(q)) = Len(q) - 1
      OBVIOUS
<1>2. \A i \in 1 .. Len(Tail(q)) : Tail(q)[i] = q[i + 1]
      OBVIOUS
<1>3. ASSUME Len(q) > 1 PROVE Tail(q) # <<>> /\ Tail(q)[Len(Tail(q))] = q[Len(q)]
      <2>1. Len(Tail(q)) \in 1 .. Len(Tail(q)) /\ Len(Tail(q)) + 1 = Len(q)
            BY <1>1, <1>3
      <2>2. Tail(q)[Len(Tail(q))] = q[Len(q)]
            BY <1>2, <2>1
      <2>3. Tail(q) # <<>>
            <3>1. Len(Tail(q)) # 0
                  BY <1>1, <1>3
            <3>2. Len(<<>>) = 0
                  OBVIOUS
            <3> QED BY <3>1, <3>2, Zenon
      <2> QED BY <2>2, <2>3, Zenon
<1>4. ASSUME NEW n \in Int, \A i \in 1 .. n : q[i] = off + i, n <= Len(q), NEW i \in 1 .. (n - 1)
      PROVE  Tail(q)[i] = (off + 1) + i
      <2>1. i + 1 \in 1 .. n /\ i \in 1 .. Len(Tail(q)) /\ i \in Int
            BY <1>1, <1>4
      <2>2. Tail(q)[i] = q[i + 1] /\ q[i + 1] = off + (i + 1)
            BY <1>2, <1>4, <2>1
      <2> QED BY <2>1, <2>2
<1>5. ASSUME \A i \in 1 .. Len(q) : q[i] = off + i, NEW i \in 1 .. Len(Tail(q))
      PROVE  Tail(q)[i] = (off + 1) + i
      BY <1>1, <1>4, <1>5
<1>6. ASSUME \A i \in 1 .. (Len(q) - 1) : q[i] = off + i, NEW i \in 1 .. (Len(Tail(q)) - 1)
      PROVE  Tail(q)[i] = (off + 1) + i
      BY <1>1, <1>4, <1>6
<1> QED BY <1>1, <1>3, <1>5, <1>6

LEMMA ReceiveStep ==
    ASSUME NEW s \in Streams, CommandTypeOK, CommandInv, Receive(s)
    PROVE  CommandTypeOK' /\ CommandInv'
<1> DEFINE f == frames[s][1]
<1>1. /\ commandClient.pc = "stream" /\ commandClient.attempts = s /\ frames[s] # <<>>
      /\ UNCHANGED <<command, started, commandHandler>>
      /\ frames' \in [Streams -> Seq(Int)] /\ frames'[s] = Tail(frames[s])
      /\ \A t \in Streams \ {s} : frames'[t] = frames[t]
      BY ReceiveEffect
<1>2. commandClient.off \in Nat /\ s \in Nat \ {0} /\ frames[s] \in Seq(Int) /\ Len(frames[s]) \in Nat
      BY CommandNumbers
<1>3. \/ /\ f = commandClient.off + 1
         /\ commandHandler[s].pc = "over" => Len(frames[s]) > 1
      \/ /\ f \in {Exit, Failed, Again} /\ commandHandler[s].pc = "over"
         /\ f = Exit => command.state = "done" /\ commandClient.off = command.end
      BY <1>1, NextFrame
<1>4. \/ f = Exit /\ ClientBecomes("exited", commandClient.off)
      \/ f \in {Failed, Again} /\ \E pc \in {"retry", "failed"} : ClientBecomes(pc, commandClient.off)
      \/ f - 1 > commandClient.off /\ ClientBecomes("gap", commandClient.off)
      \/ f - 1 < commandClient.off /\ f > 0 /\ ClientBecomes("stream", commandClient.off)
      \/ f # Exit /\ f \notin {Failed, Again} /\ (f > 0 => f - 1 = commandClient.off)
         /\ commandClient' = [commandClient EXCEPT !.off = f]
      BY ReceiveEffect
<1> HIDE DEF f
<1>5. \/ /\ commandClient' \in ClientType /\ commandClient'.attempts = s /\ commandClient'.off = commandClient.off
         /\ commandClient'.pc \in {"exited", "retry", "failed"}
         /\ commandClient'.pc = "exited" => command.state = "done" /\ commandClient.off = command.end
      \/ /\ f = commandClient.off + 1 /\ (commandHandler[s].pc = "over" => Len(frames[s]) > 1)
         /\ commandClient' \in ClientType /\ commandClient'.attempts = s
         /\ commandClient'.off = commandClient.off + 1 /\ commandClient'.pc = "stream"
      <2>1. CASE f = Exit /\ ClientBecomes("exited", commandClient.off)
            BY <1>1, <1>2, <1>3, <2>1 DEF ClientBecomes, Exit, Failed, Again
      <2>2. CASE f \in {Failed, Again} /\ \E pc \in {"retry", "failed"} : ClientBecomes(pc, commandClient.off)
            BY <1>1, <2>2 DEF ClientBecomes
      <2>3. CASE f - 1 > commandClient.off
            BY <1>2, <1>3, <2>3 DEF Exit, Failed, Again
      <2>4. CASE f - 1 < commandClient.off /\ f > 0
            BY <1>2, <1>3, <2>4 DEF Exit, Failed, Again
      <2>5. CASE /\ f # Exit /\ f \notin {Failed, Again}
                 /\ commandClient' = [commandClient EXCEPT !.off = f]
            <3>1. f = commandClient.off + 1 /\ (commandHandler[s].pc = "over" => Len(frames[s]) > 1)
                  BY <1>3, <2>5
            <3>2. commandClient \in ClientType /\ f \in Nat
                  BY <1>2, <3>1, CommandTypes
            <3>3. commandClient' \in ClientType /\ commandClient'.attempts = commandClient.attempts
                  /\ commandClient'.off = f /\ commandClient'.pc = commandClient.pc
                  BY <2>5, <3>2 DEF ClientType
            <3> QED BY <1>1, <3>1, <3>3
      <2> QED BY <1>4, <2>1, <2>2, <2>3, <2>4, <2>5
<1>6. CommandTypeOK'
      BY <1>1, <1>5 DEF CommandTypeOK
<1>7. AttemptsMade'
      BY <1>1, <1>2, <1>5, CommandNumbers DEF CommandInv, AttemptsMade
<1>8. StartedByFirst'
      BY <1>1 DEF CommandInv, StartedByFirst
<1>9. Listening' = Listening
      BY <1>1 DEF Listening, Serving
<1>10. Counted' /\ GensDiffer'
       BY <1>1, <1>9 DEF CommandInv, Counted, GensDiffer
<1>11. SentIsWritten' /\ OutcomeTells' /\ GraceIsOff' /\ Tended'
       BY <1>1 DEF CommandInv, SentIsWritten, OutcomeTells, GraceIsOff, Tended
<1>12. StreamFlows'
       <2>1. ASSUME commandClient'.pc = "stream" PROVE Flows(s)'
             <3>1. /\ f = commandClient.off + 1 /\ (commandHandler[s].pc = "over" => Len(frames[s]) > 1)
                   /\ commandClient'.off = commandClient.off + 1
                   BY <1>5, <2>1
             <3>2. Flows(s)
                   BY <1>1 DEF CommandInv, StreamFlows
             <3>3. PICK q : q = frames[s]
                   OBVIOUS
             <3> DEFINE off == commandClient.off
             <3>4. q \in Seq(Int) /\ q # <<>> /\ off \in Nat /\ frames'[s] = Tail(q) /\ commandClient'.off = off + 1
                   BY <1>1, <1>2, <3>1, <3>3
             <3> HIDE DEF off
             <3>5. commandHandler[s].pc \notin {"request", "created"}
                   BY <1>1, <3>2 DEF Flows
             <3>6. ASSUME commandHandler[s].pc = "attached"
                   PROVE  /\ \A i \in 1 .. Len(frames'[s]) : frames'[s][i] = commandClient'.off + i
                          /\ commandHandler[s].gen = command.gen => commandClient'.off + Len(frames'[s]) = command.sent
                   <4>1. /\ \A i \in 1 .. Len(q) : q[i] = off + i
                         /\ commandHandler[s].gen = command.gen => off + Len(q) = command.sent
                         BY <3>2, <3>3, <3>6 DEF Flows, off
                   <4>2. /\ \A i \in 1 .. Len(Tail(q)) : Tail(q)[i] = (off + 1) + i
                         /\ (off + 1) + Len(Tail(q)) = off + Len(q)
                         BY <3>4, <4>1, TailGoesOn
                   <4> QED BY <3>4, <4>1, <4>2
             <3>7. ASSUME commandHandler[s].pc = "over"
                   PROVE  /\ frames'[s] # <<>>
                          /\ \A i \in 1 .. (Len(frames'[s]) - 1) : frames'[s][i] = commandClient'.off + i
                          /\ frames'[s][Len(frames'[s])] \in {Exit, Failed, Again}
                          /\ frames'[s][Len(frames'[s])] = Exit =>
                                command.state = "done" /\ commandClient'.off + Len(frames'[s]) - 1 = command.end
                   <4>1. /\ \A i \in 1 .. (Len(q) - 1) : q[i] = off + i
                         /\ q[Len(q)] \in {Exit, Failed, Again}
                         /\ q[Len(q)] = Exit => command.state = "done" /\ off + Len(q) - 1 = command.end
                         BY <3>2, <3>3, <3>7 DEF Flows, off
                   <4>2. Len(q) > 1
                         BY <3>1, <3>3, <3>7
                   <4>3. /\ \A i \in 1 .. (Len(Tail(q)) - 1) : Tail(q)[i] = (off + 1) + i
                         /\ (off + 1) + Len(Tail(q)) = off + Len(q)
                         /\ Tail(q) # <<>> /\ Tail(q)[Len(Tail(q))] = q[Len(q)]
                         BY <3>4, <4>1, <4>2, TailGoesOn
                   <4>4. frames'[s] # <<>> /\ frames'[s][Len(frames'[s])] = q[Len(q)]
                         BY <3>4, <4>3
                   <4>5. \A i \in 1 .. (Len(frames'[s]) - 1) : frames'[s][i] = commandClient'.off + i
                         BY <3>4, <4>3
                   <4>6. commandClient'.off + Len(frames'[s]) = off + Len(q)
                         BY <3>4, <4>3
                   <4>7. frames'[s][Len(frames'[s])] \in {Exit, Failed, Again}
                         BY <4>1, <4>4, Zenon
                   <4>8. frames'[s][Len(frames'[s])] = Exit =>
                            command.state = "done" /\ commandClient'.off + Len(frames'[s]) - 1 = command.end
                         <5>1. q[Len(q)] = Exit => command.state = "done" /\ off + Len(q) - 1 = command.end
                               BY <4>1
                         <5>2. commandClient'.off + Len(frames'[s]) - 1 = off + Len(q) - 1
                               <6>1. off \in Int /\ Len(q) \in Int /\ Len(Tail(q)) = Len(q) - 1
                                     BY <3>4, TailGoesOn
                               <6>2. \A a, b \in Int : (a + 1) + (b - 1) - 1 = a + b - 1
                                     OBVIOUS
                               <6>3. (off + 1) + Len(Tail(q)) - 1 = off + Len(q) - 1
                                     BY <6>1, <6>2, Zenon
                               <6> QED BY <3>4, <6>3, Zenon
                         <5> QED BY <4>4, <5>1, <5>2
                   <4> QED BY <4>4, <4>5, <4>7, <4>8, Zenon
             <3>8. commandHandler'[s] = commandHandler[s] /\ command' = command /\ commandHandler[s].up
                   BY <1>1, <3>2 DEF Flows
             <3> QED BY <3>5, <3>6, <3>7, <3>8 DEF Flows
       <2> QED BY <1>2, <1>5, <2>1 DEF StreamFlows
<1>13. ReceivedWhole'
       BY <1>1, <1>5 DEF ReceivedWhole
<1> QED BY <1>6, <1>7, <1>8, <1>10, <1>11, <1>12, <1>13 DEF CommandInv

\* A stream that asks or is served and goes on to be served or over.
LEMMA AttemptMoves ==
    ASSUME NEW s \in Streams, CommandTypeOK, AttemptsMade,
           commandHandler[s].pc \in {"request", "created", "attached"},
           commandHandler'[s].pc \in {"created", "attached", "over"},
           commandHandler'[s].off = commandHandler[s].off, commandHandler'[s].resumed = commandHandler[s].resumed,
           \A t \in Streams \ {s} : commandHandler'[t] = commandHandler[t] /\ frames'[t] = frames[t],
           commandClient' = commandClient
    PROVE  AttemptsMade'
<1>1. ~(s > commandClient.attempts) /\ s <= commandClient.attempts
      <2>1. ~(s > commandClient.attempts)
            BY DEF AttemptsMade
      <2>2. s \in Nat /\ commandClient.attempts \in Nat
            BY CommandNumbers
      <2> QED BY <2>1, <2>2
<1>2. commandHandler'[s].pc # "none"
      OBVIOUS
<1>3. ASSUME NEW t \in Streams
      PROVE  /\ t > commandClient.attempts => commandHandler'[t].pc = "none" /\ frames'[t] = <<>>
             /\ t <= commandClient.attempts => /\ commandHandler'[t].pc # "none"
                                               /\ commandHandler'[t].resumed <=> t > 1
                                               /\ t = 1 => commandHandler'[t].off = 0
      <2>1. CASE t = s
            BY <1>1, <1>2, <2>1 DEF AttemptsMade
      <2>2. CASE t # s
            BY <2>2 DEF AttemptsMade
      <2> QED BY <2>1, <2>2
<1> QED BY <1>3 DEF AttemptsMade

\* The stream that the backend reads goes on where it was while another one moves.
LEMMA OtherFlows ==
    ASSUME NEW t \in Streams, Flows(t), commandHandler'[t] = commandHandler[t], frames'[t] = frames[t],
           commandClient' = commandClient,
           command.state = "done" => command'.state = "done" /\ command'.end = command.end,
           commandHandler[t].pc = "attached" /\ commandHandler[t].gen = command'.gen
              => command.gen = command'.gen /\ command'.sent = command.sent
    PROVE  Flows(t)'
BY DEF Flows

LEMMA AppendFields ==
    ASSUME NEW q \in Seq(Int), NEW e \in Int
    PROVE  /\ Append(q, e) \in Seq(Int) /\ Len(Append(q, e)) = Len(q) + 1 /\ Append(q, e) # <<>>
           /\ Append(q, e)[Len(Append(q, e))] = e /\ Len(Append(q, e)) - 1 = Len(q)
           /\ \A i \in 1 .. Len(q) : Append(q, e)[i] = q[i]
OBVIOUS

\* The answer to the stream that the backend reads comes after the output.
LEMMA AnsweredFlows ==
    ASSUME NEW s \in Streams, NEW frame \in {Exit, Failed, Again}, CommandTypeOK, Flows(s), Answered(s, frame),
           commandClient' = commandClient, commandHandler[s].pc \in {"request", "created", "attached"},
           frame = Exit => command'.state = "done" /\ commandClient.off + Len(frames[s]) = command'.end
    PROVE  Flows(s)'
<1> PICK q : q = frames[s]
    OBVIOUS
<1>1. q \in Seq(Int) /\ Len(q) \in Nat /\ frame \in Int /\ commandClient.off \in Nat
      BY CommandNumbers DEF Exit, Failed, Again
<1>2. \A i \in 1 .. Len(q) : q[i] = commandClient.off + i
      <2>1. CASE commandHandler[s].pc \in {"request", "created"}
            BY <2>1 DEF Flows
      <2>2. CASE commandHandler[s].pc = "attached"
            BY <2>2 DEF Flows
      <2> QED BY <2>1, <2>2
<1>3. /\ frames'[s] = Append(q, frame) /\ commandHandler'[s].up
      /\ commandHandler'[s].pc = "over" /\ commandHandler'[s].gen = commandHandler[s].gen
      BY DEF Flows, Answered, HandlerBecomes
<1>4. /\ Append(q, frame) # <<>> /\ Append(q, frame)[Len(Append(q, frame))] = frame
      /\ Len(Append(q, frame)) - 1 = Len(q) /\ Len(Append(q, frame)) = Len(q) + 1
      /\ \A i \in 1 .. Len(q) : Append(q, frame)[i] = q[i]
      BY <1>1, AppendFields
<1>5. \A i \in 1 .. (Len(Append(q, frame)) - 1) : Append(q, frame)[i] = commandClient.off + i
      BY <1>2, <1>4
<1>6. commandClient.off + Len(Append(q, frame)) - 1 = commandClient.off + Len(q)
      <2>1. \A a, b \in Int : a + (b + 1) - 1 = a + b
            OBVIOUS
      <2> QED BY <1>1, <1>4, <2>1
<1>7. frame = Exit => command'.state = "done" /\ commandClient'.off + Len(frames'[s]) - 1 = command'.end
      BY <1>3, <1>6, Zenon
<1>8. /\ frames'[s] # <<>> /\ frames'[s][Len(frames'[s])] = frame
      /\ \A i \in 1 .. (Len(frames'[s]) - 1) : frames'[s][i] = commandClient'.off + i
      BY <1>3, <1>4, <1>5, Zenon
<1>9. /\ frames'[s][Len(frames'[s])] \in {Exit, Failed, Again}
      /\ frames'[s][Len(frames'[s])] = Exit =>
            command'.state = "done" /\ commandClient'.off + Len(frames'[s]) - 1 = command'.end
      BY <1>7, <1>8, Zenon
<1>10. commandHandler'[s].pc \notin {"request", "created", "attached"}
       BY <1>3
<1> QED BY <1>3, <1>8, <1>9, <1>10 DEF Flows

\* A stream attaches to the run.
LEMMA AttachStep ==
    ASSUME NEW s \in Streams, CommandTypeOK, CommandInv, commandHandler[s].pc \in {"request", "created"},
           command.state # "none", commandClient' = commandClient, started' = started,
           Attaches(s, command, commandHandler[s].off),
           commandHandler[s].off \in Nat, commandHandler[s].off <= command.end
    PROVE  CommandTypeOK' /\ CommandInv'
<1>1. commandHandler[s].pc \in {"request", "created"} /\ commandClient' = commandClient
      OBVIOUS
<1>2. ~Serving(s) /\ s \notin Listening
      BY <1>1 DEF Serving, Listening
<1>3. Cardinality(Listening) \in Nat /\ command.attached \in Nat /\ command.gen \in Nat
      BY ListeningIsFinite, CommandNumbers DEF CommandInv, Counted
<1>4. /\ command' \in RunType /\ SameCommand(command', command) /\ command'.gen = command.gen + 1
      /\ command'.attached = command.attached + 1 /\ command'.grace = "off"
      /\ command'.sent = commandHandler[s].off /\ frames' = frames
      /\ HandlerBecomes(s, "attached", command.gen + 1)
      BY DEF Attaches
<1>5. CommandTypeOK'
      BY <1>1, <1>4 DEF CommandTypeOK, HandlerBecomes
<1>6. AttemptsMade'
      BY <1>1, <1>4, AttemptMoves DEF CommandInv, HandlerBecomes
<1>7. StartedByFirst'
      BY <1>4 DEF CommandInv, StartedByFirst, SameCommand, HandlerBecomes
<1>8. Listening' = Listening \cup {s} /\ Cardinality(Listening') = Cardinality(Listening) + 1
      BY <1>2, <1>4, ListeningMore
<1>9. Counted'
      BY <1>4, <1>8 DEF CommandInv, Counted
<1>10. GensDiffer'
      <2>1. command.gen \in Nat /\ \A u \in Listening : commandHandler[u].gen \in Nat
            BY CommandNumbers DEF Listening
      <2>2. commandHandler'[s].gen = command.gen + 1
            BY <1>4 DEF HandlerBecomes
      <2>3. \A u \in Listening : commandHandler'[u].gen = commandHandler[u].gen
            BY <1>2, <1>4 DEF HandlerBecomes, Listening
      <2> QED BY <1>4, <1>8, <2>1, <2>2, <2>3 DEF CommandInv, GensDiffer
<1>11. SentIsWritten' /\ GraceIsOff' /\ OutcomeTells' /\ Tended'
      BY <1>3, <1>4 DEF CommandInv, SentIsWritten, GraceIsOff, OutcomeTells, Tended, SameCommand
<1>12. StreamFlows'
      <2>1. ASSUME NEW t \in Streams, t # s, Flows(t) PROVE Flows(t)'
            <3>1. commandHandler'[t] = commandHandler[t] /\ frames'[t] = frames[t]
                  BY <1>4, <2>1 DEF HandlerBecomes
            <3>2. ~(commandHandler[t].pc = "attached" /\ commandHandler[t].gen = command'.gen)
                  <4>1. commandHandler[t].pc = "attached" => commandHandler[t].gen <= command.gen
                        BY DEF CommandInv, GensDiffer, Listening, Serving
                  <4> QED BY <1>4, <4>1, CommandNumbers
            <3> QED BY <1>1, <1>4, <2>1, <3>1, <3>2, OtherFlows DEF SameCommand
      <2>2. ASSUME Flows(s) PROVE Flows(s)'
            <3>1. frames'[s] = <<>> /\ commandHandler[s].up /\ commandHandler[s].off = commandClient.off
                  BY <1>1, <1>4, <2>2 DEF Flows
            <3>2. commandHandler'[s].pc = "attached" /\ commandHandler'[s].up
                  BY <1>4, <3>1 DEF HandlerBecomes
            <3>3. Len(frames'[s]) = 0 /\ commandClient'.off + 0 = command'.sent
                  BY <1>1, <1>4, <3>1, CommandNumbers
            <3>4. commandClient'.off + Len(frames'[s]) = command'.sent
                  BY <3>3
            <3>5. \A i \in 1 .. Len(frames'[s]) : frames'[s][i] = commandClient'.off + i
                  BY <3>3
            <3> QED BY <3>2, <3>4, <3>5 DEF Flows
      <2> QED BY <1>1, <2>1, <2>2 DEF CommandInv, StreamFlows
<1>13. ReceivedWhole'
       BY <1>1, <1>4 DEF CommandInv, ReceivedWhole, SameCommand
<1> QED BY <1>5, <1>6, <1>7, <1>9, <1>10, <1>11, <1>12, <1>13 DEF CommandInv

\* A stream is refused and the run stays as it is.
LEMMA RefuseStep ==
    ASSUME NEW s \in Streams, CommandTypeOK, CommandInv, commandHandler[s].pc \in {"request", "created"},
           commandHandler[s].pc = "created" => command.gen > 0,
           commandClient' = commandClient, command' = command, started' = started, Answered(s, Failed)
    PROVE  CommandTypeOK' /\ CommandInv'
<1>1. commandHandler[s].pc \in {"request", "created"} /\ commandClient' = commandClient
      OBVIOUS
<1>2. ~Serving(s) /\ s \notin Listening
      BY <1>1 DEF Serving, Listening
<1>3. /\ HandlerBecomes(s, "over", commandHandler[s].gen)
      /\ frames' \in [Streams -> Seq(Int)] /\ \A t \in Streams \ {s} : frames'[t] = frames[t]
      BY DEF Answered
<1>4. CommandTypeOK'
      BY <1>1, <1>3 DEF CommandTypeOK, HandlerBecomes
<1>5. AttemptsMade'
      BY <1>1, <1>3, AttemptMoves DEF CommandInv, HandlerBecomes
<1>6. StartedByFirst'
      BY <1>3 DEF CommandInv, StartedByFirst, HandlerBecomes
<1>7. Listening' = Listening
      BY <1>1, <1>3 DEF HandlerBecomes, Listening, Serving
<1>8. Counted' /\ GensDiffer'
      <2>1. \A u \in Listening : commandHandler'[u].gen = commandHandler[u].gen
            BY <1>2, <1>3 DEF HandlerBecomes, Listening
      <2> QED BY <1>7, <2>1 DEF CommandInv, Counted, GensDiffer
<1>9. SentIsWritten' /\ GraceIsOff' /\ OutcomeTells' /\ Tended' /\ ReceivedWhole'
      <2>1. command.gen > 0 \/ \A u \in Streams : commandHandler[u].pc = "created" => commandHandler'[u].pc = "created"
            BY <1>1, <1>3 DEF HandlerBecomes
      <2>2. command.gen > 0 => command.gen # 0
            BY CommandNumbers
      <2>3. Tended'
            BY <2>1, <2>2 DEF CommandInv, Tended
      <2> QED BY <1>1, <2>3 DEF CommandInv, SentIsWritten, GraceIsOff, OutcomeTells, ReceivedWhole
<1>10. StreamFlows'
      <2>1. ASSUME NEW t \in Streams, t # s, Flows(t) PROVE Flows(t)'
            <3>1. commandHandler'[t] = commandHandler[t] /\ frames'[t] = frames[t]
                  BY <1>3, <2>1 DEF HandlerBecomes
            <3> QED BY <1>1, <2>1, <3>1, OtherFlows
      <2>2. ASSUME Flows(s) PROVE Flows(s)'
            <3>1. Failed # Exit
                  BY DEF Failed, Exit
            <3> QED BY <1>1, <2>2, <3>1, AnsweredFlows
      <2> QED BY <1>1, <2>1, <2>2 DEF CommandInv, StreamFlows
<1> QED BY <1>4, <1>5, <1>6, <1>8, <1>9, <1>10 DEF CommandInv

LEMMA RunCommandStep ==
    ASSUME NEW s \in Streams, CommandTypeOK, CommandInv, RunCommand(s)
    PROVE  CommandTypeOK' /\ CommandInv'
<1>1. commandHandler[s].pc = "request" /\ commandClient' = commandClient
      BY RunCommandEffect DEF CommandInv
<1>2. CASE /\ command.known /\ started' = started
           /\ Attaches(s, command, commandHandler[s].off)
           /\ commandHandler[s].off \in Nat /\ commandHandler[s].off <= command.end
      <2>1. command.state # "none"
            BY <1>2 DEF CommandInv, StartedByFirst
      <2> QED BY <1>1, <1>2, <2>1, AttachStep
<1>3. CASE command' = command /\ started' = started /\ Answered(s, Failed)
      BY <1>1, <1>3, RefuseStep
<1>4. CASE /\ command.state = "none" /\ command' = NewRun /\ started' = 1 /\ s = 1
           /\ HandlerBecomes(s, "created", commandHandler[s].gen) /\ frames' = frames
      <2>1. /\ command' \in RunType /\ command'.state = "running" /\ command'.end = 0 /\ command'.gen = 0
            /\ command'.attached = 0 /\ command'.sent = 0 /\ command'.start = 0
            BY <1>4, NewRunFields
      <2>2. CommandTypeOK'
            BY <1>1, <1>4, <2>1 DEF CommandTypeOK, HandlerBecomes
      <2>3. AttemptsMade'
            BY <1>1, <1>4, AttemptMoves DEF CommandInv, HandlerBecomes
      <2>4. StartedByFirst'
            BY <1>4, <2>1 DEF CommandInv, StartedByFirst, HandlerBecomes
      <2>5. Listening = {} /\ Listening' = {}
            BY <1>1, <1>4 DEF CommandInv, StartedByFirst, Listening, Serving, HandlerBecomes
      <2>6. Counted' /\ GensDiffer'
            BY <2>1, <2>5, FS_EmptySet DEF Counted, GensDiffer
      <2>7. SentIsWritten' /\ GraceIsOff' /\ OutcomeTells'
            BY <2>1 DEF SentIsWritten, GraceIsOff, OutcomeTells
      <2>8. Tended'
            <3>1. commandHandler'[s].pc = "created"
                  BY <1>4 DEF HandlerBecomes
            <3> QED BY <2>1, <3>1 DEF Tended
      <2>9. StreamFlows'
            <3>1. ASSUME NEW t \in Streams, t # s, Flows(t) PROVE Flows(t)'
                  <4>1. commandHandler'[t] = commandHandler[t] /\ frames'[t] = frames[t]
                        BY <1>4, <3>1 DEF HandlerBecomes
                  <4>2. commandHandler[t].pc # "attached"
                        BY <2>5 DEF Listening, Serving
                  <4> QED BY <1>1, <1>4, <3>1, <4>1, <4>2, OtherFlows
            <3>2. ASSUME Flows(s) PROVE Flows(s)'
                  <4>1. /\ frames'[s] = <<>> /\ commandHandler[s].up
                        /\ commandHandler[s].off = commandClient.off
                        BY <1>1, <1>4, <3>2 DEF Flows
                  <4>2. /\ commandHandler'[s].pc = "created" /\ commandHandler'[s].up
                        /\ commandHandler'[s].off = commandClient'.off
                        BY <1>1, <1>4, <4>1 DEF HandlerBecomes
                  <4> QED BY <4>1, <4>2 DEF Flows
            <3> QED BY <1>1, <3>1, <3>2 DEF CommandInv, StreamFlows
      <2>10. ReceivedWhole'
             BY <1>1, <1>4 DEF CommandInv, ReceivedWhole
      <2> QED BY <2>2, <2>3, <2>4, <2>6, <2>7, <2>8, <2>9, <2>10 DEF CommandInv
<1> QED BY <1>2, <1>3, <1>4, RunCommandEffect DEF CommandInv

LEMMA AttachCreatedStep ==
    ASSUME NEW s \in Streams, CommandTypeOK, CommandInv, AttachCreated(s)
    PROVE  CommandTypeOK' /\ CommandInv'
<1>1. commandHandler[s].pc = "created" /\ commandClient' = commandClient /\ started' = started
      BY AttachCreatedEffect DEF CommandInv
<1>2. command.state # "none"
      BY <1>1 DEF CommandInv, StartedByFirst
<1>3. CASE /\ Attaches(s, command, commandHandler[s].off)
           /\ commandHandler[s].off \in Nat /\ commandHandler[s].off <= command.end
      BY <1>1, <1>2, <1>3, AttachStep
<1>4. CASE command' = command /\ Answered(s, Failed) /\ command.gen > 0
      BY <1>1, <1>4, RefuseStep
<1> QED BY <1>3, <1>4, AttachCreatedEffect DEF CommandInv

\* A stream that is served leaves the run, whose output may have gone on by a piece: all but
\* what is on its way is as it must be.
LEMMA LeaveStep ==
    ASSUME NEW s \in Streams, CommandTypeOK, CommandInv, Serving(s), NEW c \in RunType,
           SameCommand(c, command), SameListeners(c, command), c.sent <= c.end, Leaves(c),
           HandlerBecomes(s, "over", commandHandler[s].gen), frames' \in [Streams -> Seq(Int)],
           \A t \in Streams \ {s} : frames'[t] = frames[t],
           started' = started, commandClient' = commandClient,
           \A t \in Streams : t = commandClient.attempts /\ commandClient.pc = "stream" => Flows(t)'
    PROVE  CommandTypeOK' /\ CommandInv'
<1>1. /\ command' \in RunType /\ SameCommand(command', command)
      /\ command'.gen = command.gen /\ command'.attached = command.attached - 1
      /\ command'.sent <= command'.end
      /\ command'.grace = IF command.attached > 1 \/ command.state = "done" \/ command.grace # "off"
                          THEN command.grace ELSE "armed"
      /\ command'.late = command.late /\ command'.kills = command.kills
      BY DEF Leaves, SameCommand, SameListeners
<1>2. CommandTypeOK'
      BY <1>1 DEF CommandTypeOK, HandlerBecomes
<1>3. AttemptsMade'
      BY AttemptMoves DEF CommandInv, HandlerBecomes, Serving
<1>4. StartedByFirst'
      BY <1>1 DEF CommandInv, StartedByFirst, SameCommand, HandlerBecomes
<1>5. Listening' = Listening \ {s} /\ Cardinality(Listening') = Cardinality(Listening) - 1
      BY ListeningLess
<1>6. Cardinality(Listening) \in Nat /\ Cardinality(Listening') \in Nat /\ command.attached = Cardinality(Listening)
      <2>1. Cardinality(Listening') \in Nat
            BY <1>5, ListeningIsFinite, FS_Subset, FS_CardinalityType
      <2> QED BY <2>1, ListeningIsFinite DEF CommandInv, Counted
<1>7. Counted'
      BY <1>1, <1>5, <1>6 DEF Counted
<1>8. GensDiffer'
      <2>1. \A u \in Listening \ {s} : commandHandler'[u].gen = commandHandler[u].gen
            BY DEF HandlerBecomes, Listening
      <2> QED BY <1>1, <1>5, <2>1 DEF CommandInv, GensDiffer
<1>9. SentIsWritten' /\ OutcomeTells'
      BY <1>1 DEF CommandInv, SentIsWritten, OutcomeTells, SameCommand
<1>10. GraceIsOff'
       BY <1>1, <1>5, <1>6 DEF CommandInv, GraceIsOff
<1>11. Tended'
       <2>1. command.attached >= 1
             BY <1>1, <1>5, <1>6
       <2>2. command.grace = "off"
             BY <1>6, <2>1 DEF CommandInv, GraceIsOff
       <2>3. command'.attached = 0 => ~(command.attached > 1)
             BY <1>1, <1>6
       <2>4. ASSUME command'.attached = 0, command'.state = "running" PROVE command'.grace = "armed"
             <3>1. command.state # "done"
                   BY <1>1, <2>4 DEF SameCommand
             <3> QED BY <1>1, <2>2, <2>3, <2>4, <3>1
       <2>5. command'.gen > 0 /\ command'.gen # 0
             <3>1. 0 < commandHandler[s].gen /\ commandHandler[s].gen <= command.gen
                   BY DEF CommandInv, GensDiffer, Listening
             <3> QED BY <1>1, <3>1, CommandNumbers
       <2> QED BY <2>4, <2>5 DEF Tended
<1>12. StreamFlows'
       BY DEF CommandInv, StreamFlows
<1>13. ReceivedWhole'
       BY <1>1 DEF CommandInv, ReceivedWhole, SameCommand
<1> QED BY <1>2, <1>3, <1>4, <1>7, <1>8, <1>9, <1>10, <1>11, <1>12, <1>13 DEF CommandInv

LEMMA ServeStep ==
    ASSUME NEW s \in Streams, CommandTypeOK, CommandInv, Serve(s)
    PROVE  CommandTypeOK' /\ CommandInv'
<1>1. Serving(s) /\ started' = started /\ commandClient' = commandClient
      BY ServeEffect
<1>2. /\ commandHandler[s].pc = "attached" /\ s \in Listening /\ command \in RunType
      /\ SameCommand(command, command) /\ SameListeners(command, command) /\ command.sent <= command.end
      BY <1>1, CommandTypes DEF CommandInv, SentIsWritten, Serving, Listening, SameCommand, SameListeners
<1>3. CASE ~Newest(s) /\ Answered(s, Again) /\ Leaves(command)
      <2>1. /\ HandlerBecomes(s, "over", commandHandler[s].gen) /\ frames' \in [Streams -> Seq(Int)]
            /\ \A t \in Streams \ {s} : frames'[t] = frames[t]
            BY <1>3 DEF Answered
      <2>2. ASSUME NEW t \in Streams, t = commandClient.attempts, commandClient.pc = "stream"
            PROVE  Flows(t)'
            <3>1. Flows(t)
                  BY <2>2 DEF CommandInv, StreamFlows
            <3>2. CASE t = s
                  <4>1. Again # Exit
                        BY DEF Again, Exit
                  <4> QED BY <1>1, <1>2, <1>3, <3>1, <3>2, <4>1, AnsweredFlows
            <3>3. CASE t # s
                  <4>1. commandHandler'[t] = commandHandler[t] /\ frames'[t] = frames[t]
                        BY <2>1, <3>3 DEF HandlerBecomes
                  <4> QED BY <1>1, <1>3, <3>1, <4>1, OtherFlows DEF Leaves, SameCommand
            <3> QED BY <3>2, <3>3
      <2> QED BY <1>1, <1>2, <1>3, <2>1, <2>2, LeaveStep
<1>4. CASE /\ Newest(s) /\ command.sent < command.end
           /\ command' \in RunType /\ SameCommand(command', command)
           /\ SameListeners(command', command) /\ command'.sent = command.sent + 1
           /\ commandHandler' = commandHandler /\ frames' \in [Streams -> Seq(Int)]
           /\ frames'[s] = IF commandHandler[s].up THEN Append(frames[s], command.sent + 1) ELSE frames[s]
           /\ \A t \in Streams \ {s} : frames'[t] = frames[t]
      <2>1. CommandTypeOK'
            BY <1>1, <1>4 DEF CommandTypeOK
      <2>2. AttemptsMade'
            BY <1>1, <1>2, <1>4, AttemptMoves DEF CommandInv
      <2>3. StartedByFirst'
            BY <1>1, <1>4 DEF CommandInv, StartedByFirst, SameCommand
      <2>4. Listening' = Listening
            BY <1>4 DEF Listening, Serving
      <2>5. Counted' /\ GensDiffer'
            BY <1>4, <2>4 DEF CommandInv, Counted, GensDiffer, SameListeners
      <2>6. SentIsWritten'
            BY <1>4, CommandNumbers DEF SentIsWritten, SameCommand
      <2>7. OutcomeTells' /\ GraceIsOff' /\ Tended' /\ ReceivedWhole'
            <3>1. 0 < commandHandler[s].gen /\ commandHandler[s].gen <= command.gen
                  BY <1>2 DEF CommandInv, GensDiffer
            <3>2. command.gen # 0
                  BY <3>1, CommandNumbers
            <3> QED BY <1>1, <1>4, <3>2 DEF CommandInv, OutcomeTells, GraceIsOff, Tended, ReceivedWhole,
                       SameCommand, SameListeners
      <2>8. ASSUME NEW t \in Streams, t # s, Flows(t) PROVE Flows(t)'
            <3>1. ~(commandHandler[t].pc = "attached" /\ commandHandler[t].gen = command'.gen)
                  <4>1. command'.gen = commandHandler[s].gen
                        BY <1>4 DEF Newest, SameListeners
                  <4>2. commandHandler[t].pc = "attached" => commandHandler[t].gen # commandHandler[s].gen
                        BY <1>2, <2>8 DEF CommandInv, GensDiffer, Listening, Serving
                  <4> QED BY <4>1, <4>2
            <3>2. commandHandler'[t] = commandHandler[t] /\ frames'[t] = frames[t]
                  BY <1>4, <2>8
            <3> QED BY <1>1, <1>4, <2>8, <3>1, <3>2, OtherFlows DEF SameCommand
      <2>9. ASSUME Flows(s) PROVE Flows(s)'
            <3>1. PICK q : q = frames[s]
                  OBVIOUS
            <3>2. q \in Seq(Int) /\ Len(q) \in Nat /\ command.sent + 1 \in Int /\ commandClient.off \in Nat
                  BY <3>1, CommandNumbers
            <3>3. /\ commandHandler[s].up /\ \A i \in 1 .. Len(q) : q[i] = commandClient.off + i
                  /\ commandClient.off + Len(q) = command.sent
                  BY <1>2, <1>4, <2>9, <3>1 DEF Flows, Newest
            <3> DEFINE a == Append(q, command.sent + 1)
            <3>4. frames'[s] = a
                  BY <1>4, <3>1, <3>3
            <3>5. Len(a) = Len(q) + 1 /\ a[Len(a)] = command.sent + 1 /\ \A i \in 1 .. Len(q) : a[i] = q[i]
                  BY <3>2, AppendFields
            <3> HIDE DEF a
            <3>6. commandClient.off + Len(a) = command.sent + 1
                  <4>1. \A x, y \in Int : x + (y + 1) = x + y + 1
                        OBVIOUS
                  <4>2. commandClient.off \in Int /\ Len(q) \in Int
                        BY <3>2
                  <4>3. commandClient.off + Len(q) = command.sent /\ Len(a) = Len(q) + 1
                        BY <3>3, <3>5
                  <4> QED BY <4>1, <4>2, <4>3, Zenon
            <3>7. ASSUME NEW i \in 1 .. Len(a) PROVE a[i] = commandClient.off + i
                  <4>1. i \in 1 .. Len(q) \/ i = Len(a)
                        BY <3>2, <3>5
                  <4> QED BY <3>3, <3>5, <3>6, <4>1
            <3>8. /\ commandHandler'[s] = commandHandler[s] /\ commandClient'.off = commandClient.off
                  /\ command'.sent = command.sent + 1
                  BY <1>1, <1>4
            <3>9. \A i \in 1 .. Len(frames'[s]) : frames'[s][i] = commandClient'.off + i
                  BY <3>4, <3>7, <3>8
            <3>10. commandClient'.off + Len(frames'[s]) = command'.sent
                   BY <3>4, <3>6, <3>8
            <3> QED BY <1>2, <3>3, <3>8, <3>9, <3>10 DEF Flows
      <2>10. StreamFlows'
             BY <1>1, <2>8, <2>9 DEF CommandInv, StreamFlows
      <2> QED BY <2>1, <2>2, <2>3, <2>5, <2>6, <2>7, <2>10 DEF CommandInv
<1>5. CASE /\ Newest(s) /\ command.sent < command.end /\ ~commandHandler[s].up
           /\ \E c \in RunType : /\ SameCommand(c, command) /\ SameListeners(c, command)
                                 /\ c.sent = command.sent + 1 /\ Leaves(c)
           /\ HandlerBecomes(s, "over", commandHandler[s].gen)
           /\ frames' \in [Streams -> Seq(Int)] /\ \A t \in Streams : frames'[t] = frames[t]
      <2>1. PICK c \in RunType : /\ SameCommand(c, command) /\ SameListeners(c, command)
                                 /\ c.sent = command.sent + 1 /\ Leaves(c)
            BY <1>5
      <2>2. c.sent <= c.end
            BY <1>5, <2>1, CommandNumbers DEF SameCommand
      <2>3. ASSUME NEW t \in Streams, t = commandClient.attempts, commandClient.pc = "stream"
            PROVE  Flows(t)'
            <3>1. Flows(t)
                  BY <2>3 DEF CommandInv, StreamFlows
            <3>2. t # s
                  BY <1>5, <3>1 DEF Flows
            <3>3. ~(commandHandler[t].pc = "attached" /\ commandHandler[t].gen = command'.gen)
                  <4>1. command'.gen = commandHandler[s].gen
                        BY <1>5, <2>1 DEF Newest, Leaves, SameListeners
                  <4>2. commandHandler[t].pc = "attached" => commandHandler[t].gen # commandHandler[s].gen
                        BY <1>2, <3>2 DEF CommandInv, GensDiffer, Listening, Serving
                  <4> QED BY <4>1, <4>2
            <3>4. commandHandler'[t] = commandHandler[t] /\ frames'[t] = frames[t]
                  BY <1>5, <3>2 DEF HandlerBecomes
            <3> QED BY <1>1, <2>1, <3>1, <3>3, <3>4, OtherFlows DEF Leaves, SameCommand
      <2> QED BY <1>1, <1>5, <2>1, <2>2, <2>3, LeaveStep
<1>6. CASE /\ Newest(s) /\ command.sent >= command.end /\ command.state = "done"
           /\ Answered(s, command.outcome) /\ Leaves(command)
      <2>1. /\ HandlerBecomes(s, "over", commandHandler[s].gen) /\ frames' \in [Streams -> Seq(Int)]
            /\ \A t \in Streams \ {s} : frames'[t] = frames[t]
            BY <1>6 DEF Answered
      <2>2. ASSUME NEW t \in Streams, t = commandClient.attempts, commandClient.pc = "stream"
            PROVE  Flows(t)'
            <3>1. Flows(t)
                  BY <2>2 DEF CommandInv, StreamFlows
            <3>2. CASE t = s
                  <4>1. commandClient.off + Len(frames[s]) = command.sent
                        BY <1>2, <1>6, <3>1, <3>2 DEF Flows, Newest
                  <4>2. command.sent = command.end
                        BY <1>2, <1>6, CommandNumbers
                  <4>3. command'.state = "done" /\ commandClient.off + Len(frames[s]) = command'.end
                        BY <1>6, <4>1, <4>2 DEF Leaves, SameCommand
                  <4>4. command.outcome \in {Exit, Failed, Again}
                        BY <1>6 DEF CommandInv, OutcomeTells
                  <4> QED BY <1>1, <1>2, <1>6, <3>1, <3>2, <4>3, <4>4, AnsweredFlows
            <3>3. CASE t # s
                  <4>1. commandHandler'[t] = commandHandler[t] /\ frames'[t] = frames[t]
                        BY <2>1, <3>3 DEF HandlerBecomes
                  <4> QED BY <1>1, <1>6, <3>1, <4>1, OtherFlows DEF Leaves, SameCommand
            <3> QED BY <3>2, <3>3
      <2> QED BY <1>1, <1>2, <1>6, <2>1, <2>2, LeaveStep
<1>7. CASE /\ ~commandHandler[s].up /\ Leaves(command) /\ frames' = frames
           /\ HandlerBecomes(s, "over", commandHandler[s].gen)
      <2>1. ASSUME NEW t \in Streams, t = commandClient.attempts, commandClient.pc = "stream"
            PROVE  Flows(t)'
            <3>1. Flows(t)
                  BY <2>1 DEF CommandInv, StreamFlows
            <3>2. t # s
                  BY <1>7, <3>1 DEF Flows
            <3>3. commandHandler'[t] = commandHandler[t] /\ frames'[t] = frames[t]
                  BY <1>7, <3>2 DEF HandlerBecomes
            <3> QED BY <1>1, <1>7, <3>1, <3>3, OtherFlows DEF Leaves, SameCommand
      <2>2. frames' \in [Streams -> Seq(Int)]
            BY <1>7, CommandTypes
      <2> QED BY <1>1, <1>2, <1>7, <2>1, <2>2, LeaveStep
<1> QED BY <1>3, <1>4, <1>5, <1>6, <1>7, ServeEffect

LEMMA CommandNextHolds ==
    CommandTypeOK /\ CommandInv /\ [CommandNext]_commandVars => CommandTypeOK' /\ CommandInv'
<1> SUFFICES ASSUME CommandTypeOK, CommandInv, [CommandNext]_commandVars
             PROVE  CommandTypeOK' /\ CommandInv'
    OBVIOUS
<1>1. CASE CommandOnce
      BY <1>1, CommandOnceStep
<1>2. CASE Write \/ Execute \/ GraceFires \/ GraceLooks \/ GraceKills \/ CancelArrives \/ ForgetCommand
      BY <1>2, RunStep
<1>3. CASE CancelCommand \/ \E s \in Streams : StreamBreaks(s)
      BY <1>3, BrokenStep
<1>4. ASSUME NEW s \in Streams, RunCommand(s) \/ AttachCreated(s) \/ Serve(s) \/ Receive(s)
      PROVE  CommandTypeOK' /\ CommandInv'
      BY <1>4, RunCommandStep, AttachCreatedStep, ServeStep, ReceiveStep
<1>5. CASE UNCHANGED commandVars
      BY <1>5 DEF commandVars, CommandTypeOK, CommandInv, AttemptsMade, StartedByFirst, Counted, GensDiffer,
            SentIsWritten, GraceIsOff, Tended, OutcomeTells, StreamFlows, Flows, ReceivedWhole, Listening, Serving
<1> QED BY <1>1, <1>2, <1>3, <1>4, <1>5 DEF CommandNext

LEMMA CommandIsServed == CommandTypeOK /\ CommandInv => CommandServed
<1> SUFFICES ASSUME CommandTypeOK, CommandInv PROVE CommandServed
    OBVIOUS
<1>1. RunsOnce
      BY DEF CommandInv, StartedByFirst, RunsOnce
<1>2. OutputWhole
      BY DEF CommandInv, ReceivedWhole, OutputWhole
<1>3. NoOrphan
      <2>1. command.gen = 0 \/ command.gen > 0
            BY CommandNumbers
      <2> QED BY <2>1 DEF CommandInv, Tended, NoOrphan
<1> QED BY <1>1, <1>2, <1>3 DEF CommandServed

\* A command is executed at most once however often its stream breaks, its output is put
\* together without a hole and to its end, and while it runs with nobody listening the timer
\* that kills it is on its way (RunCommand, attach, detach, execute).
THEOREM CommandsCorrect == CommandSpec => []CommandServed
<1>1. CommandInit => CommandTypeOK /\ CommandInv
      BY CommandInitHolds
<1>2. CommandTypeOK /\ CommandInv /\ [CommandNext]_commandVars => CommandTypeOK' /\ CommandInv'
      BY CommandNextHolds
<1>3. CommandTypeOK /\ CommandInv => CommandServed
      BY CommandIsServed
<1> QED BY <1>1, <1>2, <1>3, PTL DEF CommandSpec

-----------------------------------------------------------------------------
(***************************************************************************)
(* The terminals.                                                          *)
(***************************************************************************)

Sweep == [stage : {"hup", "kill"}, alive : BOOLEAN, by : {"newer", "stream", "return"}]

TerminalTypeOK ==
    /\ shell \in [TerminalStreams -> {"none", "running", "exited", "done"}]
    /\ jobs \in [TerminalStreams -> SUBSET Job]
    /\ terminalHandler \in [TerminalStreams -> {"none", "serving", "waiting", "over"}]
    /\ browser \in [TerminalStreams -> BOOLEAN]
    /\ sweeps \in [TerminalStreams -> SUBSET Sweep]
    /\ live \in TerminalStreams \cup {NoStream}

\* A handler that has returned has waited for its shell.
WaitedFor == \A s \in TerminalStreams : terminalHandler[s] = "over" => shell[s] = "done"

TerminalInv == TerminalTypeOK /\ WaitedFor /\ OneTerminal /\ NothingLeft

LEMMA TerminalInitHolds == TerminalInit => TerminalInv
<1> SUFFICES ASSUME TerminalInit PROVE TerminalInv
    OBVIOUS
<1>1. TerminalTypeOK
      BY DEF TerminalInit, TerminalTypeOK
<1>2. WaitedFor /\ OneTerminal /\ NothingLeft
      BY DEF TerminalInit, WaitedFor, OneTerminal, NothingLeft
<1> QED BY <1>1, <1>2 DEF TerminalInv

\* A sweep that begins makes its session unsettled and leaves the others as they are.
LEMMA KilledFields ==
    ASSUME NEW s \in TerminalStreams, NEW sw \in [TerminalStreams -> SUBSET Sweep],
           NEW by \in {"newer", "stream", "return"}
    PROVE  /\ Killed(s, sw, by) \in [TerminalStreams -> SUBSET Sweep]
           /\ Killed(s, sw, by)[s] # {}
           /\ \A t \in TerminalStreams \ {s} : Killed(s, sw, by)[t] = sw[t]
<1>1. [stage |-> "hup", alive |-> alive(s), by |-> by] \in Sweep
      <2>1. alive(s) \in BOOLEAN
            BY DEF alive
      <2> QED BY <2>1 DEF Sweep
<1> DEFINE w == [stage |-> "hup", alive |-> alive(s), by |-> by]
<1>2. Killed(s, sw, by) = [sw EXCEPT ![s] = sw[s] \cup {w}]
      BY DEF Killed
<1> HIDE DEF w
<1>3. w \in Sweep
      BY <1>1 DEF w
<1> QED BY <1>2, <1>3

LEMMA TtydStep ==
    ASSUME NEW s \in TerminalStreams, TerminalInv, Ttyd(s)
    PROVE  TerminalInv'
<1>1. TerminalTypeOK /\ WaitedFor /\ OneTerminal /\ NothingLeft
      BY DEF TerminalInv
<1>2. /\ terminalHandler' = [terminalHandler EXCEPT ![s] = "serving"] /\ shell' = [shell EXCEPT ![s] = "running"]
      /\ live' = s /\ sweeps' = Replace(live, sweeps) /\ UNCHANGED <<jobs, browser>>
      BY DEF Ttyd
<1>3. /\ sweeps' \in [TerminalStreams -> SUBSET Sweep]
      /\ \A t \in TerminalStreams : IF t = live THEN sweeps'[t] # {} ELSE sweeps'[t] = sweeps[t]
      <2>1. CASE live = NoStream
            BY <1>1, <1>2, <2>1, TerminalConstants DEF Replace, TerminalTypeOK, NoStream
      <2>2. CASE live # NoStream
            <3>1. live \in TerminalStreams /\ sweeps \in [TerminalStreams -> SUBSET Sweep]
                  BY <1>1, <2>2 DEF TerminalTypeOK
            <3>2. sweeps' = Killed(live, sweeps, "newer")
                  BY <1>2, <2>2 DEF Replace
            <3> QED BY <3>1, <3>2, KilledFields
      <2> QED BY <2>1, <2>2
<1>4. TerminalTypeOK'
      BY <1>1, <1>2, <1>3 DEF TerminalTypeOK
<1>5. WaitedFor'
      BY <1>1, <1>2 DEF TerminalTypeOK, WaitedFor
<1>6. OneTerminal'
      BY <1>1, <1>2, <1>3 DEF TerminalTypeOK, OneTerminal, Settled
<1>7. NothingLeft'
      BY <1>1, <1>2, <1>3 DEF TerminalTypeOK, NothingLeft, Settled
<1> QED BY <1>4, <1>5, <1>6, <1>7 DEF TerminalInv

LEMMA ShellStep ==
    ASSUME NEW s \in TerminalStreams, TerminalInv, StartJob(s) \/ ShellExits(s) \/ Wait(s) \/ Disconnect(s)
    PROVE  TerminalInv'
<1>1. TerminalTypeOK /\ WaitedFor /\ OneTerminal /\ NothingLeft
      BY DEF TerminalInv
<1>2. CASE StartJob(s)
      <2>1. PICK j \in Job : jobs' = [jobs EXCEPT ![s] = jobs[s] \cup {j}]
            BY <1>2 DEF StartJob
      <2>2. shell[s] = "running" /\ UNCHANGED <<shell, terminalHandler, browser, sweeps, live>>
            BY <1>2 DEF StartJob
      <2>3. TerminalTypeOK'
            BY <1>1, <2>1, <2>2 DEF TerminalTypeOK
      <2>4. WaitedFor' /\ OneTerminal'
            BY <1>1, <2>2 DEF WaitedFor, OneTerminal, Settled
      <2>5. NothingLeft'
            BY <1>1, <2>1, <2>2 DEF TerminalTypeOK, WaitedFor, NothingLeft, Settled
      <2> QED BY <2>3, <2>4, <2>5 DEF TerminalInv
<1>3. CASE ShellExits(s) \/ Wait(s)
      <2>1. PICK to \in {"exited", "done"} : shell' = [shell EXCEPT ![s] = to] /\ shell[s] # "done"
            BY <1>3 DEF ShellExits, Wait
      <2>2. UNCHANGED <<jobs, terminalHandler, browser, sweeps, live>>
            BY <1>3 DEF ShellExits, Wait
      <2>3. TerminalTypeOK'
            BY <1>1, <2>1, <2>2 DEF TerminalTypeOK
      <2>4. WaitedFor' /\ OneTerminal' /\ NothingLeft'
            BY <1>1, <2>1, <2>2 DEF TerminalTypeOK, WaitedFor, OneTerminal, NothingLeft, Settled
      <2> QED BY <2>3, <2>4 DEF TerminalInv
<1>4. CASE Disconnect(s)
      BY <1>1, <1>4 DEF Disconnect, TerminalInv, TerminalTypeOK, WaitedFor, OneTerminal, NothingLeft, Settled
<1> QED BY <1>2, <1>3, <1>4

LEMMA EndStep ==
    ASSUME NEW s \in TerminalStreams, TerminalInv, StreamEnds(s) \/ Return(s)
    PROVE  TerminalInv'
<1>1. TerminalTypeOK /\ WaitedFor /\ OneTerminal /\ NothingLeft
      BY DEF TerminalInv
<1>2. PICK by \in {"stream", "return"} : sweeps' = Killed(s, sweeps, by)
      BY DEF StreamEnds, Return, LastSweep
<1>3. /\ sweeps' \in [TerminalStreams -> SUBSET Sweep] /\ sweeps'[s] # {}
      /\ \A t \in TerminalStreams \ {s} : sweeps'[t] = sweeps[t]
      BY <1>1, <1>2, KilledFields DEF TerminalTypeOK
<1>4. UNCHANGED <<shell, jobs, browser>>
      BY DEF StreamEnds, Return
<1>5. /\ terminalHandler' \in [TerminalStreams -> {"none", "serving", "waiting", "over"}]
      /\ terminalHandler'[s] = "over" => shell[s] = "done"
      /\ \A t \in TerminalStreams \ {s} : terminalHandler'[t] = terminalHandler[t]
      <2>1. terminalHandler \in [TerminalStreams -> {"none", "serving", "waiting", "over"}]
            BY <1>1 DEF TerminalTypeOK
      <2>2. CASE StreamEnds(s)
            BY <2>1, <2>2 DEF StreamEnds
      <2>3. CASE Return(s)
            BY <2>1, <2>3 DEF Return
      <2> QED BY <2>2, <2>3
<1>6. live' = live \/ (live = s /\ live' = NoStream)
      BY DEF StreamEnds, Return, Removed
<1>7. TerminalTypeOK'
      BY <1>1, <1>3, <1>4, <1>6, <1>5 DEF TerminalTypeOK
<1>8. WaitedFor'
      BY <1>1, <1>4, <1>5 DEF WaitedFor
<1>9. OneTerminal'
      BY <1>1, <1>3, <1>4, <1>6 DEF OneTerminal, Settled
<1>10. NothingLeft'
       BY <1>1, <1>3, <1>4, <1>5 DEF NothingLeft, Settled
<1> QED BY <1>7, <1>8, <1>9, <1>10 DEF TerminalInv

LEMMA HupStep ==
    ASSUME NEW s \in TerminalStreams, NEW w \in sweeps[s], TerminalInv, Hup(s, w)
    PROVE  TerminalInv'
<1>1. TerminalTypeOK /\ WaitedFor /\ OneTerminal /\ NothingLeft
      BY DEF TerminalInv
<1>2. UNCHANGED <<terminalHandler, browser, live>>
      BY DEF Hup
<1>3. /\ jobs' = [jobs EXCEPT ![s] = {j \in jobs[s] : j \notin Members(s, w.alive) \/ j.stubborn}]
      BY DEF Hup
<1>4. shell' = shell \/ (shell[s] = "running" /\ shell' = [shell EXCEPT ![s] = "exited"])
      <2>1. PICK ends \in BOOLEAN :
               shell' = [shell EXCEPT ![s] = IF w.alive /\ shell[s] = "running" /\ ends THEN "exited" ELSE shell[s]]
            BY DEF Hup
      <2> QED BY <1>1, <2>1 DEF TerminalTypeOK
<1>5. PICK v : v = [w EXCEPT !.stage = "kill"]
      OBVIOUS
<1>6. sweeps' = [sweeps EXCEPT ![s] = (sweeps[s] \ {w}) \cup {v}]
      BY <1>5 DEF Hup
<1>7. v \in Sweep
      BY <1>1, <1>5 DEF TerminalTypeOK, Sweep
<1>8. /\ sweeps' \in [TerminalStreams -> SUBSET Sweep] /\ sweeps'[s] # {}
      /\ \A t \in TerminalStreams \ {s} : sweeps'[t] = sweeps[t]
      BY <1>1, <1>6, <1>7 DEF TerminalTypeOK
<1>9. TerminalTypeOK'
      BY <1>1, <1>2, <1>3, <1>4, <1>8 DEF TerminalTypeOK
<1>10. WaitedFor' /\ OneTerminal'
       BY <1>1, <1>2, <1>4, <1>8 DEF TerminalTypeOK, WaitedFor, OneTerminal, Settled
<1>11. NothingLeft'
       BY <1>1, <1>2, <1>3, <1>8 DEF TerminalTypeOK, NothingLeft, Settled
<1> QED BY <1>9, <1>10, <1>11 DEF TerminalInv

LEMMA KillStep ==
    ASSUME NEW s \in TerminalStreams, NEW w \in sweeps[s], TerminalInv, Kill(s, w)
    PROVE  TerminalInv'
<1>1. TerminalTypeOK /\ WaitedFor /\ OneTerminal /\ NothingLeft
      BY DEF TerminalInv
<1>2. UNCHANGED <<terminalHandler, browser, live>>
      BY DEF Kill
<1>3. /\ jobs' = [jobs EXCEPT ![s] = {j \in jobs[s] : j \notin Members(s, alive(s))}]
      /\ sweeps' = [sweeps EXCEPT ![s] = sweeps[s] \ {w}]
      /\ shell' = [shell EXCEPT ![s] = IF shell[s] = "running" THEN "exited" ELSE shell[s]]
      BY DEF Kill
<1>4. TerminalTypeOK'
      BY <1>1, <1>2, <1>3 DEF TerminalTypeOK
<1>5. WaitedFor' /\ OneTerminal'
      BY <1>1, <1>2, <1>3 DEF TerminalTypeOK, WaitedFor, OneTerminal, Settled
<1>6. NothingLeft'
      <2>1. \A j \in jobs'[s] : ~j.marked
            BY <1>1, <1>3 DEF TerminalTypeOK, Members
      <2> QED BY <1>1, <1>2, <1>3, <2>1 DEF TerminalTypeOK, NothingLeft, Settled
<1> QED BY <1>4, <1>5, <1>6 DEF TerminalInv

\* A shell that runs and is not being swept is the one its key belongs to, and a session that
\* is over and swept leaves no marked process behind (Ttyd, replace, remove, kill).
THEOREM TerminalsCorrect == TerminalSpec => []TerminalsSwept
<1>1. TerminalInit => TerminalInv
      BY TerminalInitHolds
<1>2. TerminalInv /\ [TerminalNext]_terminalVars => TerminalInv'
      <2> SUFFICES ASSUME TerminalInv, [TerminalNext]_terminalVars PROVE TerminalInv'
          OBVIOUS
      <2>1. CASE UNCHANGED terminalVars
            BY <2>1 DEF terminalVars, TerminalInv, TerminalTypeOK, WaitedFor, OneTerminal, NothingLeft, Settled
      <2> QED BY <2>1, TtydStep, ShellStep, EndStep, HupStep, KillStep DEF TerminalNext
<1>3. TerminalInv => TerminalsSwept
      BY DEF TerminalInv, TerminalsSwept
<1> QED BY <1>1, <1>2, <1>3, PTL DEF TerminalSpec

-----------------------------------------------------------------------------
\* What the runner does for the backend is done once and to its end: the three services side
\* by side (idemCache.do, RunCommand, attach, kill).
THEOREM ServicesCorrect == ServicesSpec => []ServedOnce
<1>1. RequestsServed /\ CommandServed /\ TerminalsSwept => ServedOnce
      BY DEF ServedOnce
<1> QED BY <1>1, RequestsCorrect, CommandsCorrect, TerminalsCorrect, PTL DEF ServicesSpec
=============================================================================
