------------------------------ MODULE Accounts ------------------------------
(***************************************************************************)
(* The accounts of a command line agent: what is left of each, and the     *)
(* sessions that follow a run from one account to the next.                *)
(***************************************************************************)
EXTENDS Naturals, Sequences, FiniteSets, FiniteSetsExt

-----------------------------------------------------------------------------
(***************************************************************************)
(* Which account of a command line agent a run uses (account_select.go):   *)
(* chooseAccount asks the accounts in order for their quota, through a     *)
(* cache whose entries live shorter when the query failed and whose        *)
(* fetches are shared by all who ask at the same time.  Accounts are       *)
(* numbered in the sorted order of their aliases; a usage entry of the     *)
(* model asked for is its verdict and its refresh date (0: unknown).       *)
(***************************************************************************)

CONSTANTS
    MaxAccount,  \* accounts 1 .. MaxAccount
    Choosers,    \* runs that choose an account
    TTL, ErrTTL, \* accountQuotaTTL, accountQuotaErrTTL
    MaxRefresh,  \* bound on refresh dates
    MaxNow       \* bound on the clock

VARIABLES
    now,
    entries,   \* account -> the cached answer, with when it was got and expires
    chooser    \* run -> [phase, at (the account asked), got, choice, asked]

quotaVars == <<now, entries, chooser>>

Accounts == 1 .. MaxAccount
Usages == {[usable |-> TRUE, refresh |-> 0]} \cup [usable: {FALSE}, refresh: 0 .. MaxRefresh]
Answers == {[ok |-> FALSE, usages |-> {}]} \cup
           {[ok |-> TRUE, usages |-> u] : u \in {v \in SUBSET Usages : Cardinality(v) <= 2}}

Unasked == [ok |-> FALSE, usages |-> {}, got |-> 0, expires |-> 0]
Idle == [phase |-> "idle", at |-> 1, choice |-> 0, answers |-> [a \in {} |-> Unasked]]

QuotaInit ==
    /\ now = 1
    /\ entries = [a \in Accounts |-> Unasked]
    /\ chooser = [c \in Choosers |-> Idle]

(* modelAvailability: no entry for the model counts as available. *)
Available(answer) == answer.usages = {} \/ \E u \in answer.usages : u.usable
Refresh(answer) ==
    LET known == {u.refresh : u \in answer.usages} \ {0}
    IN  IF known = {} THEN 0 ELSE Min(known)

RefreshDate(answer) == IF Refresh(answer) = 0 THEN MaxRefresh + 1 ELSE Refresh(answer)

Asking(a) == {c \in Choosers : chooser[c].phase \in {"fetching", "waiting"} /\ chooser[c].at = a}
Fetching(a) == {c \in Asking(a) : chooser[c].phase = "fetching"}

------------------------------------------------------------------------------

(* The loop of chooseAccount ends with the first account available; after  *)
(* the last one it falls back to the first account if a query failed, else *)
(* to the account that refreshes first.                                    *)
Chosen(answers) ==
    LET Failed == {a \in DOMAIN answers : ~answers[a].ok}
        Dated == {<<RefreshDate(answers[a]), a>> : a \in DOMAIN answers}
    IN  IF Failed # {} THEN 1
        ELSE CHOOSE a \in DOMAIN answers : \A d \in Dated :
                 RefreshDate(answers[a]) < d[1] \/ (RefreshDate(answers[a]) = d[1] /\ a <= d[2])

Ends(c, answer) == answer.ok /\ Available(answer)

Took(c, answer) ==
    LET answers == [a \in DOMAIN chooser[c].answers \cup {chooser[c].at} |->
                       IF a = chooser[c].at THEN answer ELSE chooser[c].answers[a]]
    IN  CASE Ends(c, answer) ->
              [phase |-> "done", at |-> chooser[c].at, choice |-> chooser[c].at, answers |-> answers]
          [] ~Ends(c, answer) /\ chooser[c].at < MaxAccount ->
              [phase |-> "asking", at |-> chooser[c].at + 1, choice |-> 0, answers |-> answers]
          [] OTHER ->
              [phase |-> "done", at |-> chooser[c].at, choice |-> Chosen(answers), answers |-> answers]

QuotaStart(c) ==
    /\ chooser[c].phase \in {"idle", "done"}
    /\ chooser' = [chooser EXCEPT ![c] = [Idle EXCEPT !.phase = "asking"]]
    /\ UNCHANGED <<now, entries>>

Fresh(a) == now < entries[a].expires

(* cachedAccountQuota: a cached answer is taken. *)
Hit(c) ==
    /\ chooser[c].phase = "asking" /\ Fresh(chooser[c].at)
    /\ chooser' = [chooser EXCEPT ![c] = Took(c, entries[chooser[c].at])]
    /\ UNCHANGED <<now, entries>>

MayFetch(a) == Fetching(a) = {}

(* Otherwise the caller joins the fetch under way or begins one.           *)
Miss(c) ==
    /\ chooser[c].phase = "asking" /\ ~Fresh(chooser[c].at)
    /\ chooser' = [chooser EXCEPT ![c].phase = IF MayFetch(chooser[c].at) THEN "fetching" ELSE "waiting"]
    /\ UNCHANGED <<now, entries>>

TimeToLive(answer) == IF answer.ok THEN TTL ELSE ErrTTL

(* The fetch ends: the answer is cached and handed to all who wait.        *)
Fetched(c) ==
    /\ chooser[c].phase = "fetching"
    /\ \E answer \in Answers :
        LET entry == [ok |-> answer.ok, usages |-> answer.usages, got |-> now,
                      expires |-> now + TimeToLive(answer)]
        IN  /\ entries' = [entries EXCEPT ![chooser[c].at] = entry]
            /\ chooser' = [d \in Choosers |-> IF d \in Asking(chooser[c].at)
                                              THEN Took(d, entry) ELSE chooser[d]]
    /\ UNCHANGED now

Tick ==
    /\ now < MaxNow
    /\ now' = now + 1
    /\ UNCHANGED <<entries, chooser>>

QuotaNext == Tick \/ \E c \in Choosers : QuotaStart(c) \/ Hit(c) \/ Miss(c) \/ Fetched(c)

QuotaSpec == QuotaInit /\ [][QuotaNext]_quotaVars

------------------------------------------------------------------------------

QuotaTypeOK ==
    /\ now \in 1 .. MaxNow
    /\ \A c \in Choosers : chooser[c].phase \in {"idle", "asking", "fetching", "waiting", "done"}

(* Accounts are fetched once for all concurrent callers.                   *)
OneFetch == \A a \in Accounts : Cardinality(Fetching(a)) <= 1

(* The strategy: the run uses the first account in order that says it has  *)
(* quota; an account that could not be asked is never preferred to one     *)
(* that could; with none available the earliest refresh wins, or the first *)
(* account if a query failed.                                              *)
FollowsStrategy ==
    \A c \in Choosers : chooser[c].phase = "done" =>
        LET said == chooser[c].answers
            has == {a \in DOMAIN said : said[a].ok /\ Available(said[a])}
            pick == chooser[c].choice
        IN  IF has # {} THEN pick \in has /\ \A a \in has : pick <= a
            ELSE /\ DOMAIN said = Accounts
                 /\ (\E a \in Accounts : ~said[a].ok) => pick = 1
                 /\ (\A a \in Accounts : said[a].ok) =>
                       \A a \in Accounts :
                          Refresh(said[pick]) # 0 \/ Refresh(said[a]) = 0
                 /\ (\A a \in Accounts : said[a].ok) =>
                       \A a \in Accounts : Refresh(said[a]) # 0 =>
                          Refresh(said[pick]) <= Refresh(said[a])

(* An answer is used only while it lives: a quota for at most TTL, a       *)
(* failure for at most ErrTTL, so that a repaired account is asked again.  *)
AnswersLive ==
    [][\A c \in Choosers :
        LET a == chooser[c].at IN
        (chooser[c].phase = "asking" /\ a \in DOMAIN chooser'[c].answers) =>
            now - chooser'[c].answers[a].got
                < IF chooser'[c].answers[a].ok THEN TTL ELSE ErrTTL]_quotaVars

-----------------------------------------------------------------------------
(***************************************************************************)
(* A claude session that moves between accounts.  Each run of a chat may   *)
(* use another account, and claude keeps a session in the account's        *)
(* directory: an append-only jsonl file and ancillary files (todos, file   *)
(* history).  Before a run, relayClaudeSession looks for the account with  *)
(* the newest copy (FindClaudeSession) and copies it into the account that *)
(* was chosen (CopyClaudeSession); a failure or crash in between leaves    *)
(* the accounts as they are, and the next run tries again.                 *)
(***************************************************************************)

CONSTANTS
    MaxRelayAccount,  \* accounts 1 .. MaxAccount, in the order of their aliases
    MaxTurns,    \* bound on turns written to the session
    MaxSize,     \* sizes of an ancillary file
    MaxFailures  \* bound on relays that fail or crash half way

VARIABLES
    jsonl,     \* account -> [turns, mtime]
    ancillary, \* account -> [version, size]; version 0: no file
    relay,     \* the run: [phase, chosen, holder]
    history,   \* the turns of all runs, in order
    time, failed

relayVars == <<jsonl, ancillary, relay, history, time, failed>>

RelayAccounts == 1 .. MaxRelayAccount
NoRun == [phase |-> "idle", chosen |-> 0, holder |-> 0]

RelayInit ==
    /\ jsonl = [a \in RelayAccounts |-> [turns |-> <<>>, mtime |-> 0]]
    /\ ancillary = [a \in RelayAccounts |-> [version |-> 0, size |-> 0]]
    /\ relay = NoRun
    /\ history = <<>>
    /\ time = 0 /\ failed = 0

Size(a) == Len(jsonl[a].turns)
Holders == {a \in RelayAccounts : Size(a) > 0}

------------------------------------------------------------------------------

(* A run is given an account; the first one has no session to relay.       *)
StartTurn ==
    /\ relay = NoRun
    /\ \E a \in RelayAccounts :
        relay' = [phase |-> IF history = <<>> THEN "running" ELSE "find",
                  chosen |-> a, holder |-> 0]
    /\ UNCHANGED <<jsonl, ancillary, history, time, failed>>

Newer(a, b) == Size(a) > Size(b) \/ (Size(a) = Size(b) /\ jsonl[a].mtime > jsonl[b].mtime)

(* The order of CopyClaudeSession. *)
After(step) ==
    CASE step = "find" -> "ancillary" [] step = "ancillary" -> "jsonl" [] step = "jsonl" -> "running"

(* FindClaudeSession, and no copy when the chosen account has the newest.  *)
FindClaudeSession ==
    /\ relay.phase = "find"
    /\ LET best == CHOOSE a \in Holders : \A b \in Holders :
                       Newer(a, b) \/ (~Newer(b, a) /\ a <= b)
       IN  relay' = IF Holders = {} \/ best = relay.chosen
                    THEN [relay EXCEPT !.phase = "running"]
                    ELSE [relay EXCEPT !.phase = After("find"), !.holder = best]
    /\ UNCHANGED <<jsonl, ancillary, history, time, failed>>

(* copySessionFile of the ancillary files: one that is at least as large   *)
(* as the source stays.                                                    *)
CopyAncillary ==
    /\ relay.phase = "ancillary"
    /\ LET src == ancillary[relay.holder]
           dst == ancillary[relay.chosen]
       IN  ancillary' = [ancillary EXCEPT ![relay.chosen] = IF dst.size >= src.size THEN dst ELSE src]
    /\ relay' = [relay EXCEPT !.phase = After("ancillary")]
    /\ UNCHANGED <<jsonl, history, time, failed>>

Keeps(dst, src) == dst >= src

(* copySessionFile of the jsonl file: written aside and renamed.           *)
CopyJsonl ==
    /\ relay.phase = "jsonl"
    /\ IF Keeps(Size(relay.chosen), Size(relay.holder))
       THEN UNCHANGED <<jsonl, time>>
       ELSE /\ time' = time + 1
            /\ jsonl' = [jsonl EXCEPT ![relay.chosen] =
                             [turns |-> jsonl[relay.holder].turns, mtime |-> time']]
    /\ relay' = [relay EXCEPT !.phase = After("jsonl")]
    /\ UNCHANGED <<ancillary, history, failed>>

(* A copy fails, or the process dies: the run does not take place.  It may *)
(* die after the rename as well.                                           *)
Fail ==
    /\ relay.phase \in {"find", "ancillary", "jsonl", "running"} /\ failed < MaxFailures
    /\ failed' = failed + 1
    /\ relay' = NoRun
    /\ UNCHANGED <<jsonl, ancillary, history, time>>

(* claude appends a turn and rewrites the ancillary files. *)
Turn ==
    /\ relay.phase = "running" /\ Len(history) < MaxTurns
    /\ time' = time + 1
    /\ history' = Append(history, Len(history) + 1)
    /\ jsonl' = [jsonl EXCEPT ![relay.chosen] =
                    [turns |-> Append(@.turns, Len(history) + 1), mtime |-> time']]
    /\ \E s \in 1 .. MaxSize :
        ancillary' = [ancillary EXCEPT ![relay.chosen] = [version |-> Len(history) + 1, size |-> s]]
    /\ UNCHANGED <<relay, failed>>

End ==
    /\ relay.phase = "running"
    /\ relay' = NoRun
    /\ UNCHANGED <<jsonl, ancillary, history, time, failed>>

RelayNext == StartTurn \/ FindClaudeSession \/ CopyAncillary \/ CopyJsonl \/ Fail \/ Turn \/ End

RelaySpec == RelayInit /\ [][RelayNext]_relayVars

------------------------------------------------------------------------------

RelayTypeOK ==
    /\ relay.phase \in {"idle", "find", "ancillary", "jsonl", "running"}
    /\ relay.chosen \in 0 .. MaxRelayAccount /\ relay.holder \in 0 .. MaxRelayAccount
    /\ failed \in 0 .. MaxFailures

(* A run continues the whole session: whatever accounts the runs before it *)
(* used, and wherever a relay was cut off, the account of a run has each   *)
(* turn of the session once and in order.                                  *)
HistoryWhole == relay.phase = "running" => jsonl[relay.chosen].turns = history

(* A relay that was cut off never makes a retry skip the ancillary files:  *)
(* an account a session continues in has them.                             *)
AncillaryThere ==
    (relay.phase = "running" /\ history # <<>>) => ancillary[relay.chosen].version > 0

(* The ancillary files are those of the newest copy: only a jsonl file     *)
(* that is at least as large is kept (the comment on CopyClaudeSession).   *)
AncillaryCurrent ==
    (relay.phase = "running" /\ history # <<>>) => ancillary[relay.chosen].version = Len(history)
=============================================================================
