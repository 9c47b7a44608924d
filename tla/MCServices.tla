---------------------------- MODULE MCServices ----------------------------
(***************************************************************************)
(* The services of the backend and its own agent, model-checked side by    *)
(* side.  Each part is checked on an instance of its own: focus names the  *)
(* one a behaviour is about, the variables of the others are Off, or stay  *)
(* as they start.                                                          *)
(***************************************************************************)
EXTENDS EventHub, AgentCalls, Cleanup, TLC

VARIABLES
    focus,
    line, row, asker, replying, reset, pending, lock, runner, askClock, boot,
    askFaults, said, stale, askSince, retired,
    sessionRow, rowLock, tx, mutex, rowLines, last, bindings, deleted,
    up, upAt, authSince, authClock, discovered, discoveryFailed, probe,
    flight, req, gaveUp,
    time, states, cookie, logins, answered,
    img, meta, failure, avatarClock, avatarRequest, flights, profiles, broken,
    role, etcd, snap, files, built, global, loadErr, agentsDisk, accepted,
    handed, proc, registered, reloading, serving, jobs, changes,
    main, opened, tree, conf, pm, hub, conn, change, stop, server, cancelled,
    keys, mounted, keysMu, save, shown, keysAcked, keyFaults,
    ruleFile, proxyMounted, rules, hostFilter, confProxy, admin, requests,
    saved, inPlace,
    simplestDisk, loop, stream, simplestRequest, budget,
    exists, sessionLines, terminated, lockedBy, session, entryIds,
    sessionFaults, sessionAcked,
    wire, supportsImage, gemini3, context, turns, items,
    frames, style, optional, attempt, phase, content, open, toolAt, toolById,
    sent, finish, terminal

Off == "off"

-----------------------------------------------------------------------------
(* EventHub, AgentCalls and Cleanup are extended, not instantiated: their  *)
(* own properties are checked in every behaviour.                          *)

\* Newer gives what the loop of Subscribe sends of the events a topic holds:
\* those after the last one the browser has had.
ASSUME NewerIsLoop ==
    \A first \in 1 .. 3, n \in 0 .. 3, had \in 0 .. 6 :
        LET ring == [i \in 1 .. n |-> Event(first + i - 1)]
            t == [events |-> ring, next |-> first + n - 1, start |-> first - 1]
        IN  Newer(t, had) = SelectSeq(ring, LAMBDA ev : ev.id > had)

-----------------------------------------------------------------------------
ChatSession == INSTANCE ChatSession WITH
    Agents <- {"a"}, Others <- {"a"}, NameOf <- [a \in {"a"} |-> a],
    MaxClock <- 2, MaxFaults <- 2, Writers <- {"1", "2", "3"},
    ChatAgents <- {"a"}, StartsThere <- TRUE, clock <- askClock,
    faults <- askFaults, since <- askSince, lines <- rowLines
askAll == <<line, row, asker, replying, reset, pending, lock, runner,
            askClock, boot, askFaults, said, stale, askSince, retired>>
AskInit == ChatSession!AskInit /\ (focus = "ask" \/ ~row.suspended)

rowAll == <<sessionRow, rowLock, tx, mutex, rowLines, last, bindings, deleted>>
RowInit ==
    IF focus = "row" THEN ChatSession!RowInit
    ELSE sessionRow = Off /\ rowLock = Off /\ tx = Off /\ mutex = Off /\
         rowLines = Off /\ last = Off /\ bindings = Off /\ deleted = Off

\* The record of a chat is one the code's writers agree on: a retirement
\* leaves none of its questions open and spares those somebody waits for,
\* over crashes and failures; the flag tells whether a question is open; and
\* no writer of the row undoes what another has committed
\* (resetQuotaSuspension, AppendMessage, BindRunner).
ChatRecordAgrees ==
    /\ [](focus = "ask" => /\ ChatSession!Converges
                           /\ ChatSession!FlagAgrees)
    /\ [](focus = "row" => /\ ChatSession!NoLostUpdate
                           /\ ChatSession!CountsTranscript
                           /\ ChatSession!BindersAgree)
    /\ ChatSession!LiveUntouched
    /\ ChatSession!AgentsReleased

-----------------------------------------------------------------------------
SignIn == INSTANCE SignIn WITH
    Requests <- {"r1", "r2"}, RetryInterval <- 2, SuccessTTL <- 1,
    FailureTTL <- 2, MaxClock <- 2, Browsers <- {"b1", "b2"}, MaxPending <- 2,
    Lifetime <- 2, MaxLogins <- 4, MaxTime <- 4,
    ProfileRequests <- {"r1", "r2"}, Pictures <- {"p", "q"},
    FetchFailureTTL <- 1, MaxAvatarClock <- 1, MaxProfiles <- 4,
    since <- authSince, clock <- authClock, request <- avatarRequest
authAll == <<up, upAt, authSince, authClock, discovered, discoveryFailed,
             gaveUp, probe, flight, req>>
AuthInit == SignIn!AuthInit /\ (focus = "auth" \/ up)

loginAll == <<time, states, cookie, logins, answered>>
LoginInit ==
    IF focus = "login" THEN SignIn!LoginInit
    ELSE time = Off /\ states = Off /\ cookie = Off /\ logins = Off /\
         answered = Off

avatarAll == <<img, meta, failure, avatarClock, avatarRequest, flights,
               profiles, broken>>
AvatarInit ==
    IF focus = "avatar" THEN SignIn!AvatarInit
    ELSE img = Off /\ meta = Off /\ failure = Off /\ avatarClock = Off /\
         avatarRequest = Off /\ flights = Off /\ profiles = Off /\
         broken = Off

\* An outage of the provider logs nobody out and is over when it is; a login
\* is completed once, in the browser that began it, and dropped early only
\* for younger ones; a picture is fetched once and the sidecar names what the
\* image shows (verifyToken, cachedProbe, handleCallback, addState,
\* avatarStore).
SignInHolds ==
    /\ [](focus = "login" => /\ SignIn!LoginIsBound
                             /\ SignIn!YoungestKept)
    /\ [](focus = "avatar" => /\ SignIn!MetaTellsImage
                              /\ SignIn!FetchedOnce)
    /\ SignIn!OutageKeepsSessions
    /\ SignIn!RecoversInTime

-----------------------------------------------------------------------------
KeyPayloads == {"linux" :> <<"option", "a">>, "linux" :> <<"esc", "ctrl">>, "linux" :> <<"a", "esc">>,
                "mac" :> <<"absent">>, ("linux" :> <<>>) @@ ("mac" :> <<"Ctrl", "zz">>),
                ("linux" :> <<>>) @@ ("mac" :> <<"ctrl", "Alt", "escape">>)}

Store == INSTANCE AgentStore WITH
    MaxVersion <- 3, MaxChanges <- 3, disk <- agentsDisk
App == INSTANCE AppLifecycle WITH
    Nodes <- {"n"}, MaxTries <- 1, MaxChanges <- 1
Settings == INSTANCE Settings WITH
    Saves <- {"s1", "s2"}, Readers <- {"r"}, Systems <- {"linux", "mac"},
    Payloads <- KeyPayloads, MaxFaults <- 1, acked <- keysAcked,
    Admins <- {"a1", "a2"}, Texts <- {"t1", "off"}, Hostless <- {"off"},
    First <- "t0", MaxRequests <- 4
storeAll == <<role, etcd, snap, files, built, global, loadErr, agentsDisk,
              accepted, handed, proc, registered, reloading, serving, jobs,
              changes>>
StoreInit ==
    IF focus = "agents" THEN Store!Init
    ELSE role = Off /\ etcd = Off /\ snap = Off /\ files = Off /\
         built = Off /\ global = Off /\ loadErr = Off /\ agentsDisk = Off /\
         accepted = Off /\ handed = Off /\ proc = Off /\ registered = Off /\
         reloading = Off /\ serving = Off /\ jobs = Off /\ changes = Off

appAll == <<main, opened, tree, conf, pm, hub, conn, change, stop, server,
            cancelled>>
AppInit ==
    IF focus = "app" THEN App!Init
    ELSE main = Off /\ opened = Off /\ tree = Off /\ conf = Off /\ pm = Off /\
         hub = Off /\ conn = Off /\ change = Off /\ stop = Off /\
         server = Off /\ cancelled = Off

keysAll == <<keys, mounted, keysMu, save, shown, keysAcked, keyFaults>>
KeysInit ==
    IF focus = "keys" THEN Settings!KeysInit
    ELSE keys = Off /\ mounted = Off /\ keysMu = Off /\ save = Off /\
         shown = Off /\ keysAcked = Off /\ keyFaults = Off

proxyAll == <<ruleFile, proxyMounted, rules, hostFilter, confProxy, admin,
              requests, saved, inPlace>>
ProxyInit ==
    IF focus = "proxy" THEN Settings!ProxyInit
    ELSE ruleFile = Off /\ proxyMounted = Off /\ rules = Off /\
         hostFilter = Off /\ confProxy = Off /\ admin = Off /\
         requests = Off /\ saved = Off /\ inPlace = Off

\* What was set is what is served: definitions of agents, a configuration
\* changed during the start, key bindings and proxy rules saved at once; and
\* a failed or ended application leaves nothing open (AgentStore, app.New,
\* manage_handler.go).
SettingsTakeEffect ==
    /\ focus = "agents" =>
            /\ Store!ServedReadable
            /\ Store!BackendUpToDate
    /\ focus = "app" =>
            /\ App!NothingLeftOpen
            /\ App!ChangesApply
    /\ focus = "keys" =>
            /\ Settings!AckedStay
            /\ Settings!ShownWhole
            /\ Settings!OneSpelling
    /\ focus = "proxy" =>
            /\ Settings!ProxyKeepsHosts
            /\ Settings!RunsWhatWasSaved

-----------------------------------------------------------------------------
Agent == INSTANCE SimplestAgent WITH
    MaxPrompts <- 2, MaxReplies <- 2, MaxCalls <- 2, MaxSteering <- 1,
    MaxKills <- 1, disk <- simplestDisk, request <- simplestRequest,
    Processes <- {"p", "q"}, MaxEntries <- 3, MaxWriteFaults <- 1,
    MaxOpens <- 1, lines <- sessionLines, faults <- sessionFaults,
    acked <- sessionAcked
agentAll == <<simplestDisk, loop, stream, simplestRequest, budget>>
AgentInit ==
    IF focus = "simplest" THEN Agent!AgentInit
    ELSE simplestDisk = Off /\ loop = Off /\ stream = Off /\
         simplestRequest = Off /\ budget = Off

sessionFileAll == <<exists, sessionLines, terminated, lockedBy, session,
                    entryIds, sessionFaults, sessionAcked>>
SessionFileInit == Agent!SessionInit

\* However a run of the built-in agent ends, its stream of turns is balanced
\* and in every request each call has one result, right behind it; and what
\* it reported as persisted stays in the file, on the path another process
\* loads (emitTerminalTurn, buildContextFromEntries, appendLocked,
\* persistLocked).
TurnsKept ==
    /\ [](focus = "simplest" => /\ Agent!StreamBalanced
                                /\ Agent!ResultsFollowCalls
                                /\ Agent!EveryCallAnswered)
    /\ [](focus = "session" => Agent!PathSurvives)
    /\ Agent!AckedStays

-----------------------------------------------------------------------------
Provider == INSTANCE Provider WITH
    MaxTurns <- 2, MaxBlocks <- 2, MaxRetries <- 1, MaxFragments <- 3,
    MaxStreamBlocks <- 3
providerAll == <<wire, supportsImage, gemini3, context, turns, items>>
ProviderInit ==
    IF focus = "provider" THEN Provider!RequestInit
    ELSE wire = Off /\ supportsImage = Off /\ gemini3 = Off /\
         context = Off /\ turns = Off /\ items = Off

streamAll == <<frames, style, optional, attempt, phase, content, open, toolAt,
               toolById, sent, finish, terminal>>
StreamInit ==
    IF focus = "stream" THEN Provider!StreamInit
    ELSE frames = Off /\ style = Off /\ optional = Off /\ attempt = Off /\
         phase = Off /\ content = Off /\ open = Off /\ toolAt = Off /\
         toolById = Off /\ sent = Off /\ finish = Off /\ terminal = Off

\* A model is sent each result right after its call and only its own
\* reasoning, and an answer is one attempt's: whole calls, fragments with
\* their block, blocks ended (ConvertMessages, Stream, orSlot).
ConversationFaithful ==
    /\ focus = "provider" =>
            /\ Provider!ResultsFollowCalls
            /\ Provider!ImagesAsSupported
            /\ Provider!TurnsReplayed
    /\ focus = "stream" =>
            /\ Provider!FragmentsTogether
            /\ Provider!ToolUseIsWhole
            /\ Provider!OneAttempt
            /\ Provider!BlocksEnded

-----------------------------------------------------------------------------
Init ==
    /\ focus \in {"hub", "callbacks", "peers", "ask", "row", "cleanup",
               "auth", "login", "avatar", "agents", "app", "keys", "proxy",
               "simplest", "session", "provider", "stream"}
    /\ HubInit /\ CallbacksInit /\ PeersInit /\ AskInit /\ RowInit
    /\ CleanupInit /\ AuthInit /\ LoginInit /\ AvatarInit /\ StoreInit
    /\ AppInit /\ KeysInit /\ ProxyInit /\ AgentInit /\ SessionFileInit
    /\ ProviderInit /\ StreamInit

HubStep ==
    /\ focus = "hub" /\ HubNext
    /\ UNCHANGED <<focus, callbackVars, peerVars, askAll, rowAll, cleanupVars,
                   authAll, loginAll, avatarAll, storeAll, appAll, keysAll,
                   proxyAll, agentAll, sessionFileAll, providerAll, streamAll>>

CallbacksStep ==
    /\ focus = "callbacks" /\ CallbacksNext
    /\ UNCHANGED <<focus, hubVars, peerVars, askAll, rowAll, cleanupVars,
                   authAll, loginAll, avatarAll, storeAll, appAll, keysAll,
                   proxyAll, agentAll, sessionFileAll, providerAll, streamAll>>

PeersStep ==
    /\ focus = "peers" /\ PeersNext
    /\ UNCHANGED <<focus, hubVars, callbackVars, askAll, rowAll, cleanupVars,
                   authAll, loginAll, avatarAll, storeAll, appAll, keysAll,
                   proxyAll, agentAll, sessionFileAll, providerAll, streamAll>>

AskStep ==
    /\ focus = "ask" /\ ChatSession!AskNext
    /\ UNCHANGED <<focus, hubVars, callbackVars, peerVars, rowAll, cleanupVars,
                   authAll, loginAll, avatarAll, storeAll, appAll, keysAll,
                   proxyAll, agentAll, sessionFileAll, providerAll, streamAll>>

RowStep ==
    /\ focus = "row" /\ ChatSession!RowNext
    /\ UNCHANGED <<focus, hubVars, callbackVars, peerVars, askAll, cleanupVars,
                   authAll, loginAll, avatarAll, storeAll, appAll, keysAll,
                   proxyAll, agentAll, sessionFileAll, providerAll, streamAll>>

CleanupStep ==
    /\ focus = "cleanup" /\ CleanupNext
    /\ UNCHANGED <<focus, hubVars, callbackVars, peerVars, askAll, rowAll,
                   authAll, loginAll, avatarAll, storeAll, appAll, keysAll,
                   proxyAll, agentAll, sessionFileAll, providerAll, streamAll>>

AuthStep ==
    /\ focus = "auth" /\ SignIn!AuthNext
    /\ UNCHANGED <<focus, hubVars, callbackVars, peerVars, askAll, rowAll,
                   cleanupVars, loginAll, avatarAll, storeAll, appAll, keysAll,
                   proxyAll, agentAll, sessionFileAll, providerAll, streamAll>>

LoginStep ==
    /\ focus = "login" /\ SignIn!LoginNext
    /\ UNCHANGED <<focus, hubVars, callbackVars, peerVars, askAll, rowAll,
                   cleanupVars, authAll, avatarAll, storeAll, appAll, keysAll,
                   proxyAll, agentAll, sessionFileAll, providerAll, streamAll>>

AvatarStep ==
    /\ focus = "avatar" /\ SignIn!AvatarNext
    /\ UNCHANGED <<focus, hubVars, callbackVars, peerVars, askAll, rowAll,
                   cleanupVars, authAll, loginAll, storeAll, appAll, keysAll,
                   proxyAll, agentAll, sessionFileAll, providerAll, streamAll>>

StoreStep ==
    /\ focus = "agents" /\ Store!Next
    /\ UNCHANGED <<focus, hubVars, callbackVars, peerVars, askAll, rowAll,
                   cleanupVars, authAll, loginAll, avatarAll, appAll, keysAll,
                   proxyAll, agentAll, sessionFileAll, providerAll, streamAll>>

AppStep ==
    /\ focus = "app" /\ App!Next
    /\ UNCHANGED <<focus, hubVars, callbackVars, peerVars, askAll, rowAll,
                   cleanupVars, authAll, loginAll, avatarAll, storeAll,
                   keysAll, proxyAll, agentAll, sessionFileAll, providerAll,
                   streamAll>>

KeysStep ==
    /\ focus = "keys" /\ Settings!KeysNext
    /\ UNCHANGED <<focus, hubVars, callbackVars, peerVars, askAll, rowAll,
                   cleanupVars, authAll, loginAll, avatarAll, storeAll, appAll,
                   proxyAll, agentAll, sessionFileAll, providerAll, streamAll>>

ProxyStep ==
    /\ focus = "proxy" /\ Settings!ProxyNext
    /\ UNCHANGED <<focus, hubVars, callbackVars, peerVars, askAll, rowAll,
                   cleanupVars, authAll, loginAll, avatarAll, storeAll, appAll,
                   keysAll, agentAll, sessionFileAll, providerAll, streamAll>>

AgentStep ==
    /\ focus = "simplest" /\ Agent!AgentNext
    /\ UNCHANGED <<focus, hubVars, callbackVars, peerVars, askAll, rowAll,
                   cleanupVars, authAll, loginAll, avatarAll, storeAll, appAll,
                   keysAll, proxyAll, sessionFileAll, providerAll, streamAll>>

SessionFileStep ==
    /\ focus = "session" /\ Agent!SessionNext
    /\ UNCHANGED <<focus, hubVars, callbackVars, peerVars, askAll, rowAll,
                   cleanupVars, authAll, loginAll, avatarAll, storeAll, appAll,
                   keysAll, proxyAll, agentAll, providerAll, streamAll>>

ProviderStep ==
    /\ focus = "provider" /\ Provider!RequestNext
    /\ UNCHANGED <<focus, hubVars, callbackVars, peerVars, askAll, rowAll,
                   cleanupVars, authAll, loginAll, avatarAll, storeAll, appAll,
                   keysAll, proxyAll, agentAll, sessionFileAll, streamAll>>

StreamStep ==
    /\ focus = "stream" /\ Provider!StreamNext
    /\ UNCHANGED <<focus, hubVars, callbackVars, peerVars, askAll, rowAll,
                   cleanupVars, authAll, loginAll, avatarAll, storeAll, appAll,
                   keysAll, proxyAll, agentAll, sessionFileAll, providerAll>>

Next ==
    \/ HubStep \/ CallbacksStep \/ PeersStep \/ AskStep \/ RowStep
    \/ CleanupStep \/ AuthStep \/ LoginStep \/ AvatarStep \/ StoreStep
    \/ AppStep \/ KeysStep \/ ProxyStep \/ AgentStep \/ SessionFileStep
    \/ ProviderStep \/ StreamStep
=============================================================================
