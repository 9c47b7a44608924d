------------------------------- MODULE SignIn -------------------------------
(***************************************************************************)
(* Signing in to the web interface: the tokens, the logins under way, and  *)
(* the profile picture of a user.  The three state machines share no       *)
(* state; each has its own Init and Next.                                  *)
(***************************************************************************)
EXTENDS Integers, FiniteSets

-----------------------------------------------------------------------------
(***************************************************************************)
(* Token verification (auth/service.go): the provider is found on first    *)
(* use and not asked again too soon after a failure, and a token that      *)
(* cannot be verified is told from a provider that cannot be reached by a  *)
(* probe whose answer is kept for a while.                                 *)
(*                                                                         *)
(* The provider and the verifier are external: a good token fails to       *)
(* verify only when its key has to be fetched and the provider is down.    *)
(***************************************************************************)

CONSTANTS
    Requests,
    RetryInterval, SuccessTTL, FailureTTL,  \* in steps of the clock
    MaxClock

VARIABLES
    up, upAt, since,    \* the provider, when it was last up, and since when it is as it is
    clock, discovered, discoveryFailed, probe, flight, req,
    gaveUp              \* when a client last left during the discovery it had begun
authVars == <<up, upAt, since, clock, discovered, discoveryFailed, gaveUp, probe, flight, req>>

Never == -10
Idle == [at |-> "idle", kind |-> "api", token |-> "good", failedAt |-> Never]

AuthInit ==
    /\ up \in BOOLEAN /\ upAt = (IF up THEN 0 ELSE Never) /\ since = 0 /\ clock = 0
    /\ discovered = FALSE /\ discoveryFailed = Never /\ gaveUp = Never
    /\ probe = [ok |-> FALSE, at |-> Never] /\ flight = {} /\ req = [r \in Requests |-> Idle]

world == <<up, upAt, since, clock>>

-----------------------------------------------------------------------------
\* External.
Toggle == up' = ~up /\ upAt' = clock /\ since' = clock /\ UNCHANGED <<clock, discovered, discoveryFailed, gaveUp, probe, flight, req>>
Tick ==
    /\ clock < MaxClock /\ clock' = clock + 1 /\ upAt' = IF up THEN clock' ELSE upAt
    /\ UNCHANGED <<up, since, discovered, discoveryFailed, gaveUp, probe, flight, req>>

\* Authenticate and handleRefresh are called.  A request is measured once: it does not return to idle.
Call(r) ==
    /\ req[r] = Idle
    /\ \E k \in {"api", "refresh"}, t \in {"good", "bad", "expired"} :
        req' = [req EXCEPT ![r] = [Idle EXCEPT !.at = "ensure", !.kind = k, !.token = t]]
    /\ UNCHANGED <<world, discovered, discoveryFailed, gaveUp, probe, flight>>

MayDiscover == clock - discoveryFailed >= RetryInterval

\* ensureProvider, under its mutex: discovered before, failed a short while ago, or tried now.  The
\* discovery is made in the context of the request that makes it, and fails for all when that client
\* goes away.
Ensure(ok) ==
    IF discovered
    THEN ok /\ UNCHANGED <<discovered, discoveryFailed, gaveUp>>
    ELSE IF ~MayDiscover
    THEN ~ok /\ UNCHANGED <<discovered, discoveryFailed, gaveUp>>
    ELSE /\ ok => up
         /\ discovered' = ok /\ discoveryFailed' = IF ok THEN Never ELSE clock
         /\ gaveUp' = IF up /\ ~ok THEN clock ELSE gaveUp

EnsureProvider(r) ==
    /\ req[r].at = "ensure"
    /\ \E ok \in BOOLEAN :
        /\ Ensure(ok)
        /\ req' = [req EXCEPT ![r].at = IF ~ok THEN "unavailable" ELSE IF req[r].kind = "refresh" THEN "exchange" ELSE "verify"]
    /\ UNCHANGED <<world, probe, flight>>

\* handleRefresh: a grant the provider refuses ends the session, and so does one it accepts without a
\* new ID token where that is the credential ("over").  Any other failure, and a client that leaves,
\* keeps it.
Exchange(r) ==
    /\ req[r].at = "exchange"
    /\ \E outcome \in {"unavailable"} \cup (IF ~up THEN {} ELSE IF req[r].token = "good" THEN {"ok", "over"} ELSE {"invalid"}) :
          req' = [req EXCEPT ![r].at = outcome]
    /\ UNCHANGED <<world, discovered, discoveryFailed, gaveUp, probe, flight>>

\* verifyToken: the verifier has the key, or fetches it.
VerifyToken(r) ==
    /\ req[r].at = "verify"
    /\ \/ req[r].token = "good" /\ req' = [req EXCEPT ![r].at = "ok"]
       \/ req[r].token = "expired" /\ req' = [req EXCEPT ![r].at = "invalid"]
       \/ (req[r].token = "bad" \/ ~up) /\ req[r].token # "expired" /\ req' = [req EXCEPT ![r].at = "doubt", ![r].failedAt = clock]
    /\ UNCHANGED <<world, discovered, discoveryFailed, gaveUp, probe, flight>>

\* Mutant: a success is kept as long as a failure.
CachedLong == clock - probe.at < FailureTTL

\* cachedProbe.
Cached == clock - probe.at < IF probe.ok THEN SuccessTTL ELSE FailureTTL

Verdict(ok) == IF ok THEN "invalid" ELSE "unavailable"

\* providerReachable: the answer kept, or one probe for all who ask meanwhile.
UseCached(r) ==
    /\ req[r].at = "doubt" /\ Cached
    /\ req' = [req EXCEPT ![r].at = Verdict(probe.ok)]
    /\ UNCHANGED <<world, discovered, discoveryFailed, gaveUp, probe, flight>>
Join(r) ==
    /\ req[r].at = "doubt" /\ ~Cached
    /\ req' = [req EXCEPT ![r].at = "probing"] /\ flight' = flight \cup {r}
    /\ UNCHANGED <<world, discovered, discoveryFailed, gaveUp, probe>>
FetchJWKS ==
    /\ flight # {}
    /\ LET ok == IF Cached THEN probe.ok ELSE up IN
        /\ probe' = IF Cached THEN probe ELSE [ok |-> ok, at |-> clock]
        /\ req' = [r \in Requests |-> IF r \in flight THEN [req[r] EXCEPT !.at = Verdict(ok)] ELSE req[r]]
    /\ flight' = {}
    /\ UNCHANGED <<world, discovered, discoveryFailed, gaveUp>>

AuthNext ==
    \/ Toggle \/ Tick \/ FetchJWKS
    \/ \E r \in Requests : Call(r) \/ EnsureProvider(r) \/ Exchange(r) \/ VerifyToken(r) \/ UseCached(r) \/ Join(r)

AuthSpec == AuthInit /\ [][AuthNext]_authVars

-----------------------------------------------------------------------------
\* A session is ended for a good token only when the provider was up again, or still, within
\* the time a successful probe is kept of the moment the token could not be verified: an
\* outage that lasts never logs anybody out (verifyToken, cachedProbe).  A refresh ends the session
\* of a good grant only with a provider that answers and gives no ID token where one is needed.
OutageKeepsSessions ==
    [][\A r \in Requests : req[r].token = "good" =>
        /\ req[r].at # "invalid" /\ req'[r].at = "invalid" =>
               req[r].failedAt # Never /\ upAt # Never /\ (up \/ clock - upAt < SuccessTTL)
        /\ req[r].at # "over" /\ req'[r].at = "over" => up /\ discovered /\ req[r].kind = "refresh"]_authVars

\* Nobody is told that the provider is unavailable once it has been back for as long as a
\* failure is kept; but a client that goes away while its request discovers the provider makes it
\* unavailable to all for the interval of a retry (ensureProvider, providerReachable, handleRefresh).
RecoversInTime ==
    [][\A r \in Requests : req[r].at \in {"ensure", "doubt", "probing"} /\ req'[r].at = "unavailable" =>
        \/ ~up
        \/ clock - since < IF req[r].at = "ensure" THEN RetryInterval ELSE FailureTTL
        \/ req[r].at = "ensure" /\ clock - gaveUp' < RetryInterval]_authVars

\* "so one client disconnecting cannot fail the probe for everyone" (service.go:397): nor the
\* discovery.
DiscoveryIsDetached ==
    [][\A r \in Requests : req[r].at = "ensure" /\ req'[r].at = "unavailable" => ~up \/ clock - since < RetryInterval]_authVars

-----------------------------------------------------------------------------
(***************************************************************************)
(* Logins under way (auth/service.go): each has a random state, kept for a *)
(* time and dropped for later ones, and a cookie in the browser that began *)
(* it.  The provider has been found; the exchange of the code is external. *)
(***************************************************************************)

CONSTANTS
    Browsers,
    MaxPending,     \* maxPendingStates
    Lifetime,       \* stateLifetime, in steps of the clock
    MaxLogins, MaxTime

VARIABLES time, states, cookie, logins, answered
loginVars == <<time, states, cookie, logins, answered>>

NoState == 0

LoginInit ==
    /\ time = 0 /\ states = {} /\ cookie = [b \in Browsers |-> NoState]
    /\ logins = 0 /\ answered = [s \in 1..MaxLogins |-> [by |-> "nobody", exp |-> 0]]

LoginTick == time < MaxTime /\ time' = time + 1 /\ UNCHANGED <<states, cookie, logins, answered>>

Unexpired == {s \in states : time <= s.exp}

\* deleteOldestStateLocked.
Oldest(S) == CHOOSE s \in S : \A t \in S : s.exp < t.exp \/ (s.exp = t.exp /\ s.id <= t.id)

\* handleLogin, addState: what expired goes, then the oldest while there is no room.
HandleLogin(b) ==
    /\ logins < MaxLogins
    /\ LET room == IF Cardinality(Unexpired) >= MaxPending THEN Unexpired \ {Oldest(Unexpired)} ELSE Unexpired
       IN states' = room \cup {[id |-> logins + 1, exp |-> time + Lifetime]}
    /\ logins' = logins + 1 /\ cookie' = [cookie EXCEPT ![b] = logins + 1]
    /\ answered' = [answered EXCEPT ![logins + 1] = [by |-> b, exp |-> time + Lifetime]]
    /\ UNCHANGED time

\* consumeState: the state goes, also when it has expired.
Consumed(id) == {s \in states : s.id # id}

\* The state is the one of the browser's cookie.
MayCallBack(b, id) == cookie[b] = id

\* handleCallback.  The browser the answer came to is recorded.
HandleCallback(b) ==
    \E id \in 1..logins :
        /\ MayCallBack(b, id)
        /\ states' = Consumed(id)
        /\ IF \E s \in states : s.id = id /\ time < s.exp
           THEN /\ cookie' = [cookie EXCEPT ![b] = NoState]
                /\ answered' = [answered EXCEPT ![id].by = IF @ = b THEN "in" ELSE "mixed up"]
           ELSE UNCHANGED <<cookie, answered>>
        /\ UNCHANGED <<time, logins>>

LoginNext == LoginTick \/ \E b \in Browsers : HandleLogin(b) \/ HandleCallback(b)

LoginSpec == LoginInit /\ [][LoginNext]_loginVars

-----------------------------------------------------------------------------
\* A login is completed at most once, and only in the browser that began it (handleCallback).
LoginIsBound == \A id \in 1..logins : answered[id].by # "mixed up"

\* A login under way is dropped before its time only for as many that began after it (addState).
YoungestKept ==
    \A id \in 1..logins :
        answered[id].by \in Browsers /\ id > logins - MaxPending /\ time < answered[id].exp => \E s \in states : s.id = id

-----------------------------------------------------------------------------
(***************************************************************************)
(* The profile picture of one user, kept as two files: the image and a     *)
(* sidecar that names the address it was fetched from.  A request for the  *)
(* profile makes the files match the picture of the request's token; the   *)
(* fetches of one user join a single flight, and an address that has       *)
(* failed is not fetched again for a while.  Other requests are served     *)
(* from the files meanwhile.                                               *)
(*                                                                         *)
(* An image is the address it came from.  The provider is asked for the    *)
(* picture that the token does not carry, and may not answer.              *)
(***************************************************************************)

CONSTANTS ProfileRequests, Pictures, FetchFailureTTL, MaxAvatarClock, MaxProfiles

VARIABLES
    img,        \* the image file: the address of what it shows
    meta,       \* the sidecar's address
    failure,    \* the failed address and when it failed
    avatarClock,
    request,    \* each request: its step, its picture, whether it may fetch, its answer
    flights,    \* the fetches that run: who began each, of what, and how far it is
    profiles,   \* the profiles asked for so far
    broken      \* a fetch wrote the image and not the sidecar
avatarVars == <<img, meta, failure, avatarClock, request, flights, profiles, broken>>

NoPicture == "none"
NoFailure == [source |-> NoPicture, at |-> 0]
Waiting == [at |-> "idle", picture |-> NoPicture, flight |-> NoPicture, shown |-> FALSE]

AvatarInit ==
    /\ img = NoPicture /\ meta = NoPicture /\ failure = NoFailure /\ avatarClock = 0
    /\ request = [r \in ProfileRequests |-> Waiting] /\ flights = {} /\ profiles = 0 /\ broken = FALSE

AvatarCached(p) == meta = p /\ img # NoPicture
HasAvatar == meta # NoPicture /\ img # NoPicture
Answered(r, shown) == request' = [request EXCEPT ![r] = [Waiting EXCEPT !.shown = shown]]

-----------------------------------------------------------------------------
\* The picture is the token's or the provider's; without one the kept image is shown.
HandleMe(r) ==
    /\ request[r].at = "idle" /\ profiles < MaxProfiles
    /\ profiles' = profiles + 1
    /\ \/ \E p \in Pictures : request' = [request EXCEPT ![r] = [Waiting EXCEPT !.at = "ensure", !.picture = p]]
       \/ Answered(r, HasAvatar)
    /\ UNCHANGED <<img, meta, failure, avatarClock, flights, broken>>

\* The failure that is remembered is that of the last address that failed.
Suppressed(p) == failure.source = p /\ avatarClock - failure.at < FetchFailureTTL

EnsureAvatar(r) ==
    LET p == request[r].picture IN
    /\ request[r].at = "ensure"
    /\ IF AvatarCached(p) THEN Answered(r, TRUE)
       ELSE IF Suppressed(p) THEN Answered(r, img # NoPicture)
       ELSE request' = [request EXCEPT ![r].at = "join"]
    /\ UNCHANGED <<img, meta, failure, avatarClock, flights, profiles, broken>>

\* The flights a request joins: the one of the same user, whatever its address.
Joinable(r) == flights

JoinFlight(r) ==
    /\ request[r].at = "join"
    /\ IF Joinable(r) # {}
       THEN /\ \E f \in Joinable(r) : request' = [request EXCEPT ![r].at = "waits", ![r].flight = f.owner]
            /\ UNCHANGED flights
       ELSE /\ request' = [request EXCEPT ![r].at = "waits", ![r].flight = r]
            /\ flights' = flights \cup {[owner |-> r, picture |-> request[r].picture, at |-> "begun"]}
    /\ UNCHANGED <<img, meta, failure, avatarClock, profiles, broken>>

-----------------------------------------------------------------------------
(* A flight. *)

Moved(f, to) == flights' = (flights \ {f}) \cup {[f EXCEPT !.at = to]}
Lands(f) == flights' = flights \ {f}

\* The flight before this one may have fetched what is asked for.
NeedsFetch(f) == ~AvatarCached(f.picture)

BeginFetch(f) ==
    /\ f.at = "begun"
    /\ IF NeedsFetch(f) THEN Moved(f, "fetching") ELSE Lands(f)
    /\ UNCHANGED <<img, meta, failure, avatarClock, request, profiles, broken>>

Fails(f) == failure' = [source |-> f.picture, at |-> avatarClock]

\* An address that is refused, a host that does not answer, an answer that is no image or too
\* large, or a request that was given up by the one who began the flight.
FetchFails(f) ==
    /\ f.at = "fetching" /\ Fails(f) /\ Lands(f)
    /\ UNCHANGED <<img, meta, avatarClock, request, profiles, broken>>

WriteImage(f) ==
    /\ f.at = "fetching"
    /\ img' = f.picture /\ Moved(f, "written")
    /\ UNCHANGED <<meta, failure, avatarClock, request, profiles, broken>>

WriteMeta(f) ==
    /\ f.at = "written"
    /\ meta' = f.picture /\ failure' = NoFailure /\ Lands(f) /\ broken' = FALSE
    /\ UNCHANGED <<img, avatarClock, request, profiles>>

WriteMetaFails(f) ==
    /\ f.at = "written" /\ Fails(f) /\ Lands(f) /\ broken' = TRUE
    /\ UNCHANGED <<img, meta, avatarClock, request, profiles>>

\* Once its flight has landed: the new picture, or the one there was.
Landed(r) ==
    /\ request[r].at = "waits" /\ \A f \in flights : f.owner # request[r].flight
    /\ Answered(r, AvatarCached(request[r].picture) \/ img # NoPicture)
    /\ UNCHANGED <<img, meta, failure, avatarClock, flights, profiles, broken>>

AvatarTick == avatarClock < MaxAvatarClock /\ avatarClock' = avatarClock + 1 /\ UNCHANGED <<img, meta, failure, request, flights, profiles, broken>>

AvatarNext ==
    \/ \E r \in ProfileRequests : HandleMe(r) \/ EnsureAvatar(r) \/ JoinFlight(r) \/ Landed(r)
    \/ \E f \in flights : BeginFetch(f) \/ FetchFails(f) \/ WriteImage(f) \/ WriteMeta(f) \/ WriteMetaFails(f)
    \/ AvatarTick
AvatarSpec == AvatarInit /\ [][AvatarNext]_avatarVars

AvatarTypeOK ==
    /\ {img, meta} \subseteq Pictures \cup {NoPicture} /\ avatarClock \in 0..MaxAvatarClock
    /\ \A r \in ProfileRequests : request[r].at \in {"idle", "ensure", "join", "waits"}
    /\ flights \subseteq [owner : ProfileRequests, picture : Pictures, at : {"begun", "fetching", "written"}]

-----------------------------------------------------------------------------
\* Between fetches the sidecar names what the image shows, in whatever order the requests of tokens
\* with different pictures came: otherwise an image of one address is served, with the content type
\* of another, for as long as the user's picture stays.
MetaTellsImage == (flights = {} /\ ~broken) => img = meta

\* A picture that is there is not downloaded again: of the requests that found it missing only the
\* first goes out, those that come late find the files.
FetchedOnce == \A f \in flights : f.at = "fetching" => ~AvatarCached(f.picture)
=============================================================================
