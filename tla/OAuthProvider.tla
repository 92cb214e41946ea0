---------------------------- MODULE OAuthProvider ----------------------------
(* The OAuth provider in front of the MCP endpoint                              *)
(* (src/vault-mcp/oauth/oauth-provider.ts): client registrations, consents and  *)
(* codes in memory, refresh tokens that rotate on use, and access JWTs that are *)
(* checked against two revocation lists.                                        *)
(*                                                                             *)
(* Every handler below runs in one turn of the event loop once its request is  *)
(* parsed, except the code exchange, which the SDK reaches after it has asked   *)
(* for the code's challenge and verified it: Challenge and ExchangeCode are two *)
(* steps.  A request refused before anything is written changes nothing and has *)
(* no action.  Time counts in seconds; scopes are left out but for one request  *)
(* that asks for more than was granted.                                        *)
EXTENDS Integers, FiniteSets

CONSTANTS
    Clients,        \* registrations, each with an id of its own
    Requests,       \* authorization requests; a code keeps its request's name
    Tokens,         \* refresh tokens, all different
    NoRow,          \* no row, no entry
    MaxTime,        \* bound on the clock
    AccessTTL,      \* ACCESS_TOKEN_TTL_S
    RefreshTTL,     \* REFRESH_TOKEN_TTL_S
    CodeTTL,        \* AUTH_CODE_TTL_S
    PendingTTL,     \* PENDING_REQUEST_TTL_S
    SweepAge,       \* NEVER_SIGNED_IN_CLIENT_MAX_AGE_S
    MaxVerifying,   \* bound on token requests verifying one code at once
    MaxRevoked      \* bound on access tokens on the revocation list

ASSUME TimeAssumption ==
    {MaxTime, AccessTTL, RefreshTTL, CodeTTL, PendingTTL, SweepAge, MaxVerifying,
     MaxRevoked} \subseteq Nat

Times == 0 .. MaxTime
Never == -1

\* What a row says, where there is one.
ClientRow == [issuedAt : Times, signedIn : BOOLEAN]
PendingRow == [client : Clients, createdAt : Times]
CodeRow == [client : Clients, expiresAt : Nat]
MintedRow == [client : Clients, expiresAt : Nat, lineage : Requests]
AccessTokens == [client : Clients, iat : Times]
ASSUME NoRowAssumption ==
    NoRow \notin ClientRow \union PendingRow \union CodeRow \union MintedRow

VARIABLES
    now,
    \* the database
    clients,        \* registration rows: client -> [issuedAt, signedIn] or NoRow
    live,           \* refresh_tokens
    consumed,       \* consumed_refresh_tokens
    revokedTokens,  \* revoked_tokens: records [token, at]
    revokedAt,      \* revoked_clients: client -> cutoff or Never
    \* memory, lost at a restart
    pending,        \* pendingRequests: request -> [client, createdAt] or NoRow
    codes,          \* authCodes: code -> [client, expiresAt] or NoRow
    verifying,      \* token requests between challenge and exchange, per code
    \* what the outside holds, and history
    born,           \* client ids ever handed out
    asked,          \* request ids ever handed out
    minted,         \* refresh token -> [client, expiresAt, lineage] or NoRow
    access,         \* access JWTs issued; equal claims give the same string
    redeemed,       \* refresh tokens that were rotated
    killed,         \* refresh tokens revoked, alone or with their grant
    dead            \* access tokens revoked, alone or with their grant

dbVars == <<clients, live, consumed, revokedTokens, revokedAt>>
memVars == <<pending, codes, verifying>>
histVars == <<born, asked, minted, access, redeemed, killed, dead>>
vars == <<now, clients, live, consumed, revokedTokens, revokedAt,
          pending, codes, verifying,
          born, asked, minted, access, redeemed, killed, dead>>

-----------------------------------------------------------------------------
(* Helpers                                                                     *)

Known(c) == clients[c] /= NoRow

TokensOf(c) == {t \in Tokens : minted[t] /= NoRow /\ minted[t].client = c}

\* Rows are deleted when expires_at < now, so a token is good through its second.
Unexpired(t) == minted[t].expiresAt >= now

\* sweepNeverSignedInClients, over the rows it is given.
Swept(rows) ==
    [c \in Clients |->
        IF rows[c] /= NoRow /\ ~rows[c].signedIn /\ rows[c].issuedAt < now - SweepAge
        THEN NoRow ELSE rows[c]]

\* purgeExpiredRevocations: what is left of the two lists.
KeptRevokedTokens == {r \in revokedTokens : r.at >= now - AccessTTL}
\* Mutant: forgets a cutoff while tokens from before it still live.
KeptRevokedAtTooShort ==
    [c \in Clients |-> IF revokedAt[c] < now THEN Never ELSE revokedAt[c]]
KeptRevokedAt ==
    [c \in Clients |-> IF revokedAt[c] < now - AccessTTL THEN Never ELSE revokedAt[c]]

Redeemable(r) == codes[r] /= NoRow /\ codes[r].expiresAt >= now

ValidJwt(a) == now <= a.iat + AccessTTL

\* verifyAccessToken for a JWT: revoked alone, signature and expiry, revoked with
\* its client's grant.
Accepts(a) ==
    /\ ~ \E r \in revokedTokens : r.token = a
    /\ ValidJwt(a)
    /\ a.iat >= revokedAt[a.client]

-----------------------------------------------------------------------------
(* Registration and consent                                                    *)

Init ==
    /\ now = 0
    /\ clients = [c \in Clients |-> NoRow]
    /\ live = {} /\ consumed = {} /\ revokedTokens = {}
    /\ revokedAt = [c \in Clients |-> Never]
    /\ pending = [r \in Requests |-> NoRow]
    /\ codes = [r \in Requests |-> NoRow]
    /\ verifying = [r \in Requests |-> 0]
    /\ born = {} /\ asked = {} /\ access = {}
    /\ minted = [t \in Tokens |-> NoRow]
    /\ redeemed = {} /\ killed = {} /\ dead = {}

\* registerClient sweeps, then inserts.
RegisterClient(c) ==
    /\ c \notin born
    /\ born' = born \union {c}
    /\ clients' = [Swept(clients) EXCEPT ![c] = [issuedAt |-> now, signedIn |-> FALSE]]
    /\ UNCHANGED <<now, live, consumed, revokedTokens, revokedAt, memVars,
                   asked, minted, access, redeemed, killed, dead>>

Authorize(c, r) ==
    /\ Known(c)
    /\ r \notin asked
    /\ asked' = asked \union {r}
    /\ pending' = [pending EXCEPT ![r] = [client |-> c, createdAt |-> now]]
    /\ UNCHANGED <<now, dbVars, codes, verifying, born, minted, access, redeemed, killed, dead>>

\* approveRequest: getPendingRequest drops a request past its time.
Approve(r) ==
    /\ pending[r] /= NoRow
    /\ pending' = [pending EXCEPT ![r] = NoRow]
    /\ codes' = IF pending[r].createdAt + PendingTTL < now THEN codes
                ELSE [codes EXCEPT ![r] = [client |-> pending[r].client,
                                           expiresAt |-> now + CodeTTL]]
    /\ UNCHANGED <<now, dbVars, verifying, histVars>>

Deny(r) ==
    /\ pending[r] /= NoRow
    /\ pending' = [pending EXCEPT ![r] = NoRow]
    /\ UNCHANGED <<now, dbVars, codes, verifying, histVars>>

-----------------------------------------------------------------------------
(* Tokens                                                                      *)

\* Mutant: saves the token and leaves the client unmarked.
MintUnmarked(c, lineage, t, rest, used) ==
    /\ minted[t] = NoRow
    /\ minted' = [minted EXCEPT ![t] = [client |-> c, expiresAt |-> now + RefreshTTL,
                                        lineage |-> lineage]]
    /\ live' = {u \in rest : Unexpired(u)} \union {t}
    /\ consumed' = {u \in used : Unexpired(u)}
    /\ access' = access \union {[client |-> c, iat |-> now]}
    /\ UNCHANGED clients

\* issueAccessToken and saveRefreshToken: the purge, the insert and the mark are
\* one transaction.  A client row that is gone is not marked: the UPDATE finds
\* nothing.  `rest` is what is left of the rows before the transaction.
Mint(c, lineage, t, rest, used) ==
    /\ minted[t] = NoRow
    /\ minted' = [minted EXCEPT ![t] = [client |-> c, expiresAt |-> now + RefreshTTL,
                                        lineage |-> lineage]]
    /\ live' = {u \in rest : Unexpired(u)} \union {t}
    /\ consumed' = {u \in used : Unexpired(u)}
    /\ clients' = IF Known(c)
                  THEN [clients EXCEPT ![c] = [issuedAt |-> @.issuedAt, signedIn |-> TRUE]]
                  ELSE clients
    /\ access' = access \union {[client |-> c, iat |-> now]}

\* The SDK authenticates the client, then awaits the challenge's verification.
Challenge(r) ==
    /\ Redeemable(r)
    /\ Known(codes[r].client)
    /\ verifying[r] < MaxVerifying
    /\ verifying' = [verifying EXCEPT ![r] = @ + 1]
    /\ UNCHANGED <<now, dbVars, pending, codes, histVars>>

\* Mutant: leaves the code in the map.
ExchangeCodeTwice(r, t) ==
    /\ verifying[r] > 0
    /\ verifying' = [verifying EXCEPT ![r] = @ - 1]
    /\ Redeemable(r)
    /\ Mint(codes[r].client, r, t, live, consumed)
    /\ UNCHANGED <<now, revokedTokens, revokedAt, pending, codes, born, asked,
                   redeemed, killed, dead>>

\* exchangeAuthorizationCode: the code is gone before its tokens exist.
ExchangeCode(r, t) ==
    /\ verifying[r] > 0
    /\ verifying' = [verifying EXCEPT ![r] = @ - 1]
    /\ Redeemable(r)
    /\ codes' = [codes EXCEPT ![r] = NoRow]
    /\ Mint(codes[r].client, r, t, live, consumed)
    /\ UNCHANGED <<now, revokedTokens, revokedAt, pending, born, asked, redeemed, killed, dead>>

\* The code was redeemed or ran out while the challenge was verified.
ExchangeTooLate(r) ==
    /\ verifying[r] > 0
    /\ ~Redeemable(r)
    /\ verifying' = [verifying EXCEPT ![r] = @ - 1]
    /\ UNCHANGED <<now, dbVars, pending, codes, histVars>>

\* The live row a client reaches with its token: keyed on both.
LiveFor(c, t) == t \in live /\ minted[t].client = c

\* consumeRefreshToken on a live row, then the new pair.
Refresh(c, t, new) ==
    /\ Known(c)
    /\ LiveFor(c, t) /\ Unexpired(t)
    /\ redeemed' = redeemed \union {t}
    /\ Mint(c, minted[t].lineage, new, live \ {t}, consumed \union {t})
    /\ UNCHANGED <<now, revokedTokens, revokedAt, memVars, born, asked, killed, dead>>

\* A request for more than was granted: consumed, and the record deleted again.
RefreshWidens(c, t) ==
    /\ Known(c)
    /\ LiveFor(c, t) /\ Unexpired(t)
    /\ live' = live \ {t}
    /\ UNCHANGED <<now, clients, consumed, revokedTokens, revokedAt, memVars, histVars>>

\* An expired row is deleted without a consumed record.
RefreshExpired(c, t) ==
    /\ Known(c)
    /\ LiveFor(c, t) /\ ~Unexpired(t)
    /\ live' = live \ {t}
    /\ UNCHANGED <<now, clients, consumed, revokedTokens, revokedAt, memVars, histVars>>

\* A rotated token again, whoever presents it.
Replayed(c, t) == ~LiveFor(c, t) /\ t \in consumed /\ Unexpired(t)

\* Mutant: the grant's consumed records survive it.
RevokeGrantKeepingHistory(owner) ==
    /\ live' = live \ TokensOf(owner)
    /\ revokedAt' = [KeptRevokedAt EXCEPT ![owner] = now]
    /\ killed' = killed \union TokensOf(owner)
    /\ dead' = dead \union {a \in access : a.client = owner /\ a.iat < now}
    /\ UNCHANGED consumed

\* Mutant: the cutoff in milliseconds, as Date.now() gives it, among the seconds.
RevokeGrantInMilliseconds(owner) ==
    /\ live' = live \ TokensOf(owner)
    /\ consumed' = consumed \ TokensOf(owner)
    /\ revokedAt' = [KeptRevokedAt EXCEPT ![owner] = now * 1000]
    /\ killed' = killed \union TokensOf(owner)
    /\ dead' = dead \union {a \in access : a.client = owner /\ a.iat < now}

\* revokeClientGrant, after the purge: the owner's refresh rows, its consumed
\* records, and every access token minted before this second.
RevokeGrant(owner) ==
    /\ live' = live \ TokensOf(owner)
    /\ consumed' = consumed \ TokensOf(owner)
    /\ revokedAt' = [KeptRevokedAt EXCEPT ![owner] = now]
    /\ killed' = killed \union TokensOf(owner)
    /\ dead' = dead \union {a \in access : a.client = owner /\ a.iat < now}

RefreshReplayed(c, t) ==
    /\ Known(c)
    /\ Replayed(c, t)
    /\ RevokeGrant(minted[t].client)
    /\ revokedTokens' = KeptRevokedTokens
    /\ UNCHANGED <<now, clients, memVars, born, asked, minted, access, redeemed>>

-----------------------------------------------------------------------------
(* Revocation, time and restarts                                               *)

\* revokeToken with a refresh token, by any authenticated client.
RevokeRefresh(t) ==
    /\ t \in live
    /\ live' = live \ {t}
    /\ killed' = killed \union {t}
    /\ UNCHANGED <<now, clients, consumed, revokedTokens, revokedAt, memVars,
                   born, asked, minted, access, redeemed, dead>>

\* revokeToken with a valid access token; a second revocation keeps the first row.
RevokeAccess(a) ==
    /\ ValidJwt(a)
    /\ revokedTokens' =
           IF \E r \in KeptRevokedTokens : r.token = a THEN KeptRevokedTokens
           ELSE KeptRevokedTokens \union {[token |-> a, at |-> now]}
    /\ Cardinality(revokedTokens') <= MaxRevoked
    /\ revokedAt' = KeptRevokedAt
    /\ dead' = dead \union {a}
    /\ UNCHANGED <<now, clients, live, consumed, memVars,
                   born, asked, minted, access, redeemed, killed>>

Tick ==
    /\ now < MaxTime
    /\ now' = now + 1
    /\ UNCHANGED <<dbVars, memVars, histVars>>

\* The boot: memory is empty, both purges run.
Boot(rows) ==
    /\ clients' = Swept(rows)
    /\ revokedTokens' = KeptRevokedTokens
    /\ revokedAt' = KeptRevokedAt
    /\ pending' = [r \in Requests |-> NoRow]
    /\ codes' = [r \in Requests |-> NoRow]
    /\ verifying' = [r \in Requests |-> 0]

Restart ==
    /\ Boot(clients)
    /\ UNCHANGED <<now, live, consumed, histVars>>

\* Mutant: the deletion and the consumed record are not one transaction.
CrashBetweenRows(c, t) ==
    /\ Known(c)
    /\ LiveFor(c, t) /\ Unexpired(t)
    /\ live' = live \ {t}
    /\ redeemed' = redeemed \union {t}
    /\ Boot(clients)
    /\ UNCHANGED <<now, consumed, born, asked, minted, access, killed, dead>>

\* A crash after consumeLiveRefreshRow committed and before the new pair was
\* saved: the client holds a token that now reads as replayed.
CrashInRefresh(c, t) ==
    /\ Known(c)
    /\ LiveFor(c, t) /\ Unexpired(t)
    /\ live' = live \ {t}
    /\ consumed' = consumed \union {t}
    /\ redeemed' = redeemed \union {t}
    /\ Boot(clients)
    /\ UNCHANGED <<now, born, asked, minted, access, killed, dead>>

-----------------------------------------------------------------------------
Next ==
    \/ \E c \in Clients :
        \/ RegisterClient(c)
        \/ \E r \in Requests : Authorize(c, r)
        \/ \E t \in Tokens :
            \/ \E new \in Tokens : Refresh(c, t, new)
            \/ RefreshWidens(c, t)
            \/ RefreshExpired(c, t)
            \/ RefreshReplayed(c, t)
            \/ CrashInRefresh(c, t)
    \/ \E r \in Requests :
        \/ Approve(r)
        \/ Deny(r)
        \/ Challenge(r)
        \/ \E t \in Tokens : ExchangeCode(r, t)
        \/ ExchangeTooLate(r)
    \/ \E t \in Tokens : RevokeRefresh(t)
    \/ \E a \in access : RevokeAccess(a)
    \/ Tick
    \/ Restart

Spec == Init /\ [][Next]_vars

-----------------------------------------------------------------------------
(* Properties                                                                  *)

\* Every variable has its type; in particular every recorded time is one the
\* clock has shown or could show, in the clock's own unit.
TypeOK ==
    /\ now \in Times
    /\ clients \in [Clients -> ClientRow \union {NoRow}]
    /\ live \subseteq Tokens /\ consumed \subseteq Tokens
    /\ revokedTokens \subseteq [token : AccessTokens, at : Times]
    /\ revokedAt \in [Clients -> Times \union {Never}]
    /\ pending \in [Requests -> PendingRow \union {NoRow}]
    /\ codes \in [Requests -> CodeRow \union {NoRow}]
    /\ verifying \in [Requests -> 0 .. MaxVerifying]
    /\ born \subseteq Clients /\ asked \subseteq Requests
    /\ minted \in [Tokens -> MintedRow \union {NoRow}]
    /\ access \subseteq AccessTokens
    /\ redeemed \subseteq Tokens /\ killed \subseteq Tokens
    /\ dead \subseteq access

\* One consent leaves at most one refresh token alive, however its code and its
\* tokens are presented again, by two requests at once or across a crash
\* (oauth-provider.ts 496-502, 648).
OneLiveTokenPerConsent ==
    \A t, u \in live : minted[t].lineage = minted[u].lineage => t = u

\* What was revoked stays gone, and a token of a revoked grant that is presented
\* again later cannot end the grant the user consented to since (lines 423-429).
RevokedRefreshTokensStayGone ==
    killed \intersect (live \union consumed) = {}

\* An access token revoked alone, or minted in a second before its client's grant
\* was revoked, is never accepted again: not after the lists are purged, nor after
\* a restart (lines 397-402, 777-784).
RevokedAccessTokensAreRejected ==
    \A a \in dead : ~Accepts(a)

\* The replay of a rotated token is recognised until the token's own expiry, or
\* until its grant is gone: no purge, crash or restart drops the record before
\* (lines 365-367, 474-476).
ReplaysAreRecognised ==
    \A t \in redeemed : Unexpired(t) /\ t \notin killed => t \in consumed

\* A registration with a saved refresh token is never swept (lines 207-212,
\* 447-449): the client would retry its dead id forever.
SignedInClientsAreKept ==
    [][\A c \in Clients :
          Known(c) /\ TokensOf(c) /= {} => Known(c)']_vars
=============================================================================
