------------------------- MODULE OAuthProviderProofs -------------------------
(* Theorems about OAuthProvider: type correctness, that a consent has one live  *)
(* token, that revocation is final for refresh and access tokens, that replays  *)
(* are recognised, and that the sweep keeps clients that signed in.             *)
EXTENDS OAuthProvider, TLAPS

\* A token that anybody remembers was minted, and a rotated one is no longer live.
TokensWereMinted ==
    /\ \A t \in live \union consumed \union redeemed \union killed : minted[t] /= NoRow
    /\ live \intersect consumed = {}

\* A consent is asked for, then granted, then redeemed, and never goes back.
Unredeemed(r) == \A t \in Tokens : minted[t] /= NoRow => minted[t].lineage /= r
ConsentsGoForward ==
    /\ \A r \in Requests : r \notin asked => pending[r] = NoRow
    /\ \A r \in Requests : r \notin asked \/ pending[r] /= NoRow => codes[r] = NoRow
    /\ \A r \in Requests : r \notin asked \/ pending[r] /= NoRow \/ codes[r] /= NoRow
            => Unredeemed(r)

\* Who is named anywhere was registered once, and a registration with a token is
\* marked.
ClientsWereRegistered ==
    /\ \A c \in Clients : Known(c) => c \in born
    /\ \A r \in Requests : pending[r] /= NoRow => pending[r].client \in born
    /\ \A r \in Requests : codes[r] /= NoRow => codes[r].client \in born
    /\ \A t \in Tokens : minted[t] /= NoRow => minted[t].client \in born
    /\ \A t \in Tokens : minted[t] /= NoRow /\ Known(minted[t].client)
            => clients[minted[t].client].signedIn

\* Nothing on the revocation lists, and no access token, is of the future.
NothingIsEarly ==
    /\ \A r \in revokedTokens : r.token.iat <= r.at /\ r.at <= now
    /\ \A c \in Clients : revokedAt[c] <= now
    /\ \A a \in access : a.iat <= now

ProviderInvariant ==
    /\ TypeOK
    /\ TokensWereMinted
    /\ ConsentsGoForward
    /\ ClientsWereRegistered
    /\ NothingIsEarly
    /\ OneLiveTokenPerConsent
    /\ RevokedRefreshTokensStayGone
    /\ RevokedAccessTokensAreRejected
    /\ ReplaysAreRecognised
-----------------------------------------------------------------------------
(* A step keeps each part                                                      *)

\* Every variable keeps its type.
LEMMA TypeStep == TypeOK /\ TokensWereMinted /\ Next => TypeOK'
<1> SUFFICES ASSUME TypeOK /\ TokensWereMinted, Next PROVE TypeOK'
  OBVIOUS
<1> USE TimeAssumption, NoRowAssumption DEF TypeOK, TokensWereMinted, Times, Never, ClientRow,
                                            PendingRow, CodeRow, MintedRow, AccessTokens, Known,
                                            dbVars, memVars, histVars
<1>1. ASSUME NEW c \in Clients, RegisterClient(c) PROVE TypeOK'
  BY <1>1 DEF RegisterClient, Swept
<1>2. ASSUME NEW c \in Clients, NEW r \in Requests, Authorize(c, r) PROVE TypeOK'
  BY <1>2 DEF Authorize
<1>3. ASSUME NEW r \in Requests, Approve(r) PROVE TypeOK'
  BY <1>3 DEF Approve
<1>4. ASSUME NEW r \in Requests, Deny(r) PROVE TypeOK'
  BY <1>4 DEF Deny
<1>5. ASSUME NEW r \in Requests, Challenge(r) PROVE TypeOK'
  BY <1>5 DEF Challenge
<1>6. ASSUME NEW r \in Requests, NEW t \in Tokens, ExchangeCode(r, t) PROVE TypeOK'
  BY <1>6 DEF ExchangeCode, Mint, Redeemable
<1>7. ASSUME NEW r \in Requests, ExchangeTooLate(r) PROVE TypeOK'
  BY <1>7 DEF ExchangeTooLate
<1>8. ASSUME NEW c \in Clients, NEW t \in Tokens, NEW new \in Tokens, Refresh(c, t, new)
      PROVE  TypeOK'
  BY <1>8 DEF Refresh, LiveFor, Mint
<1>9. ASSUME NEW c \in Clients, NEW t \in Tokens, RefreshWidens(c, t) PROVE TypeOK'
  BY <1>9 DEF RefreshWidens
<1>10. ASSUME NEW c \in Clients, NEW t \in Tokens, RefreshExpired(c, t) PROVE TypeOK'
  BY <1>10 DEF RefreshExpired
<1>11. ASSUME NEW c \in Clients, NEW t \in Tokens, RefreshReplayed(c, t) PROVE TypeOK'
  BY <1>11 DEF RefreshReplayed, Replayed, RevokeGrant, KeptRevokedAt, KeptRevokedTokens,
               TokensOf
<1>12. ASSUME NEW c \in Clients, NEW t \in Tokens, CrashInRefresh(c, t) PROVE TypeOK'
  BY <1>12 DEF CrashInRefresh, LiveFor, Boot, Swept, KeptRevokedAt, KeptRevokedTokens
<1>13. ASSUME NEW t \in Tokens, RevokeRefresh(t) PROVE TypeOK'
  BY <1>13 DEF RevokeRefresh
<1>14. ASSUME NEW a \in access, RevokeAccess(a) PROVE TypeOK'
  BY <1>14 DEF RevokeAccess, KeptRevokedAt, KeptRevokedTokens, ValidJwt
<1>15. CASE Tick
  BY <1>15 DEF Tick
<1>16. CASE Restart
  BY <1>16 DEF Restart, Boot, Swept, KeptRevokedAt, KeptRevokedTokens
<1> QED
  BY <1>1, <1>2, <1>3, <1>4, <1>5, <1>6, <1>7, <1>8, <1>9, <1>10, <1>11, <1>12, <1>13, <1>14,
     <1>15, <1>16
     DEF Next

\* What is remembered of tokens stays about tokens that were minted.
LEMMA MintedStep == TypeOK /\ TokensWereMinted /\ Next => TokensWereMinted'
<1> SUFFICES ASSUME TypeOK /\ TokensWereMinted, Next PROVE TokensWereMinted'
  OBVIOUS
<1> USE TimeAssumption, NoRowAssumption DEF TypeOK, TokensWereMinted, Times, CodeRow, MintedRow,
                                            dbVars, memVars, histVars
<1>1. ASSUME NEW c \in Clients, RegisterClient(c) PROVE TokensWereMinted'
  BY <1>1 DEF RegisterClient, Swept
<1>2. ASSUME NEW c \in Clients, NEW r \in Requests, Authorize(c, r) PROVE TokensWereMinted'
  BY <1>2 DEF Authorize
<1>3. ASSUME NEW r \in Requests, Approve(r) PROVE TokensWereMinted'
  BY <1>3 DEF Approve
<1>4. ASSUME NEW r \in Requests, Deny(r) PROVE TokensWereMinted'
  BY <1>4 DEF Deny
<1>5. ASSUME NEW r \in Requests, Challenge(r) PROVE TokensWereMinted'
  BY <1>5 DEF Challenge
<1>6. ASSUME NEW r \in Requests, NEW t \in Tokens, ExchangeCode(r, t) PROVE TokensWereMinted'
  BY <1>6 DEF ExchangeCode, Mint, Redeemable
<1>7. ASSUME NEW r \in Requests, ExchangeTooLate(r) PROVE TokensWereMinted'
  BY <1>7 DEF ExchangeTooLate
<1>8. ASSUME NEW c \in Clients, NEW t \in Tokens, NEW new \in Tokens, Refresh(c, t, new)
      PROVE  TokensWereMinted'
  BY <1>8 DEF Refresh, LiveFor, Mint
<1>9. ASSUME NEW c \in Clients, NEW t \in Tokens, RefreshWidens(c, t) PROVE TokensWereMinted'
  BY <1>9 DEF RefreshWidens
<1>10. ASSUME NEW c \in Clients, NEW t \in Tokens, RefreshExpired(c, t) PROVE TokensWereMinted'
  BY <1>10 DEF RefreshExpired
<1>11. ASSUME NEW c \in Clients, NEW t \in Tokens, RefreshReplayed(c, t) PROVE TokensWereMinted'
  BY <1>11 DEF RefreshReplayed, Replayed, RevokeGrant, KeptRevokedAt, KeptRevokedTokens,
               TokensOf
<1>12. ASSUME NEW c \in Clients, NEW t \in Tokens, CrashInRefresh(c, t) PROVE TokensWereMinted'
  BY <1>12 DEF CrashInRefresh, LiveFor, Boot, Swept, KeptRevokedAt, KeptRevokedTokens
<1>13. ASSUME NEW t \in Tokens, RevokeRefresh(t) PROVE TokensWereMinted'
  BY <1>13 DEF RevokeRefresh
<1>14. ASSUME NEW a \in access, RevokeAccess(a) PROVE TokensWereMinted'
  BY <1>14 DEF RevokeAccess, KeptRevokedAt, KeptRevokedTokens, ValidJwt
<1>15. CASE Tick
  BY <1>15 DEF Tick
<1>16. CASE Restart
  BY <1>16 DEF Restart, Boot, Swept, KeptRevokedAt, KeptRevokedTokens
<1> QED
  BY <1>1, <1>2, <1>3, <1>4, <1>5, <1>6, <1>7, <1>8, <1>9, <1>10, <1>11, <1>12, <1>13, <1>14,
     <1>15, <1>16
     DEF Next

\* Consents go forward.
LEMMA ConsentsStep ==
    TypeOK /\ ConsentsGoForward /\ TokensWereMinted /\ Next =>
        ConsentsGoForward'
<1> SUFFICES ASSUME TypeOK, ConsentsGoForward, TokensWereMinted, Next
             PROVE  ConsentsGoForward'
  OBVIOUS
<1> USE NoRowAssumption DEF TypeOK, ConsentsGoForward, Unredeemed, TokensWereMinted, PendingRow,
                            CodeRow, MintedRow, dbVars, memVars, histVars
<1>1. ASSUME NEW c \in Clients, RegisterClient(c) PROVE ConsentsGoForward'
  BY <1>1 DEF RegisterClient, Swept
<1>2. ASSUME NEW c \in Clients, NEW r \in Requests, Authorize(c, r) PROVE ConsentsGoForward'
  BY <1>2 DEF Authorize
<1>3. ASSUME NEW r \in Requests, Approve(r) PROVE ConsentsGoForward'
  BY <1>3 DEF Approve
<1>4. ASSUME NEW r \in Requests, Deny(r) PROVE ConsentsGoForward'
  BY <1>4 DEF Deny
<1>5. ASSUME NEW r \in Requests, Challenge(r) PROVE ConsentsGoForward'
  BY <1>5 DEF Challenge
<1>6. ASSUME NEW r \in Requests, NEW t \in Tokens, ExchangeCode(r, t) PROVE ConsentsGoForward'
  BY <1>6 DEF ExchangeCode, Mint, Redeemable
<1>7. ASSUME NEW r \in Requests, ExchangeTooLate(r) PROVE ConsentsGoForward'
  BY <1>7 DEF ExchangeTooLate
<1>8. ASSUME NEW c \in Clients, NEW t \in Tokens, NEW new \in Tokens, Refresh(c, t, new)
      PROVE  ConsentsGoForward'
  BY <1>8 DEF Refresh, LiveFor, Mint
<1>9. ASSUME NEW c \in Clients, NEW t \in Tokens, RefreshWidens(c, t) PROVE ConsentsGoForward'
  BY <1>9 DEF RefreshWidens
<1>10. ASSUME NEW c \in Clients, NEW t \in Tokens, RefreshExpired(c, t) PROVE ConsentsGoForward'
  BY <1>10 DEF RefreshExpired
<1>11. ASSUME NEW c \in Clients, NEW t \in Tokens, RefreshReplayed(c, t)
       PROVE  ConsentsGoForward'
  BY <1>11 DEF RefreshReplayed, Replayed, RevokeGrant, KeptRevokedAt, KeptRevokedTokens,
               TokensOf
<1>12. ASSUME NEW c \in Clients, NEW t \in Tokens, CrashInRefresh(c, t) PROVE ConsentsGoForward'
  BY <1>12 DEF CrashInRefresh, LiveFor, Boot, Swept, KeptRevokedAt, KeptRevokedTokens
<1>13. ASSUME NEW t \in Tokens, RevokeRefresh(t) PROVE ConsentsGoForward'
  BY <1>13 DEF RevokeRefresh
<1>14. ASSUME NEW a \in access, RevokeAccess(a) PROVE ConsentsGoForward'
  BY <1>14 DEF RevokeAccess, KeptRevokedAt, KeptRevokedTokens, ValidJwt
<1>15. CASE Tick
  BY <1>15 DEF Tick
<1>16. CASE Restart
  BY <1>16 DEF Restart, Boot, Swept, KeptRevokedAt, KeptRevokedTokens
<1> QED
  BY <1>1, <1>2, <1>3, <1>4, <1>5, <1>6, <1>7, <1>8, <1>9, <1>10, <1>11, <1>12, <1>13, <1>14,
     <1>15, <1>16
     DEF Next

\* Whoever is named was registered, and a token marks its registration.
LEMMA RegisteredStep ==
    TypeOK /\ ClientsWereRegistered /\ TokensWereMinted /\ Next =>
        ClientsWereRegistered'
<1> SUFFICES ASSUME TypeOK, ClientsWereRegistered, TokensWereMinted, Next
             PROVE  ClientsWereRegistered'
  OBVIOUS
<1> USE NoRowAssumption DEF TypeOK, ClientsWereRegistered, TokensWereMinted, Known, ClientRow,
                            PendingRow, CodeRow, MintedRow, dbVars, memVars, histVars
<1>1. ASSUME NEW c \in Clients, RegisterClient(c) PROVE ClientsWereRegistered'
  BY <1>1 DEF RegisterClient, Swept
<1>2. ASSUME NEW c \in Clients, NEW r \in Requests, Authorize(c, r) PROVE ClientsWereRegistered'
  BY <1>2 DEF Authorize
<1>3. ASSUME NEW r \in Requests, Approve(r) PROVE ClientsWereRegistered'
  BY <1>3 DEF Approve
<1>4. ASSUME NEW r \in Requests, Deny(r) PROVE ClientsWereRegistered'
  BY <1>4 DEF Deny
<1>5. ASSUME NEW r \in Requests, Challenge(r) PROVE ClientsWereRegistered'
  BY <1>5 DEF Challenge
<1>6. ASSUME NEW r \in Requests, NEW t \in Tokens, ExchangeCode(r, t)
      PROVE  ClientsWereRegistered'
  BY <1>6 DEF ExchangeCode, Mint, Redeemable
<1>7. ASSUME NEW r \in Requests, ExchangeTooLate(r) PROVE ClientsWereRegistered'
  BY <1>7 DEF ExchangeTooLate
<1>8. ASSUME NEW c \in Clients, NEW t \in Tokens, NEW new \in Tokens, Refresh(c, t, new)
      PROVE  ClientsWereRegistered'
  BY <1>8 DEF Refresh, LiveFor, Mint
<1>9. ASSUME NEW c \in Clients, NEW t \in Tokens, RefreshWidens(c, t)
      PROVE  ClientsWereRegistered'
  BY <1>9 DEF RefreshWidens
<1>10. ASSUME NEW c \in Clients, NEW t \in Tokens, RefreshExpired(c, t)
       PROVE  ClientsWereRegistered'
  BY <1>10 DEF RefreshExpired
<1>11. ASSUME NEW c \in Clients, NEW t \in Tokens, RefreshReplayed(c, t)
       PROVE  ClientsWereRegistered'
  BY <1>11 DEF RefreshReplayed, Replayed, RevokeGrant, KeptRevokedAt, KeptRevokedTokens,
               TokensOf
<1>12. ASSUME NEW c \in Clients, NEW t \in Tokens, CrashInRefresh(c, t)
       PROVE  ClientsWereRegistered'
  BY <1>12 DEF CrashInRefresh, LiveFor, Boot, Swept, KeptRevokedAt, KeptRevokedTokens
<1>13. ASSUME NEW t \in Tokens, RevokeRefresh(t) PROVE ClientsWereRegistered'
  BY <1>13 DEF RevokeRefresh
<1>14. ASSUME NEW a \in access, RevokeAccess(a) PROVE ClientsWereRegistered'
  BY <1>14 DEF RevokeAccess, KeptRevokedAt, KeptRevokedTokens, ValidJwt
<1>15. CASE Tick
  BY <1>15 DEF Tick
<1>16. CASE Restart
  BY <1>16 DEF Restart, Boot, Swept, KeptRevokedAt, KeptRevokedTokens
<1> QED
  BY <1>1, <1>2, <1>3, <1>4, <1>5, <1>6, <1>7, <1>8, <1>9, <1>10, <1>11, <1>12, <1>13, <1>14,
     <1>15, <1>16
     DEF Next

\* Nothing is of the future.
LEMMA EarlyStep == TypeOK /\ NothingIsEarly /\ Next => NothingIsEarly'
<1> SUFFICES ASSUME TypeOK /\ NothingIsEarly, Next PROVE NothingIsEarly'
  OBVIOUS
<1> USE TimeAssumption DEF TypeOK, NothingIsEarly, Times, Never, AccessTokens, dbVars, memVars,
                           histVars
<1>1. ASSUME NEW c \in Clients, RegisterClient(c) PROVE NothingIsEarly'
  BY <1>1 DEF RegisterClient, Swept
<1>2. ASSUME NEW c \in Clients, NEW r \in Requests, Authorize(c, r) PROVE NothingIsEarly'
  BY <1>2 DEF Authorize
<1>3. ASSUME NEW r \in Requests, Approve(r) PROVE NothingIsEarly'
  BY <1>3 DEF Approve
<1>4. ASSUME NEW r \in Requests, Deny(r) PROVE NothingIsEarly'
  BY <1>4 DEF Deny
<1>5. ASSUME NEW r \in Requests, Challenge(r) PROVE NothingIsEarly'
  BY <1>5 DEF Challenge
<1>6. ASSUME NEW r \in Requests, NEW t \in Tokens, ExchangeCode(r, t) PROVE NothingIsEarly'
  BY <1>6 DEF ExchangeCode, Mint, Redeemable
<1>7. ASSUME NEW r \in Requests, ExchangeTooLate(r) PROVE NothingIsEarly'
  BY <1>7 DEF ExchangeTooLate
<1>8. ASSUME NEW c \in Clients, NEW t \in Tokens, NEW new \in Tokens, Refresh(c, t, new)
      PROVE  NothingIsEarly'
  BY <1>8 DEF Refresh, LiveFor, Mint
<1>9. ASSUME NEW c \in Clients, NEW t \in Tokens, RefreshWidens(c, t) PROVE NothingIsEarly'
  BY <1>9 DEF RefreshWidens
<1>10. ASSUME NEW c \in Clients, NEW t \in Tokens, RefreshExpired(c, t) PROVE NothingIsEarly'
  BY <1>10 DEF RefreshExpired
<1>11. ASSUME NEW c \in Clients, NEW t \in Tokens, RefreshReplayed(c, t) PROVE NothingIsEarly'
  BY <1>11 DEF RefreshReplayed, Replayed, RevokeGrant, KeptRevokedAt, KeptRevokedTokens,
               TokensOf
<1>12. ASSUME NEW c \in Clients, NEW t \in Tokens, CrashInRefresh(c, t) PROVE NothingIsEarly'
  BY <1>12 DEF CrashInRefresh, LiveFor, Boot, Swept, KeptRevokedAt, KeptRevokedTokens
<1>13. ASSUME NEW t \in Tokens, RevokeRefresh(t) PROVE NothingIsEarly'
  BY <1>13 DEF RevokeRefresh
<1>14. ASSUME NEW a \in access, RevokeAccess(a) PROVE NothingIsEarly'
  BY <1>14 DEF RevokeAccess, KeptRevokedAt, KeptRevokedTokens, ValidJwt
<1>15. CASE Tick
  BY <1>15 DEF Tick
<1>16. CASE Restart
  BY <1>16 DEF Restart, Boot, Swept, KeptRevokedAt, KeptRevokedTokens
<1> QED
  BY <1>1, <1>2, <1>3, <1>4, <1>5, <1>6, <1>7, <1>8, <1>9, <1>10, <1>11, <1>12, <1>13, <1>14,
     <1>15, <1>16
     DEF Next

\* A consent keeps at most one live token: a code is redeemed before it has one, and a
\* refresh takes the old one away.
LEMMA OneLiveStep ==
    TypeOK /\ TokensWereMinted /\ ConsentsGoForward /\ OneLiveTokenPerConsent /\ Next =>
        OneLiveTokenPerConsent'
<1> SUFFICES ASSUME TypeOK, TokensWereMinted, ConsentsGoForward, OneLiveTokenPerConsent, Next
             PROVE  OneLiveTokenPerConsent'
  OBVIOUS
<1> USE TimeAssumption, NoRowAssumption DEF TypeOK, TokensWereMinted, ConsentsGoForward,
                                            Unredeemed, OneLiveTokenPerConsent, Times, CodeRow,
                                            MintedRow, dbVars, memVars, histVars
<1>1. ASSUME NEW c \in Clients, RegisterClient(c) PROVE OneLiveTokenPerConsent'
  BY <1>1 DEF RegisterClient, Swept
<1>2. ASSUME NEW c \in Clients, NEW r \in Requests, Authorize(c, r)
      PROVE  OneLiveTokenPerConsent'
  BY <1>2 DEF Authorize
<1>3. ASSUME NEW r \in Requests, Approve(r) PROVE OneLiveTokenPerConsent'
  BY <1>3 DEF Approve
<1>4. ASSUME NEW r \in Requests, Deny(r) PROVE OneLiveTokenPerConsent'
  BY <1>4 DEF Deny
<1>5. ASSUME NEW r \in Requests, Challenge(r) PROVE OneLiveTokenPerConsent'
  BY <1>5 DEF Challenge
<1>6. ASSUME NEW r \in Requests, NEW t \in Tokens, ExchangeCode(r, t)
      PROVE  OneLiveTokenPerConsent'
  BY <1>6 DEF ExchangeCode, Mint, Redeemable
<1>7. ASSUME NEW r \in Requests, ExchangeTooLate(r) PROVE OneLiveTokenPerConsent'
  BY <1>7 DEF ExchangeTooLate
<1>8. ASSUME NEW c \in Clients, NEW t \in Tokens, NEW new \in Tokens, Refresh(c, t, new)
      PROVE  OneLiveTokenPerConsent'
  BY <1>8 DEF Refresh, LiveFor, Mint
<1>9. ASSUME NEW c \in Clients, NEW t \in Tokens, RefreshWidens(c, t)
      PROVE  OneLiveTokenPerConsent'
  BY <1>9 DEF RefreshWidens
<1>10. ASSUME NEW c \in Clients, NEW t \in Tokens, RefreshExpired(c, t)
       PROVE  OneLiveTokenPerConsent'
  BY <1>10 DEF RefreshExpired
<1>11. ASSUME NEW c \in Clients, NEW t \in Tokens, RefreshReplayed(c, t)
       PROVE  OneLiveTokenPerConsent'
  BY <1>11 DEF RefreshReplayed, Replayed, RevokeGrant, KeptRevokedAt, KeptRevokedTokens,
               TokensOf
<1>12. ASSUME NEW c \in Clients, NEW t \in Tokens, CrashInRefresh(c, t)
       PROVE  OneLiveTokenPerConsent'
  BY <1>12 DEF CrashInRefresh, LiveFor, Boot, Swept, KeptRevokedAt, KeptRevokedTokens
<1>13. ASSUME NEW t \in Tokens, RevokeRefresh(t) PROVE OneLiveTokenPerConsent'
  BY <1>13 DEF RevokeRefresh
<1>14. ASSUME NEW a \in access, RevokeAccess(a) PROVE OneLiveTokenPerConsent'
  BY <1>14 DEF RevokeAccess, KeptRevokedAt, KeptRevokedTokens, ValidJwt
<1>15. CASE Tick
  BY <1>15 DEF Tick
<1>16. CASE Restart
  BY <1>16 DEF Restart, Boot, Swept, KeptRevokedAt, KeptRevokedTokens
<1> QED
  BY <1>1, <1>2, <1>3, <1>4, <1>5, <1>6, <1>7, <1>8, <1>9, <1>10, <1>11, <1>12, <1>13, <1>14,
     <1>15, <1>16
     DEF Next

\* What was revoked is not remembered.
LEMMA RevokedRefreshStep ==
    TypeOK /\ TokensWereMinted /\ RevokedRefreshTokensStayGone /\ Next =>
        RevokedRefreshTokensStayGone'
<1> SUFFICES ASSUME TypeOK, TokensWereMinted, RevokedRefreshTokensStayGone, Next
             PROVE  RevokedRefreshTokensStayGone'
  OBVIOUS
<1> USE TimeAssumption, NoRowAssumption DEF TypeOK, TokensWereMinted,
                                            RevokedRefreshTokensStayGone, Times, CodeRow,
                                            MintedRow, dbVars, memVars, histVars
<1>1. ASSUME NEW c \in Clients, RegisterClient(c) PROVE RevokedRefreshTokensStayGone'
  BY <1>1 DEF RegisterClient, Swept
<1>2. ASSUME NEW c \in Clients, NEW r \in Requests, Authorize(c, r)
      PROVE  RevokedRefreshTokensStayGone'
  BY <1>2 DEF Authorize
<1>3. ASSUME NEW r \in Requests, Approve(r) PROVE RevokedRefreshTokensStayGone'
  BY <1>3 DEF Approve
<1>4. ASSUME NEW r \in Requests, Deny(r) PROVE RevokedRefreshTokensStayGone'
  BY <1>4 DEF Deny
<1>5. ASSUME NEW r \in Requests, Challenge(r) PROVE RevokedRefreshTokensStayGone'
  BY <1>5 DEF Challenge
<1>6. ASSUME NEW r \in Requests, NEW t \in Tokens, ExchangeCode(r, t)
      PROVE  RevokedRefreshTokensStayGone'
  BY <1>6 DEF ExchangeCode, Mint, Redeemable
<1>7. ASSUME NEW r \in Requests, ExchangeTooLate(r) PROVE RevokedRefreshTokensStayGone'
  BY <1>7 DEF ExchangeTooLate
<1>8. ASSUME NEW c \in Clients, NEW t \in Tokens, NEW new \in Tokens, Refresh(c, t, new)
      PROVE  RevokedRefreshTokensStayGone'
  BY <1>8 DEF Refresh, LiveFor, Mint
<1>9. ASSUME NEW c \in Clients, NEW t \in Tokens, RefreshWidens(c, t)
      PROVE  RevokedRefreshTokensStayGone'
  BY <1>9 DEF RefreshWidens
<1>10. ASSUME NEW c \in Clients, NEW t \in Tokens, RefreshExpired(c, t)
       PROVE  RevokedRefreshTokensStayGone'
  BY <1>10 DEF RefreshExpired
<1>11. ASSUME NEW c \in Clients, NEW t \in Tokens, RefreshReplayed(c, t)
       PROVE  RevokedRefreshTokensStayGone'
  BY <1>11 DEF RefreshReplayed, Replayed, RevokeGrant, KeptRevokedAt, KeptRevokedTokens,
               TokensOf
<1>12. ASSUME NEW c \in Clients, NEW t \in Tokens, CrashInRefresh(c, t)
       PROVE  RevokedRefreshTokensStayGone'
  BY <1>12 DEF CrashInRefresh, LiveFor, Boot, Swept, KeptRevokedAt, KeptRevokedTokens
<1>13. ASSUME NEW t \in Tokens, RevokeRefresh(t) PROVE RevokedRefreshTokensStayGone'
  BY <1>13 DEF RevokeRefresh
<1>14. ASSUME NEW a \in access, RevokeAccess(a) PROVE RevokedRefreshTokensStayGone'
  BY <1>14 DEF RevokeAccess, KeptRevokedAt, KeptRevokedTokens, ValidJwt
<1>15. CASE Tick
  BY <1>15 DEF Tick
<1>16. CASE Restart
  BY <1>16 DEF Restart, Boot, Swept, KeptRevokedAt, KeptRevokedTokens
<1> QED
  BY <1>1, <1>2, <1>3, <1>4, <1>5, <1>6, <1>7, <1>8, <1>9, <1>10, <1>11, <1>12, <1>13, <1>14,
     <1>15, <1>16
     DEF Next

\* A rejected access token is rejected by the lists until it has run out.
LEMMA RevokedAccessStep ==
    TypeOK /\ NothingIsEarly /\ RevokedAccessTokensAreRejected /\ Next =>
        RevokedAccessTokensAreRejected'
<1> SUFFICES ASSUME TypeOK, NothingIsEarly, RevokedAccessTokensAreRejected, Next
             PROVE  RevokedAccessTokensAreRejected'
  OBVIOUS
<1> USE TimeAssumption DEF TypeOK, NothingIsEarly, RevokedAccessTokensAreRejected, Accepts,
                           ValidJwt, Times, Never, AccessTokens, dbVars, memVars, histVars
<1>1. ASSUME NEW c \in Clients, RegisterClient(c) PROVE RevokedAccessTokensAreRejected'
  BY <1>1 DEF RegisterClient, Swept
<1>2. ASSUME NEW c \in Clients, NEW r \in Requests, Authorize(c, r)
      PROVE  RevokedAccessTokensAreRejected'
  BY <1>2 DEF Authorize
<1>3. ASSUME NEW r \in Requests, Approve(r) PROVE RevokedAccessTokensAreRejected'
  BY <1>3 DEF Approve
<1>4. ASSUME NEW r \in Requests, Deny(r) PROVE RevokedAccessTokensAreRejected'
  BY <1>4 DEF Deny
<1>5. ASSUME NEW r \in Requests, Challenge(r) PROVE RevokedAccessTokensAreRejected'
  BY <1>5 DEF Challenge
<1>6. ASSUME NEW r \in Requests, NEW t \in Tokens, ExchangeCode(r, t)
      PROVE  RevokedAccessTokensAreRejected'
  BY <1>6 DEF ExchangeCode, Mint, Redeemable
<1>7. ASSUME NEW r \in Requests, ExchangeTooLate(r) PROVE RevokedAccessTokensAreRejected'
  BY <1>7 DEF ExchangeTooLate
<1>8. ASSUME NEW c \in Clients, NEW t \in Tokens, NEW new \in Tokens, Refresh(c, t, new)
      PROVE  RevokedAccessTokensAreRejected'
  BY <1>8 DEF Refresh, LiveFor, Mint
<1>9. ASSUME NEW c \in Clients, NEW t \in Tokens, RefreshWidens(c, t)
      PROVE  RevokedAccessTokensAreRejected'
  BY <1>9 DEF RefreshWidens
<1>10. ASSUME NEW c \in Clients, NEW t \in Tokens, RefreshExpired(c, t)
       PROVE  RevokedAccessTokensAreRejected'
  BY <1>10 DEF RefreshExpired
<1>11. ASSUME NEW c \in Clients, NEW t \in Tokens, RefreshReplayed(c, t)
       PROVE  RevokedAccessTokensAreRejected'
  BY <1>11 DEF RefreshReplayed, Replayed, RevokeGrant, KeptRevokedAt, KeptRevokedTokens,
               TokensOf
<1>12. ASSUME NEW c \in Clients, NEW t \in Tokens, CrashInRefresh(c, t)
       PROVE  RevokedAccessTokensAreRejected'
  BY <1>12 DEF CrashInRefresh, LiveFor, Boot, Swept, KeptRevokedAt, KeptRevokedTokens
<1>13. ASSUME NEW t \in Tokens, RevokeRefresh(t) PROVE RevokedAccessTokensAreRejected'
  BY <1>13 DEF RevokeRefresh
<1>14. ASSUME NEW a \in access, RevokeAccess(a) PROVE RevokedAccessTokensAreRejected'
  <2> SUFFICES ASSUME NEW b \in dead' PROVE ~Accepts(b)'
    OBVIOUS
  <2>1. KeptRevokedTokens \subseteq revokedTokens' /\ \E r \in revokedTokens' : r.token = a
    <3>1. CASE \E r \in KeptRevokedTokens : r.token = a
      BY <1>14, <3>1, Zenon DEF RevokeAccess
    <3>2. CASE ~ \E r \in KeptRevokedTokens : r.token = a
      <4>1. revokedTokens' = KeptRevokedTokens \union {[token |-> a, at |-> now]}
        BY <1>14, <3>2, Zenon DEF RevokeAccess
      <4> HIDE DEF KeptRevokedTokens
      <4>2. [token |-> a, at |-> now] \in revokedTokens' /\ [token |-> a, at |-> now].token = a
        BY <4>1, Zenon
      <4> QED
        BY <4>1, <4>2, Zenon
    <3> QED
      BY <3>1, <3>2, Zenon
  <2>2. now' = now /\ revokedAt' = KeptRevokedAt /\ (b = a \/ b \in dead)
    BY <1>14 DEF RevokeAccess
  <2>3. CASE b = a
    BY <2>1, <2>3
  <2>4. CASE b \in dead
    BY <2>1, <2>2, <2>4 DEF KeptRevokedTokens, KeptRevokedAt
  <2> QED
    BY <2>2, <2>3, <2>4
<1>15. CASE Tick
  BY <1>15 DEF Tick
<1>16. CASE Restart
  BY <1>16 DEF Restart, Boot, Swept, KeptRevokedAt, KeptRevokedTokens
<1> QED
  BY <1>1, <1>2, <1>3, <1>4, <1>5, <1>6, <1>7, <1>8, <1>9, <1>10, <1>11, <1>12, <1>13, <1>14,
     <1>15, <1>16
     DEF Next

\* A rotated token stays on record until it runs out or its grant is gone.
LEMMA ReplaysStep ==
    TypeOK /\ TokensWereMinted /\ ReplaysAreRecognised /\ Next =>
        ReplaysAreRecognised'
<1> SUFFICES ASSUME TypeOK, TokensWereMinted, ReplaysAreRecognised, Next
             PROVE  ReplaysAreRecognised'
  OBVIOUS
<1> USE TimeAssumption, NoRowAssumption DEF TypeOK, TokensWereMinted, ReplaysAreRecognised,
                                            Unexpired, Times, MintedRow, dbVars, memVars,
                                            histVars
<1>1. ASSUME NEW c \in Clients, RegisterClient(c) PROVE ReplaysAreRecognised'
  BY <1>1 DEF RegisterClient, Swept
<1>2. ASSUME NEW c \in Clients, NEW r \in Requests, Authorize(c, r) PROVE ReplaysAreRecognised'
  BY <1>2 DEF Authorize
<1>3. ASSUME NEW r \in Requests, Approve(r) PROVE ReplaysAreRecognised'
  BY <1>3 DEF Approve
<1>4. ASSUME NEW r \in Requests, Deny(r) PROVE ReplaysAreRecognised'
  BY <1>4 DEF Deny
<1>5. ASSUME NEW r \in Requests, Challenge(r) PROVE ReplaysAreRecognised'
  BY <1>5 DEF Challenge
<1>6. ASSUME NEW r \in Requests, NEW t \in Tokens, ExchangeCode(r, t)
      PROVE  ReplaysAreRecognised'
  BY <1>6 DEF ExchangeCode, Mint, Redeemable
<1>7. ASSUME NEW r \in Requests, ExchangeTooLate(r) PROVE ReplaysAreRecognised'
  BY <1>7 DEF ExchangeTooLate
<1>8. ASSUME NEW c \in Clients, NEW t \in Tokens, NEW new \in Tokens, Refresh(c, t, new)
      PROVE  ReplaysAreRecognised'
  BY <1>8 DEF Refresh, LiveFor, Mint
<1>9. ASSUME NEW c \in Clients, NEW t \in Tokens, RefreshWidens(c, t)
      PROVE  ReplaysAreRecognised'
  BY <1>9 DEF RefreshWidens
<1>10. ASSUME NEW c \in Clients, NEW t \in Tokens, RefreshExpired(c, t)
       PROVE  ReplaysAreRecognised'
  BY <1>10 DEF RefreshExpired
<1>11. ASSUME NEW c \in Clients, NEW t \in Tokens, RefreshReplayed(c, t)
       PROVE  ReplaysAreRecognised'
  BY <1>11 DEF RefreshReplayed, Replayed, RevokeGrant, KeptRevokedAt, KeptRevokedTokens,
               TokensOf
<1>12. ASSUME NEW c \in Clients, NEW t \in Tokens, CrashInRefresh(c, t)
       PROVE  ReplaysAreRecognised'
  BY <1>12 DEF CrashInRefresh, LiveFor, Boot, Swept, KeptRevokedAt, KeptRevokedTokens
<1>13. ASSUME NEW t \in Tokens, RevokeRefresh(t) PROVE ReplaysAreRecognised'
  BY <1>13 DEF RevokeRefresh
<1>14. ASSUME NEW a \in access, RevokeAccess(a) PROVE ReplaysAreRecognised'
  BY <1>14 DEF RevokeAccess, KeptRevokedAt, KeptRevokedTokens, ValidJwt
<1>15. CASE Tick
  BY <1>15 DEF Tick
<1>16. CASE Restart
  BY <1>16 DEF Restart, Boot, Swept, KeptRevokedAt, KeptRevokedTokens
<1> QED
  BY <1>1, <1>2, <1>3, <1>4, <1>5, <1>6, <1>7, <1>8, <1>9, <1>10, <1>11, <1>12, <1>13, <1>14,
     <1>15, <1>16
     DEF Next

-----------------------------------------------------------------------------
(* The theorems                                                                *)

\* Initially nobody is registered and nothing was issued.
LEMMA InitInvariant == Init => ProviderInvariant
  BY TimeAssumption, NoRowAssumption
     DEF Init, ProviderInvariant, TypeOK, TokensWereMinted, ConsentsGoForward, Unredeemed,
         ClientsWereRegistered, Known, NothingIsEarly, OneLiveTokenPerConsent,
         RevokedRefreshTokensStayGone, RevokedAccessTokensAreRejected, ReplaysAreRecognised,
         Times, Never

\* Every step keeps the invariant.
LEMMA NextInvariant == ProviderInvariant /\ [Next]_vars => ProviderInvariant'
<1> SUFFICES ASSUME ProviderInvariant, [Next]_vars PROVE ProviderInvariant'
  OBVIOUS
<1>1. CASE Next
  BY <1>1, TypeStep, MintedStep, ConsentsStep, RegisteredStep, EarlyStep, OneLiveStep,
     RevokedRefreshStep, RevokedAccessStep, ReplaysStep DEF ProviderInvariant
<1>2. CASE UNCHANGED vars
  BY <1>2 DEF vars, ProviderInvariant, TypeOK, TokensWereMinted, ConsentsGoForward,
     Unredeemed, ClientsWereRegistered, Known, NothingIsEarly, OneLiveTokenPerConsent,
     RevokedRefreshTokensStayGone, RevokedAccessTokensAreRejected, ReplaysAreRecognised,
     Accepts, ValidJwt, Unexpired
<1> QED
  BY <1>1, <1>2

\* The invariant holds in every reachable state.
LEMMA ProviderInvariantHolds == Spec => []ProviderInvariant
  BY InitInvariant, NextInvariant, PTL DEF Spec

\* Rows, lists, requests and codes keep their types.
THEOREM ProviderTypeCorrect == Spec => []TypeOK
<1>1. ProviderInvariant => TypeOK
  BY DEF ProviderInvariant
<1> QED
  BY <1>1, ProviderInvariantHolds, PTL

\* One consent has at most one live refresh token, however its code and its tokens
\* are presented again and wherever the server stops (oauth-provider.ts 496-502, 648).
THEOREM OneTokenLives == Spec => []OneLiveTokenPerConsent
<1>1. ProviderInvariant => OneLiveTokenPerConsent
  BY DEF ProviderInvariant
<1> QED
  BY <1>1, ProviderInvariantHolds, PTL

\* A refresh token that was revoked is neither live nor on record again (lines
\* 423-429).
THEOREM RevokedRefreshIsFinal == Spec => []RevokedRefreshTokensStayGone
<1>1. ProviderInvariant => RevokedRefreshTokensStayGone
  BY DEF ProviderInvariant
<1> QED
  BY <1>1, ProviderInvariantHolds, PTL

\* An access token that was revoked is never accepted again, though both lists are
\* purged (lines 397-402, 777-784).
THEOREM RevokedAccessIsFinal == Spec => []RevokedAccessTokensAreRejected
<1>1. ProviderInvariant => RevokedAccessTokensAreRejected
  BY DEF ProviderInvariant
<1> QED
  BY <1>1, ProviderInvariantHolds, PTL

\* A rotated token is recognised as replayed until it runs out or its grant is gone
\* (lines 365-367, 474-476).
THEOREM ReplaysAreSeen == Spec => []ReplaysAreRecognised
<1>1. ProviderInvariant => ReplaysAreRecognised
  BY DEF ProviderInvariant
<1> QED
  BY <1>1, ProviderInvariantHolds, PTL

\* No step drops the registration of a client that has a saved refresh token (lines
\* 207-212, 447-449): every such client is marked, and sweeps spare the marked.
LEMMA SweepsKeepSignedIn ==
    ProviderInvariant /\ [Next]_vars =>
        \A c \in Clients : Known(c) /\ TokensOf(c) /= {} => Known(c)'
<1> SUFFICES ASSUME ProviderInvariant, [Next]_vars,
                    NEW c \in Clients, Known(c), TokensOf(c) /= {}
             PROVE  Known(c)'
  OBVIOUS
<1>1. c \in born /\ clients[c] \in ClientRow /\ clients[c].signedIn
  BY DEF ProviderInvariant, ClientsWereRegistered, TypeOK, Known, TokensOf
<1>2. Swept(clients)[c] = clients[c]
  BY <1>1 DEF Swept
<1>3. ASSUME NEW d \in Clients, RegisterClient(d) PROVE Known(c)'
  BY <1>1, <1>2, <1>3 DEF RegisterClient, Known, Swept
<1>4. CASE Restart \/ \E d \in Clients, t \in Tokens : CrashInRefresh(d, t)
  BY <1>2, <1>4 DEF Restart, CrashInRefresh, Boot, Known
<1>5. ASSUME NEW d, NEW r, NEW t, NEW rest, NEW used, Mint(d, r, t, rest, used)
      PROVE  Known(c)'
  BY <1>1, <1>5, NoRowAssumption DEF Mint, Known, ClientRow, ProviderInvariant, TypeOK
<1>6. CASE UNCHANGED clients
  BY <1>6 DEF Known
<1> QED
  BY <1>3, <1>4, <1>5, <1>6 DEF Next, vars, dbVars, memVars, histVars, Authorize, Approve, Deny,
     Challenge, ExchangeCode, ExchangeTooLate, Refresh, RefreshWidens, RefreshExpired,
     RefreshReplayed, RevokeRefresh, RevokeAccess, Tick

\* A registration with a saved refresh token is never swept.
THEOREM SweepsSpareTheSignedIn == Spec => SignedInClientsAreKept
  BY ProviderInvariantHolds, SweepsKeepSignedIn, PTL DEF Spec, SignedInClientsAreKept
=============================================================================
