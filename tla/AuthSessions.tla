---------------------------- MODULE AuthSessions ----------------------------
(***************************************************************************)
(* Wallet login, sessions and token rotation of the backend:               *)
(* veilend-backend/src/auth and PrismaService.  Requests run concurrently. *)
(* Every database statement outside a transaction is a step of its own, so *)
(* that what a request read may be stale when it acts.  A transaction is   *)
(* one step, except rotation, which plain READ COMMITTED statements of     *)
(* other requests overlap: it claims the presented row, and its writes     *)
(* appear when it commits.  Until then nobody sees them, and whoever wants *)
(* to write the claimed row waits.  A token pair p is the access token     *)
(* with jti p and the refresh token minted with it.  Audit rows, which no  *)
(* code path reads back to decide anything, are left out.                  *)
(***************************************************************************)
EXTENDS Integers, FiniteSets

CONSTANTS Wallets,         \* wallet addresses; a user is its wallet (upsert)
          Requests,        \* HTTP requests in flight at the same time
          MaxNonces,       \* bound on challenges ever issued
          MaxSessions,     \* bound on sessions ever created
          MaxPairs,        \* bound on token pairs ever minted
          Horizon,         \* last time at which anything is issued
          NonceTTL, AccessTTL, RefreshTTL,
          MaxRetries,      \* MAX_RETRIES of PrismaService
          LegacyAllow,     \* LEGACY_AUTH_ALLOW
          LegacyOwner      \* wallet of the one session from before rotation

Nonces == 1 .. MaxNonces
Sessions == 1 .. MaxSessions
Pairs == 1 .. MaxPairs
LastTime == Horizon + RefreshTTL
LegacySession == 1

ASSUME AuthAssumption ==
  /\ {MaxNonces, MaxSessions, MaxPairs, NonceTTL, MaxRetries} \subseteq Nat \ {0}
  /\ Horizon \in Nat
  /\ AccessTTL \in Nat \ {0} /\ RefreshTTL \in Nat /\ AccessTTL <= RefreshTTL
  /\ LegacyAllow \in BOOLEAN /\ LegacyOwner \in Wallets

VARIABLES
  now,          \* wall clock
  nonce,        \* WalletNonce rows
  session,      \* Session rows
  pair,         \* what a pair was minted for: session, family and expiries
  refreshRow,   \* RefreshToken row of a pair
  jtiRow,       \* JtiRegistry row of a pair
  nNonce, nSession, nPair,   \* how many were issued: fresh ids
  req,          \* requests in flight
  compromised,  \* families whose refresh tokens a reuse response revoked
  shutDown,     \* families whose reuse response ran to its end
  overtaken     \* families in which a rotation committed after a reuse
                \* response had taken the snapshot of its update

rows == <<nonce, session, pair, refreshRow, jtiRow, nNonce, nSession, nPair>>
history == <<compromised, shutDown, overtaken>>
vars == <<now, rows, req, history>>

Idle == [pc |-> "idle"]

AuthInit ==
  /\ now = 0
  /\ nonce = [n \in Nonces |-> [row |-> "none", wallet |-> LegacyOwner, expiresAt |-> 0]]
  /\ session = [s \in Sessions |->
       [row |-> IF s = LegacySession THEN "present" ELSE "none", user |-> LegacyOwner,
        nonce |-> 0, expiresAt |-> Horizon]]
  /\ pair = [p \in Pairs |-> [session |-> LegacySession, family |-> 0,
                              accessExp |-> 0, refreshExp |-> 0]]
  /\ refreshRow = [p \in Pairs |-> "none"]
  /\ jtiRow = [p \in Pairs |-> "none"]
  /\ nNonce = 0 /\ nSession = 1 /\ nPair = 0
  /\ req = [r \in Requests |-> Idle]
  /\ compromised = {} /\ shutDown = {} /\ overtaken = {}

Goto(r, state) == req' = [req EXCEPT ![r] = state]
Finish(r) == Goto(r, Idle)

-----------------------------------------------------------------------------
(* Challenges.                                                             *)

\* One transaction: every unused nonce of the wallet is spent, a new one is
\* written.
GenerateNonce(w) ==
  LET n == nNonce + 1 IN
  /\ nNonce < MaxNonces /\ now <= Horizon
  /\ nonce' = [k \in Nonces |->
       IF k = n THEN [row |-> "unused", wallet |-> w, expiresAt |-> now + NonceTTL]
       ELSE IF nonce[k].wallet = w /\ nonce[k].row = "unused"
         THEN [nonce[k] EXCEPT !.row = "used"] ELSE nonce[k]]
  /\ nNonce' = n
  /\ UNCHANGED <<now, session, pair, refreshRow, jtiRow, nSession, nPair, req, history>>

\* Mutant: the used flag is read before the transaction and not in it.
NonceClaimableUsed(n, w) == nonce[n].wallet = w /\ now < nonce[n].expiresAt

\* The conditional update that claims a nonce.
NonceClaimable(n, w) ==
  nonce[n].wallet = w /\ nonce[n].row = "unused" /\ now < nonce[n].expiresAt

\* The rows of a fresh pair for session s of family f (inside a transaction).
IssueTokenPair(s, f) ==
  LET p == nPair + 1 IN
  /\ nPair < MaxPairs /\ now <= Horizon
  /\ pair' = [pair EXCEPT ![p] = [session |-> s, family |-> f,
                 accessExp |-> now + AccessTTL, refreshExp |-> now + RefreshTTL]]
  /\ jtiRow' = [jtiRow EXCEPT ![p] = "live"]
  /\ nPair' = p

\* verifyWallet: the transaction claims the nonce and creates the session
\* and its first pair.  Any wallet may sign any issued nonce; an invalid
\* signature changes nothing and is no step.  The session id serves as the
\* family id: both are fresh.
VerifyWallet(w, n) ==
  LET s == nSession + 1 IN
  /\ n <= nNonce
  /\ NonceClaimable(n, w)
  /\ nSession < MaxSessions
  /\ nonce' = [nonce EXCEPT ![n].row = "used"]
  /\ IssueTokenPair(s, s)
  /\ refreshRow' = [refreshRow EXCEPT ![nPair'] = "live"]
  /\ session' = [session EXCEPT ![s] = [row |-> "present", user |-> w, nonce |-> n,
                                        expiresAt |-> now + AccessTTL]]
  /\ nSession' = s
  /\ UNCHANGED <<now, nNonce, req, history>>

\* Zero rows claimed: the diagnosis after the rollback spends a nonce that
\* was only expired; an unknown or used one is left as it is.
HandleNonceClaimFailure(w, n) ==
  /\ n <= nNonce
  /\ ~NonceClaimable(n, w)
  /\ nonce[n].wallet = w /\ nonce[n].row = "unused"
  /\ nonce' = [nonce EXCEPT ![n].row = "used"]
  /\ UNCHANGED <<now, session, pair, refreshRow, jtiRow, nNonce, nSession, nPair, req, history>>

-----------------------------------------------------------------------------
(* Rotation.                                                               *)

\* refreshTokens up to the transaction: any token ever handed out may be
\* presented, again and again.
ReadRefreshToken(r, p) ==
  /\ req[r].pc = "idle" /\ p <= nPair /\ refreshRow[p] # "gone"
  /\ \/ /\ refreshRow[p] = "revoked"
        /\ Goto(r, [pc |-> "reuse", pair |-> p])
     \/ /\ refreshRow[p] = "live" /\ now < pair[p].refreshExp
        /\ Goto(r, [pc |-> "rotate", pair |-> p, attempt |-> 0])
  /\ UNCHANGED <<now, rows, history>>

\* Mutant: the claim matches the row by its id alone.
RefreshClaimableById(p) == refreshRow[p] \in {"live", "revoked"}

\* The conditional update that claims a refresh token.
RefreshClaimable(p) == refreshRow[p] = "live"

\* The rows a running rotation has claimed: updated, locked, not committed.
Claimed == {req[r].pair : r \in {q \in Requests : req[q].pc = "claimed"}}

\* The transaction begins: it claims the presented token, unless a running
\* rotation holds the row, for which it waits.
ClaimRefreshToken(r) ==
  /\ req[r].pc = "rotate"
  /\ RefreshClaimable(req[r].pair) /\ req[r].pair \notin Claimed
  /\ Goto(r, [req[r] EXCEPT !.pc = "claimed"])
  /\ UNCHANGED <<now, rows, history>>

\* The reuse responses of p's family whose update has its snapshot and is
\* not through.
Revoking(p) ==
  {r \in Requests : req[r].pc = "revoking" /\ pair[req[r].pair].family = pair[p].family}

\* It commits: the presented token is revoked, and its successor minted for
\* the same session and family.
RotateRefreshToken(r) ==
  LET p == req[r].pair IN
  /\ req[r].pc = "claimed"
  /\ IssueTokenPair(pair[p].session, pair[p].family)
  /\ refreshRow' = [refreshRow EXCEPT ![p] = "revoked", ![nPair'] = "live"]
  /\ session' = [session EXCEPT ![pair[p].session].expiresAt = now + AccessTTL]
  /\ overtaken' = overtaken \cup (IF Revoking(p) # {} THEN {pair[p].family} ELSE {})
  /\ Finish(r)
  /\ UNCHANGED <<now, nonce, nNonce, nSession, compromised, shutDown>>

\* Somebody else claimed, revoked or deleted the row since it was read.
RotateRefused(r) ==
  /\ req[r].pc = "rotate"
  /\ ~RefreshClaimable(req[r].pair)
  /\ Goto(r, [pc |-> "reuse", pair |-> req[r].pair])
  /\ UNCHANGED <<now, rows, history>>

FamilyOf(p) == {q \in Pairs : q <= nPair /\ pair[q].family = pair[p].family}

\* handleRefreshReuse, statement by statement.  The update that revokes the
\* family takes its snapshot: the rows live and committed now ...
BeginRevoke(r) ==
  LET p == req[r].pair IN
  /\ req[r].pc = "reuse"
  /\ Goto(r, [pc |-> "revoking", pair |-> p,
              seen |-> {q \in FamilyOf(p) : refreshRow[q] = "live"}])
  /\ UNCHANGED <<now, rows, history>>

\* Mutant: only the presented token is revoked.
RevokePresented(r) ==
  LET p == req[r].pair IN
  /\ req[r].pc = "revoking"
  /\ refreshRow' = [refreshRow EXCEPT ![p] = IF @ = "live" THEN "revoked" ELSE @]
  /\ compromised' = compromised \cup {pair[p].family}
  /\ Goto(r, [pc |-> "findJtis", pair |-> p])
  /\ UNCHANGED <<now, nonce, session, pair, jtiRow, nNonce, nSession, nPair, shutDown, overtaken>>

\* ... and revokes those still live, once no rotation holds one of them.  A
\* successor committed in between is not among them ...
RevokeFamily(r) ==
  LET p == req[r].pair IN
  /\ req[r].pc = "revoking"
  /\ req[r].seen \cap Claimed = {}
  /\ refreshRow' = [q \in Pairs |->
       IF q \in req[r].seen /\ refreshRow[q] = "live" THEN "revoked" ELSE refreshRow[q]]
  /\ compromised' = compromised \cup {pair[p].family}
  /\ Goto(r, [pc |-> "findJtis", pair |-> p])
  /\ UNCHANGED <<now, nonce, session, pair, jtiRow, nNonce, nSession, nPair, shutDown, overtaken>>

\* ... read the jtis of every token row of the family ...
FindFamilyJtis(r) ==
  LET p == req[r].pair IN
  /\ req[r].pc = "findJtis"
  /\ Goto(r, [pc |-> "revokeJtis", pair |-> p,
       jtis |-> {q \in FamilyOf(p) : refreshRow[q] \in {"live", "revoked"}}])
  /\ UNCHANGED <<now, rows, history>>

\* ... and revoke the registry entries that were read.
RevokeFamilyJtis(r) ==
  /\ req[r].pc = "revokeJtis"
  /\ jtiRow' = [q \in Pairs |->
       IF q \in req[r].jtis /\ jtiRow[q] = "live" THEN "revoked" ELSE jtiRow[q]]
  /\ shutDown' = shutDown \cup {pair[req[r].pair].family}
  /\ Finish(r)
  /\ UNCHANGED <<now, nonce, session, pair, refreshRow, nNonce, nSession, nPair, compromised,
                 overtaken>>

\* A serialization failure or deadlock rolls the transaction back: _withRetry
\* runs it again, until the last attempt, whose error ends the request.
TxConflict(r) ==
  /\ req[r].pc \in {"rotate", "claimed"}
  /\ IF req[r].attempt + 1 < MaxRetries
       THEN Goto(r, [req[r] EXCEPT !.pc = "rotate", !.attempt = @ + 1])
       ELSE Finish(r)
  /\ UNCHANGED <<now, rows, history>>

-----------------------------------------------------------------------------
(* Authenticated requests: the guard, then the controller's handler.       *)

\* validateJtiToken, first statement: Passport and the registry row.
ReadJti(r, p) ==
  /\ req[r].pc = "idle" /\ p <= nPair
  /\ jtiRow[p] = "live" /\ now < pair[p].accessExp
  /\ Goto(r, [pc |-> "readSession", session |-> pair[p].session])
  /\ UNCHANGED <<now, rows, history>>

SessionValid(s) == session[s].row = "present" /\ now <= session[s].expiresAt

\* Second statement: the session row decides.
ReadSession(r) ==
  LET s == req[r].session IN
  /\ req[r].pc = "readSession"
  /\ IF SessionValid(s)
       THEN Goto(r, [pc |-> "authorised", session |-> s, user |-> session[s].user])
       ELSE Finish(r)
  /\ UNCHANGED <<now, rows, history>>

\* A token without jti is looked up by the hash its session row stores.
ValidateLegacyToken(r) ==
  /\ req[r].pc = "idle" /\ LegacyAllow
  /\ SessionValid(LegacySession)
  /\ Goto(r, [pc |-> "authorised", session |-> LegacySession, user |-> session[LegacySession].user])
  /\ UNCHANGED <<now, rows, history>>

\* Deleting session rows cascades to their token rows, and waits for a
\* rotation that holds one of them.
DeleteSessions(S) ==
  /\ \A p \in Claimed : pair[p].session \notin S
  /\ session' = [s \in Sessions |->
       IF s \in S /\ session[s].row = "present" THEN [session[s] EXCEPT !.row = "gone"] ELSE session[s]]
  /\ refreshRow' = [p \in Pairs |->
       IF p <= nPair /\ pair[p].session \in S THEN "gone" ELSE refreshRow[p]]
  /\ jtiRow' = [p \in Pairs |->
       IF p <= nPair /\ pair[p].session \in S THEN "gone" ELSE jtiRow[p]]

\* POST logout.
RevokeSession(r) ==
  /\ req[r].pc = "authorised"
  /\ DeleteSessions({req[r].session})
  /\ Finish(r)
  /\ UNCHANGED <<now, nonce, pair, nNonce, nSession, nPair, history>>

\* The rows a caller's revocation may reach: its own user's.
OwnSessions(r, S) == {s \in S : session[s].row = "present" /\ session[s].user = req[r].user}

\* DELETE sessions/:id, for any id the caller names.
RevokeSessionById(r, s) ==
  /\ req[r].pc = "authorised" /\ s <= nSession
  /\ DeleteSessions(OwnSessions(r, {s}))
  /\ Finish(r)
  /\ UNCHANGED <<now, nonce, pair, nNonce, nSession, nPair, history>>

\* DELETE sessions: all of the caller's, keeping the current one by default.
RevokeAllSessions(r, keepCurrent) ==
  /\ req[r].pc = "authorised"
  /\ DeleteSessions(OwnSessions(r, Sessions \ (IF keepCurrent THEN {req[r].session} ELSE {})))
  /\ Finish(r)
  /\ UNCHANGED <<now, nonce, pair, nNonce, nSession, nPair, history>>

\* A delete and a rotation that wait for each other are a deadlock, and the
\* database may end the delete: the request fails.
DeleteFails(r) ==
  /\ req[r].pc = "authorised" /\ Claimed # {}
  /\ Finish(r)
  /\ UNCHANGED <<now, rows, history>>

-----------------------------------------------------------------------------
(* The environment.                                                        *)

\* The two deletes of cleanupExpiredTokens run concurrently; the second waits
\* for a rotation that holds one of its rows.
PruneJtis ==
  LET old == {p \in Pairs : jtiRow[p] \in {"live", "revoked"} /\ pair[p].accessExp < now} IN
  /\ old # {}
  /\ jtiRow' = [p \in Pairs |-> IF p \in old THEN "gone" ELSE jtiRow[p]]
  /\ UNCHANGED <<now, nonce, session, pair, refreshRow, nNonce, nSession, nPair, req, history>>

PruneRefreshTokens ==
  LET old == {p \in Pairs : refreshRow[p] \in {"live", "revoked"} /\ pair[p].refreshExp < now} IN
  /\ old # {} /\ old \cap Claimed = {}
  /\ refreshRow' = [p \in Pairs |-> IF p \in old THEN "gone" ELSE refreshRow[p]]
  /\ UNCHANGED <<now, nonce, session, pair, jtiRow, nNonce, nSession, nPair, req, history>>

Tick ==
  /\ now < LastTime
  /\ now' = now + 1
  /\ UNCHANGED <<rows, req, history>>

\* The process restarts: requests are lost, running rotations are rolled
\* back, committed rows stay.
Crash ==
  /\ \E r \in Requests : req[r] # Idle
  /\ req' = [r \in Requests |-> Idle]
  /\ UNCHANGED <<now, rows, history>>

\* The steps of a request after its first.
Continue(r) ==
  \/ ClaimRefreshToken(r) \/ RotateRefreshToken(r) \/ RotateRefused(r)
  \/ BeginRevoke(r) \/ RevokeFamily(r) \/ FindFamilyJtis(r) \/ RevokeFamilyJtis(r)
  \/ TxConflict(r) \/ ReadSession(r)

Handler(r) ==
  \/ RevokeSession(r)
  \/ \E s \in Sessions : RevokeSessionById(r, s)
  \/ \E keep \in BOOLEAN : RevokeAllSessions(r, keep)
  \/ DeleteFails(r)

AuthNext ==
  \/ \E w \in Wallets : GenerateNonce(w)
  \/ \E w \in Wallets, n \in Nonces : VerifyWallet(w, n) \/ HandleNonceClaimFailure(w, n)
  \/ \E r \in Requests :
       \/ \E p \in Pairs : ReadRefreshToken(r, p)
       \/ \E p \in Pairs : ReadJti(r, p)
       \/ ValidateLegacyToken(r)
       \/ Continue(r)
       \/ Handler(r)
  \/ PruneJtis \/ PruneRefreshTokens \/ Tick \/ Crash

AuthSpec == AuthInit /\ [][AuthNext]_vars
-----------------------------------------------------------------------------
(* Properties.                                                             *)

\* A signed challenge opens at most one session, however many requests
\* present it at once and however late (verifyWallet).
NonceOpensOneSession ==
  \A s, t \in Sessions :
    (s # t /\ session[s].nonce # 0) => session[s].nonce # session[t].nonce

\* A wallet has at most one open challenge, the last one issued
\* (generateNonce: "prevents nonce stacking").
OnlyLatestChallengeOpen ==
  \A m, n \in Nonces :
    (m < n /\ n <= nNonce /\ nonce[m].wallet = nonce[n].wallet) => nonce[m].row = "used"

\* Challenges do what signing in relies on, under concurrent requests.
ChallengesOpenOneSession == NonceOpensOneSession /\ OnlyLatestChallengeOpen

\* No refresh token of a family f is redeemable.
FamilyClosed(f) ==
  \A p \in Pairs : (p <= nPair /\ pair[p].family = f) => refreshRow[p] # "live"

\* No access token of a family f passes the registry check.
FamilyWithoutAccess(f) ==
  \A p \in Pairs :
    (p <= nPair /\ pair[p].family = f) => jtiRow[p] # "live" \/ now >= pair[p].accessExp

\* Once the reuse response has revoked a family, no refresh token of it is
\* redeemable again, whatever other rotations, retries, prunings and restarts
\* were in flight, and when the response has run to its end no access token of
\* it passes either (handleRefreshReuse).  The exception is a family in which a
\* rotation committed while the response's update waited for its row: the
\* update did not see the successor, which stays redeemable.
CompromiseEndsFamily ==
  /\ \A f \in compromised \ overtaken : FamilyClosed(f)
  /\ \A f \in shutDown \ overtaken : FamilyWithoutAccess(f)

\* Token rows never outlive their session row, and the session row of a live
\* access token never expires before the token does.
TokensBelongToSession ==
  \A p \in Pairs :
    /\ (refreshRow[p] \in {"live", "revoked"} \/ jtiRow[p] \in {"live", "revoked"})
         => session[pair[p].session].row = "present"
    /\ jtiRow[p] = "live" => pair[p].accessExp <= session[pair[p].session].expiresAt

\* What was revoked stays revoked: by a reuse response no rotation overtook,
\* by its end, and by the deletion of a session, whatever checks, rotations
\* and retries were in flight.
RevocationHolds == CompromiseEndsFamily /\ TokensBelongToSession

\* The redeemable token of a family, for the refinement of RefreshChain.
LiveToken(f) ==
  IF \E p \in Pairs : p <= nPair /\ pair[p].family = f /\ refreshRow[p] = "live"
    THEN CHOOSE p \in Pairs : p <= nPair /\ pair[p].family = f /\ refreshRow[p] = "live"
    ELSE 0

Chain == INSTANCE RefreshChain WITH
  Families <- Sessions, Tokens <- Pairs, None <- 0,
  current <- [f \in Sessions |-> LiveToken(f)],
  opened <- {pair[p].family : p \in 1 .. nPair},
  spent <- 1 .. nPair

\* Rotation under concurrency implements the abstract chain: one redeemable
\* token per family, exchanged for a fresh one, never reopened.
ImplementsRefreshChain == Chain!ChainSpec
=============================================================================
