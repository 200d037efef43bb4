----------------------------- MODULE AuthProofs ------------------------------
(***************************************************************************)
(* Challenges, revocation and the rotation chain of AuthSessions, for any  *)
(* wallets, any number of concurrent requests, any bounds on what is       *)
(* issued and any lifetimes.                                               *)
(*                                                                         *)
(* That a shut-down family has no access rests on two windows being        *)
(* closed: between the reading of a family's jtis and their revocation no  *)
(* pair joins the family, because the tokens that could be rotated were    *)
(* revoked before; and a pair whose token row is already pruned, so that   *)
(* its jti is not read, has expired, because refresh outlives access.  A   *)
(* third window is open, and the statements say so: a rotation that        *)
(* commits between the snapshot of the response's update and the update.   *)
(***************************************************************************)
EXTENDS AuthSessions, TLAPS

\* The stops of a request that carries a token.
TokenStops == {"rotate", "claimed", "reuse", "revoking", "findJtis", "revokeJtis"}

RowStates == {"none", "live", "revoked", "gone"}

RequestStates ==
    {Idle}
    \cup [pc : {"rotate", "claimed"}, pair : Pairs, attempt : Nat]
    \cup [pc : {"reuse", "findJtis"}, pair : Pairs]
    \cup [pc : {"revoking"}, pair : Pairs, seen : SUBSET Pairs]
    \cup [pc : {"revokeJtis"}, pair : Pairs, jtis : SUBSET Pairs]
    \cup [pc : {"readSession"}, session : Sessions]
    \cup [pc : {"authorised"}, session : Sessions, user : Wallets]

TypeOK ==
    /\ now \in Nat
    /\ nonce \in [Nonces -> [row : {"none", "unused", "used"}, wallet : Wallets,
                             expiresAt : Nat]]
    /\ session \in [Sessions -> [row : {"none", "present", "gone"}, user : Wallets,
                                 nonce : 0 .. MaxNonces, expiresAt : Nat]]
    /\ pair \in [Pairs -> [session : Sessions, family : 0 .. MaxSessions,
                           accessExp : Nat, refreshExp : Nat]]
    /\ refreshRow \in [Pairs -> RowStates]
    /\ jtiRow \in [Pairs -> RowStates]
    /\ nNonce \in 0 .. MaxNonces
    /\ nSession \in 1 .. MaxSessions
    /\ nPair \in 0 .. MaxPairs
    /\ req \in [Requests -> RequestStates]
    /\ compromised \subseteq 1 .. nSession
    /\ shutDown \subseteq compromised
    /\ overtaken \subseteq 0 .. MaxSessions

\* Challenges up to nNonce are written, those that opened a session are used.
NoncesIssued ==
    /\ \A n \in Nonces : nonce[n].row = "none" <=> n > nNonce
    /\ \A s \in Sessions :
          session[s].nonce # 0 => nonce[session[s].nonce].row = "used"

NonceInv == NoncesIssued /\ NonceOpensOneSession /\ OnlyLatestChallengeOpen

\* Pairs up to nPair belong to a session that was created, and none outlives
\* what it was minted with.
PairsIssued ==
    \A p \in Pairs :
        /\ p > nPair => refreshRow[p] = "none" /\ jtiRow[p] = "none"
        /\ p <= nPair => /\ pair[p].session = pair[p].family
                         /\ pair[p].family \in 1 .. nSession
                         /\ pair[p].accessExp <= now + AccessTTL
                         /\ pair[p].accessExp <= pair[p].refreshExp

\* An access token that still passes has its token row.
AccessHasToken ==
    \A p \in Pairs :
        jtiRow[p] = "live" /\ now < pair[p].accessExp
            => refreshRow[p] \in {"live", "revoked"}

OneLiveToken ==
    \A p, q \in Pairs :
        /\ refreshRow[p] = "live" /\ refreshRow[q] = "live"
        /\ pair[p].family = pair[q].family
        => p = q

\* A request in the middle of the reuse response: unless a rotation overtook
\* it, its update's snapshot holds every token of the family that is live, and
\* the jtis it read are all that still pass.
RequestsSound ==
    \A r \in Requests :
        /\ req[r].pc \in TokenStops => req[r].pair <= nPair
        /\ req[r].pc \in {"findJtis", "revokeJtis"}
              => pair[req[r].pair].family \in compromised
        /\ req[r].pc = "revoking" /\ pair[req[r].pair].family \notin overtaken
              => \A q \in FamilyOf(req[r].pair) : refreshRow[q] = "live" => q \in req[r].seen
        /\ req[r].pc = "revokeJtis" /\ pair[req[r].pair].family \notin overtaken
              => \A q \in FamilyOf(req[r].pair) :
                    jtiRow[q] = "live" /\ now < pair[q].accessExp => q \in req[r].jtis

CompromisedClosed ==
    \A p \in Pairs :
        p <= nPair /\ pair[p].family \in compromised \ overtaken => refreshRow[p] # "live"

ShutDownClosed ==
    \A p \in Pairs :
        p <= nPair /\ pair[p].family \in shutDown \ overtaken
            => jtiRow[p] # "live" \/ now >= pair[p].accessExp

TokenInv ==
    /\ PairsIssued
    /\ AccessHasToken
    /\ OneLiveToken
    /\ RequestsSound
    /\ CompromisedClosed
    /\ ShutDownClosed
    /\ TokensBelongToSession

\* A running rotation holds its row, alone and as it found it.
ClaimsHeld ==
    /\ \A r \in Requests : req[r].pc = "claimed" => refreshRow[req[r].pair] = "live"
    /\ \A r, x \in Requests :
          req[r].pc = "claimed" /\ req[x].pc = "claimed" /\ req[r].pair = req[x].pair => r = x

IInv == TypeOK /\ NonceInv /\ TokenInv /\ ClaimsHeld

-----------------------------------------------------------------------------
(* Types.                                                                  *)

\* What a step may hand to a request.
LEMMA RequestTyped ==
    /\ Idle \in RequestStates
    /\ \A p \in Pairs : /\ [pc |-> "reuse", pair |-> p] \in RequestStates
                        /\ [pc |-> "findJtis", pair |-> p] \in RequestStates
                        /\ [pc |-> "rotate", pair |-> p, attempt |-> 0] \in RequestStates
                        /\ \A S \in SUBSET Pairs :
                              [pc |-> "revoking", pair |-> p, seen |-> S] \in RequestStates
                        /\ \A S \in SUBSET Pairs :
                              [pc |-> "revokeJtis", pair |-> p, jtis |-> S] \in RequestStates
    /\ \A s \in Sessions :
          /\ [pc |-> "readSession", session |-> s] \in RequestStates
          /\ \A w \in Wallets :
                [pc |-> "authorised", session |-> s, user |-> w] \in RequestStates
BY DEF RequestStates

\* What a request carries at each of its stops.
LEMMA RequestCarries ==
    ASSUME NEW q \in RequestStates
    PROVE  /\ q.pc \in {"rotate", "claimed"}
                 => /\ q.pair \in Pairs /\ q.attempt \in Nat
                    /\ q \in [pc : {"rotate", "claimed"}, pair : Pairs, attempt : Nat]
           /\ q.pc = "revoking" => q.pair \in Pairs /\ q.seen \subseteq Pairs
           /\ q.pc \in {"reuse", "findJtis"} => q.pair \in Pairs
           /\ q.pc = "revokeJtis" => q.pair \in Pairs /\ q.jtis \subseteq Pairs
           /\ q.pc = "readSession" => q.session \in Sessions
           /\ q.pc = "authorised" => q.session \in Sessions /\ q.user \in Wallets
BY DEF RequestStates, Idle

LEMMA CarriesToken ==
    ASSUME NEW q \in RequestStates, q.pc \in TokenStops
    PROVE  q.pair \in Pairs
BY RequestCarries DEF TokenStops

LEMMA GotoTyped ==
    ASSUME TypeOK, NEW r \in Requests, NEW q \in RequestStates, Goto(r, q)
    PROVE  /\ req' \in [Requests -> RequestStates]
           /\ req'[r] = q
           /\ \A x \in Requests \ {r} : req'[x] = req[x]
BY DEF TypeOK, Goto

LEMMA Bounds ==
    /\ MaxNonces \in Nat /\ MaxSessions \in Nat /\ MaxPairs \in Nat
    /\ NonceTTL \in Nat /\ AccessTTL \in Nat /\ RefreshTTL \in Nat
    /\ Horizon \in Nat /\ AccessTTL <= RefreshTTL /\ MaxRetries \in Nat
BY AuthAssumption

LEMMA PairFields ==
    ASSUME TypeOK, NEW p \in Pairs
    PROVE  /\ pair[p].accessExp \in Nat /\ pair[p].refreshExp \in Nat
           /\ p \in Nat /\ nPair \in Nat
<1>1. pair[p] \in [session : Sessions, family : 0 .. MaxSessions, accessExp : Nat, refreshExp : Nat]
  BY DEF TypeOK
<1>2. p \in Nat /\ nPair \in Nat
  BY DEF TypeOK, Pairs
<1> QED BY <1>1, <1>2

\* The rows of a fresh pair.
LEMMA IssuedTyped ==
    ASSUME TypeOK, NEW s \in Sessions, NEW f \in 0 .. MaxSessions, IssueTokenPair(s, f)
    PROVE  /\ nPair + 1 \in Pairs /\ nPair' = nPair + 1 /\ nPair' \in 0 .. MaxPairs
           /\ pair' \in [Pairs -> [session : Sessions, family : 0 .. MaxSessions,
                                   accessExp : Nat, refreshExp : Nat]]
           /\ jtiRow' \in [Pairs -> RowStates]
           /\ pair'[nPair + 1] = [session |-> s, family |-> f,
                                  accessExp |-> now + AccessTTL,
                                  refreshExp |-> now + RefreshTTL]
           /\ \A q \in Pairs \ {nPair + 1} : pair'[q] = pair[q] /\ jtiRow'[q] = jtiRow[q]
           /\ jtiRow'[nPair + 1] = "live"
<1>1. nPair + 1 \in Pairs /\ nPair' = nPair + 1 /\ nPair' \in 0 .. MaxPairs
  BY Bounds DEF TypeOK, IssueTokenPair, Pairs
<1>2. now + AccessTTL \in Nat /\ now + RefreshTTL \in Nat
  BY Bounds DEF TypeOK
<1> QED BY <1>1, <1>2 DEF TypeOK, IssueTokenPair, RowStates

LEMMA DeletedTyped ==
    ASSUME TypeOK, NEW S \in SUBSET Sessions, DeleteSessions(S)
    PROVE  /\ session' \in [Sessions -> [row : {"none", "present", "gone"}, user : Wallets,
                                         nonce : 0 .. MaxNonces, expiresAt : Nat]]
           /\ refreshRow' \in [Pairs -> RowStates]
           /\ jtiRow' \in [Pairs -> RowStates]
           /\ \A s \in Sessions : /\ session'[s].nonce = session[s].nonce
                                  /\ session'[s].user = session[s].user
                                  /\ session'[s].expiresAt = session[s].expiresAt
                                  /\ s \notin S => session'[s] = session[s]
           /\ \A p \in Pairs :
                 /\ refreshRow'[p] = IF p <= nPair /\ pair[p].session \in S
                                       THEN "gone" ELSE refreshRow[p]
                 /\ jtiRow'[p] = IF p <= nPair /\ pair[p].session \in S
                                   THEN "gone" ELSE jtiRow[p]
<1>1. /\ refreshRow' \in [Pairs -> RowStates]
      /\ jtiRow' \in [Pairs -> RowStates]
      /\ \A p \in Pairs :
            /\ refreshRow'[p] = IF p <= nPair /\ pair[p].session \in S
                                  THEN "gone" ELSE refreshRow[p]
            /\ jtiRow'[p] = IF p <= nPair /\ pair[p].session \in S
                              THEN "gone" ELSE jtiRow[p]
  BY DEF TypeOK, DeleteSessions, RowStates
<1>2. \A s \in Sessions :
        /\ session'[s] \in [row : {"none", "present", "gone"}, user : Wallets,
                            nonce : 0 .. MaxNonces, expiresAt : Nat]
        /\ session'[s].nonce = session[s].nonce /\ session'[s].user = session[s].user
        /\ session'[s].expiresAt = session[s].expiresAt
        /\ s \notin S => session'[s] = session[s]
  BY DEF TypeOK, DeleteSessions
<1>3. session' = [s \in Sessions |-> session'[s]]
  BY DEF DeleteSessions
<1> QED BY <1>1, <1>2, <1>3

LEMMA InitTyped == AuthInit => TypeOK
<1> SUFFICES ASSUME AuthInit PROVE TypeOK
  OBVIOUS
<1>1. LegacySession \in Sessions /\ Horizon \in Nat /\ LegacyOwner \in Wallets
  BY AuthAssumption DEF LegacySession, Sessions
<1>2. 0 \in 0 .. MaxNonces /\ 1 \in 1 .. MaxSessions /\ 0 \in 0 .. MaxPairs /\ 0 \in 0 .. MaxSessions
  BY AuthAssumption
<1> QED BY <1>1, <1>2, RequestTyped DEF AuthInit, TypeOK, RowStates

LEMMA ChallengesTyped ==
    ASSUME TypeOK, NEW w \in Wallets,
           GenerateNonce(w) \/ \E n \in Nonces : HandleNonceClaimFailure(w, n)
    PROVE  TypeOK'
<1>1. CASE GenerateNonce(w)
  <2>1. nNonce' \in 0 .. MaxNonces /\ now + NonceTTL \in Nat
    BY <1>1, Bounds DEF TypeOK, GenerateNonce
  <2>2. nonce' \in [Nonces -> [row : {"none", "unused", "used"}, wallet : Wallets,
                               expiresAt : Nat]]
    BY <1>1, <2>1 DEF TypeOK, GenerateNonce
  <2> QED BY <1>1, <2>1, <2>2 DEF TypeOK, GenerateNonce, history
<1>2. CASE \E n \in Nonces : HandleNonceClaimFailure(w, n)
  BY <1>2 DEF TypeOK, HandleNonceClaimFailure, history
<1> QED BY <1>1, <1>2

LEMMA VerifyTyped ==
    ASSUME TypeOK, NEW w \in Wallets, NEW n \in Nonces, VerifyWallet(w, n)
    PROVE  TypeOK'
<1> DEFINE s == nSession + 1
<1>1. s \in Sessions /\ s \in 0 .. MaxSessions /\ nSession' = s /\ nSession' \in 1 .. MaxSessions
  <2>1. nSession \in 1 .. MaxSessions
    BY DEF TypeOK
  <2>2. nSession < MaxSessions /\ nSession' = s
    BY DEF VerifyWallet
  <2> QED BY <2>1, <2>2, Bounds DEF Sessions
<1>2. IssueTokenPair(s, s)
  BY DEF VerifyWallet
<1> HIDE DEF s
<1>3. /\ nPair' = nPair + 1 /\ nPair' \in 0 .. MaxPairs /\ nPair' \in Pairs
      /\ pair' \in [Pairs -> [session : Sessions, family : 0 .. MaxSessions,
                              accessExp : Nat, refreshExp : Nat]]
      /\ jtiRow' \in [Pairs -> RowStates]
  BY <1>1, <1>2, IssuedTyped
<1>4. refreshRow' \in [Pairs -> RowStates]
  BY <1>3 DEF VerifyWallet, TypeOK, RowStates
<1>5. now + AccessTTL \in Nat /\ n \in 0 .. MaxNonces
  BY Bounds DEF TypeOK, Nonces
<1>6. session' \in [Sessions -> [row : {"none", "present", "gone"}, user : Wallets,
                                 nonce : 0 .. MaxNonces, expiresAt : Nat]]
  BY <1>1, <1>5 DEF VerifyWallet, TypeOK
<1>7. nonce' \in [Nonces -> [row : {"none", "unused", "used"}, wallet : Wallets,
                             expiresAt : Nat]]
  BY DEF VerifyWallet, TypeOK
<1>8. compromised' = compromised /\ shutDown' = shutDown /\ now' = now /\ nNonce' = nNonce
      /\ req' = req /\ overtaken' = overtaken
  BY DEF VerifyWallet, history
<1>9. compromised' \subseteq 1 .. nSession'
  BY <1>1, <1>8 DEF TypeOK, s
<1> QED BY <1>1, <1>3, <1>4, <1>6, <1>7, <1>8, <1>9 DEF TypeOK

\* The steps of a request that write no row.
LEMMA RequestsOnlyTyped ==
    ASSUME TypeOK, NEW r \in Requests,
           \/ \E p \in Pairs : ReadRefreshToken(r, p) \/ ReadJti(r, p)
           \/ ClaimRefreshToken(r) \/ RotateRefused(r) \/ BeginRevoke(r)
           \/ FindFamilyJtis(r) \/ TxConflict(r) \/ ReadSession(r) \/ ValidateLegacyToken(r)
    PROVE  TypeOK'
<1>1. UNCHANGED <<now, rows, history>>
  BY DEF ReadRefreshToken, ReadJti, ClaimRefreshToken, RotateRefused, BeginRevoke,
         FindFamilyJtis, TxConflict,
         ReadSession, ValidateLegacyToken
<1>2. req[r] \in RequestStates
  BY DEF TypeOK
<1>3. \E q \in RequestStates : Goto(r, q)
  <2>1. ASSUME NEW p \in Pairs, ReadRefreshToken(r, p)
        PROVE  \E q \in RequestStates : Goto(r, q)
    BY <2>1, RequestTyped DEF ReadRefreshToken
  <2>2. ASSUME NEW p \in Pairs, ReadJti(r, p)
        PROVE  \E q \in RequestStates : Goto(r, q)
    <3>1. pair[p].session \in Sessions
      BY DEF TypeOK
    <3> QED BY <2>2, <3>1, RequestTyped DEF ReadJti
  <2>3. CASE RotateRefused(r)
    <3>1. req[r].pair \in Pairs
      BY <1>2, <2>3, RequestCarries DEF RotateRefused
    <3> QED BY <2>3, <3>1, RequestTyped DEF RotateRefused
  <2>4. CASE FindFamilyJtis(r)
    <3>1. req[r].pair \in Pairs
      BY <1>2, <2>4, RequestCarries DEF FindFamilyJtis
    <3> DEFINE J == {q \in FamilyOf(req[r].pair) : refreshRow[q] \in {"live", "revoked"}}
    <3>2. J \in SUBSET Pairs
      BY DEF FamilyOf
    <3>3. Goto(r, [pc |-> "revokeJtis", pair |-> req[r].pair, jtis |-> J])
      BY <2>4 DEF FindFamilyJtis
    <3> HIDE DEF J
    <3> QED BY <3>1, <3>2, <3>3, RequestTyped
  <2>5. CASE TxConflict(r)
    <3>1. req[r] \in [pc : {"rotate", "claimed"}, pair : Pairs, attempt : Nat]
      BY <1>2, <2>5, RequestCarries DEF TxConflict
    <3>2. PICK a : a = req[r].attempt + 1
      OBVIOUS
    <3>3. a \in Nat
      BY <3>1, <3>2
    <3>4. [req[r] EXCEPT !.pc = "rotate", !.attempt = a] \in RequestStates
      BY <3>1, <3>3 DEF RequestStates
    <3> QED BY <2>5, <3>2, <3>4, RequestTyped DEF TxConflict, Finish
  <2>6. CASE ReadSession(r)
    <3>1. req[r].session \in Sessions
      BY <1>2, <2>6, RequestCarries DEF ReadSession
    <3>2. session[req[r].session].user \in Wallets
      BY <3>1 DEF TypeOK
    <3> QED BY <2>6, <3>1, <3>2, RequestTyped DEF ReadSession, Finish
  <2>7. CASE ValidateLegacyToken(r)
    <3>1. LegacySession \in Sessions
      BY AuthAssumption DEF LegacySession, Sessions
    <3>2. session[LegacySession].user \in Wallets
      BY <3>1 DEF TypeOK
    <3> QED BY <2>7, <3>1, <3>2, RequestTyped DEF ValidateLegacyToken
  <2>8. CASE ClaimRefreshToken(r)
    <3>1. req[r] \in [pc : {"rotate", "claimed"}, pair : Pairs, attempt : Nat]
      BY <1>2, <2>8, RequestCarries DEF ClaimRefreshToken
    <3>2. [req[r] EXCEPT !.pc = "claimed"] \in RequestStates
      BY <3>1 DEF RequestStates
    <3> QED BY <2>8, <3>2 DEF ClaimRefreshToken
  <2>9. CASE BeginRevoke(r)
    <3> DEFINE L == {q \in FamilyOf(req[r].pair) : refreshRow[q] = "live"}
    <3>1. req[r].pair \in Pairs
      BY <1>2, <2>9, RequestCarries DEF BeginRevoke
    <3>2. L \in SUBSET Pairs
      BY DEF FamilyOf
    <3>3. Goto(r, [pc |-> "revoking", pair |-> req[r].pair, seen |-> L])
      BY <2>9 DEF BeginRevoke
    <3> HIDE DEF L
    <3> QED BY <3>1, <3>2, <3>3, RequestTyped
  <2> QED BY <2>1, <2>2, <2>3, <2>4, <2>5, <2>6, <2>7, <2>8, <2>9
<1>4. req' \in [Requests -> RequestStates]
  BY <1>3, GotoTyped
<1> QED BY <1>1, <1>4 DEF TypeOK, rows, history

LEMMA RotateTyped ==
    ASSUME TypeOK, NEW r \in Requests, RotateRefreshToken(r)
    PROVE  TypeOK'
<1> DEFINE p == req[r].pair
<1>1. p \in Pairs /\ pair[p].session \in Sessions /\ pair[p].family \in 0 .. MaxSessions
  <2>1. req[r] \in RequestStates /\ req[r].pc = "claimed"
    BY DEF TypeOK, RotateRefreshToken
  <2>2. p \in Pairs
    BY <2>1, RequestCarries
  <2> QED BY <2>2 DEF TypeOK
<1>2. /\ IssueTokenPair(pair[p].session, pair[p].family)
      /\ refreshRow' = [refreshRow EXCEPT ![p] = "revoked", ![nPair'] = "live"]
      /\ session' = [session EXCEPT ![pair[p].session].expiresAt = now + AccessTTL]
      /\ Goto(r, Idle)
      /\ overtaken' \subseteq overtaken \cup {pair[p].family}
      /\ UNCHANGED <<now, nonce, nNonce, nSession, compromised, shutDown>>
  BY DEF RotateRefreshToken, Finish
<1> HIDE DEF p
<1>3. /\ nPair' \in 0 .. MaxPairs
      /\ pair' \in [Pairs -> [session : Sessions, family : 0 .. MaxSessions,
                              accessExp : Nat, refreshExp : Nat]]
      /\ jtiRow' \in [Pairs -> RowStates]
  BY <1>1, <1>2, IssuedTyped
<1>4. refreshRow' \in [Pairs -> RowStates]
  BY <1>2 DEF TypeOK, RowStates
<1>5. now + AccessTTL \in Nat
  BY Bounds DEF TypeOK
<1>6. session' \in [Sessions -> [row : {"none", "present", "gone"}, user : Wallets,
                                 nonce : 0 .. MaxNonces, expiresAt : Nat]]
  <2>1. session \in [Sessions -> [row : {"none", "present", "gone"}, user : Wallets,
                                  nonce : 0 .. MaxNonces, expiresAt : Nat]]
    BY DEF TypeOK
  <2>2. session' = [session EXCEPT ![pair[p].session].expiresAt = now + AccessTTL]
    BY <1>2
  <2> QED BY <1>1, <1>5, <2>1, <2>2
<1>7. req' \in [Requests -> RequestStates]
  BY <1>2, GotoTyped, RequestTyped
<1>8. overtaken' \subseteq 0 .. MaxSessions
  BY <1>1, <1>2 DEF TypeOK
<1> QED BY <1>2, <1>3, <1>4, <1>6, <1>7, <1>8 DEF TypeOK

LEMMA ReuseTyped ==
    ASSUME TypeOK, NEW r \in Requests, RevokeFamily(r) \/ RevokeFamilyJtis(r),
           PairsIssued, RequestsSound
    PROVE  TypeOK'
<1> DEFINE p == req[r].pair
<1>1. p \in Pairs /\ pair[p].family \in 1 .. nSession
  <2>1. req[r] \in RequestStates /\ req[r].pc \in {"revoking", "revokeJtis"}
    BY DEF TypeOK, RevokeFamily, RevokeFamilyJtis
  <2>2. p \in Pairs /\ p <= nPair
    BY <2>1, RequestCarries DEF RequestsSound, TokenStops
  <2> QED BY <2>2 DEF PairsIssued
<1>2. CASE RevokeFamily(r)
  <2>1. refreshRow' \in [Pairs -> RowStates]
    BY <1>2 DEF TypeOK, RevokeFamily, RowStates
  <2>2. req' \in [Requests -> RequestStates]
    BY <1>1, <1>2, GotoTyped, RequestTyped DEF RevokeFamily
  <2>3. compromised' = compromised \cup {pair[p].family} /\ shutDown' = shutDown
    BY <1>2 DEF RevokeFamily
  <2>4. UNCHANGED <<now, nonce, session, pair, jtiRow, nNonce, nSession, nPair, overtaken>>
    BY <1>2 DEF RevokeFamily
  <2> HIDE DEF p
  <2> QED BY <1>1, <2>1, <2>2, <2>3, <2>4 DEF TypeOK
<1>3. CASE RevokeFamilyJtis(r)
  <2>1. jtiRow' \in [Pairs -> RowStates]
    BY <1>3 DEF TypeOK, RevokeFamilyJtis, RowStates
  <2>2. req' \in [Requests -> RequestStates]
    BY <1>3, GotoTyped, RequestTyped DEF RevokeFamilyJtis, Finish
  <2>3. shutDown' = shutDown \cup {pair[p].family} /\ pair[p].family \in compromised
    BY <1>3 DEF RevokeFamilyJtis, RequestsSound
  <2>4. UNCHANGED <<now, nonce, session, pair, refreshRow, nNonce, nSession, nPair, compromised>>
    BY <1>3 DEF RevokeFamilyJtis
  <2>5. overtaken' = overtaken
    BY <1>3 DEF RevokeFamilyJtis
  <2> HIDE DEF p
  <2> QED BY <2>1, <2>2, <2>3, <2>4, <2>5 DEF TypeOK
<1> QED BY <1>2, <1>3

\* A handler deletes some sessions and ends the request.
LEMMA HandlerDeletes ==
    ASSUME NEW r \in Requests, Handler(r), TypeOK
    PROVE  \E S \in SUBSET Sessions :
              /\ DeleteSessions(S)
              /\ Goto(r, Idle)
              /\ UNCHANGED <<now, nonce, pair, nNonce, nSession, nPair, history>>
<1>1. CASE RevokeSession(r)
  <2>1. req[r].session \in Sessions
    BY <1>1, RequestCarries DEF TypeOK, RevokeSession
  <2> QED BY <1>1, <2>1 DEF RevokeSession, Finish
<1>2. ASSUME NEW s \in Sessions, RevokeSessionById(r, s)
      PROVE  \E S \in SUBSET Sessions :
                /\ DeleteSessions(S)
                /\ Goto(r, Idle)
                /\ UNCHANGED <<now, nonce, pair, nNonce, nSession, nPair, history>>
  <2>1. OwnSessions(r, {s}) \in SUBSET Sessions
    BY DEF OwnSessions
  <2> QED BY <1>2, <2>1 DEF RevokeSessionById, Finish
<1>3. ASSUME NEW k \in BOOLEAN, RevokeAllSessions(r, k)
      PROVE  \E S \in SUBSET Sessions :
                /\ DeleteSessions(S)
                /\ Goto(r, Idle)
                /\ UNCHANGED <<now, nonce, pair, nNonce, nSession, nPair, history>>
  <2> DEFINE T == Sessions \ (IF k THEN {req[r].session} ELSE {})
  <2>1. OwnSessions(r, T) \in SUBSET Sessions
    BY DEF OwnSessions
  <2>2. DeleteSessions(OwnSessions(r, T))
    BY <1>3 DEF RevokeAllSessions
  <2> HIDE DEF T
  <2> QED BY <1>3, <2>1, <2>2 DEF RevokeAllSessions, Finish
<1>4. CASE DeleteFails(r)
  <2>1. DeleteSessions({})
    <3>1. UNCHANGED <<session, refreshRow, jtiRow>>
      BY <1>4 DEF DeleteFails, rows
    <3> QED BY <3>1 DEF DeleteSessions, TypeOK
  <2> QED BY <1>4, <2>1 DEF DeleteFails, Finish, rows
<1> QED BY <1>1, <1>2, <1>3, <1>4 DEF Handler

LEMMA EnvironmentTyped ==
    ASSUME TypeOK, PruneJtis \/ PruneRefreshTokens \/ Tick \/ Crash \/ UNCHANGED vars
    PROVE  TypeOK'
<1>1. CASE PruneJtis
  BY <1>1 DEF TypeOK, PruneJtis, RowStates, history
<1>2. CASE PruneRefreshTokens
  BY <1>2 DEF TypeOK, PruneRefreshTokens, RowStates, history
<1>3. CASE Tick
  BY <1>3 DEF TypeOK, Tick, rows, history
<1>4. CASE Crash
  BY <1>4, RequestTyped DEF TypeOK, Crash, rows, history
<1>5. CASE UNCHANGED vars
  BY <1>5 DEF TypeOK, vars, rows, history
<1> QED BY <1>1, <1>2, <1>3, <1>4, <1>5

LEMMA TypeStep ==
    ASSUME TypeOK, PairsIssued, RequestsSound, [AuthNext]_vars
    PROVE  TypeOK'
<1>1. ASSUME NEW r \in Requests, Handler(r)
      PROVE  TypeOK'
  <2>1. PICK S \in SUBSET Sessions :
           /\ DeleteSessions(S)
           /\ Goto(r, Idle)
           /\ UNCHANGED <<now, nonce, pair, nNonce, nSession, nPair, history>>
    BY <1>1, HandlerDeletes
  <2>2. req' \in [Requests -> RequestStates]
    BY <2>1, GotoTyped, RequestTyped
  <2>3. /\ session' \in [Sessions -> [row : {"none", "present", "gone"}, user : Wallets,
                                      nonce : 0 .. MaxNonces, expiresAt : Nat]]
        /\ refreshRow' \in [Pairs -> RowStates]
        /\ jtiRow' \in [Pairs -> RowStates]
    BY <2>1, DeletedTyped
  <2> QED BY <2>1, <2>2, <2>3 DEF TypeOK, history
<1>2. ASSUME NEW r \in Requests, Continue(r)
      PROVE  TypeOK'
  BY <1>2, RequestsOnlyTyped, RotateTyped, ReuseTyped DEF Continue
<1> QED BY <1>1, <1>2, ChallengesTyped, VerifyTyped, RequestsOnlyTyped, EnvironmentTyped
        DEF AuthNext

-----------------------------------------------------------------------------
(* Challenges.                                                             *)

\* Steps that leave the challenges alone and every session its own.
LEMMA NonceQuiet ==
    ASSUME NonceInv, UNCHANGED <<nonce, nNonce>>,
           \A s \in Sessions : session'[s].nonce = session[s].nonce
    PROVE  NonceInv'
BY DEF NonceInv, NoncesIssued, NonceOpensOneSession, OnlyLatestChallengeOpen

\* Steps that only spend unused challenges.
LEMMA NonceSpent ==
    ASSUME TypeOK, NonceInv, NEW n \in Nonces, nonce[n].row = "unused",
           nonce' = [nonce EXCEPT ![n].row = "used"], UNCHANGED nNonce
    PROVE  /\ \A m \in Nonces :
                 /\ nonce'[m].wallet = nonce[m].wallet
                 /\ nonce'[m].row = IF m = n THEN "used" ELSE nonce[m].row
           /\ \A m \in Nonces : nonce'[m].row = "none" <=> m > nNonce'
           /\ OnlyLatestChallengeOpen'
<1>1. \A m \in Nonces :
        /\ nonce'[m].wallet = nonce[m].wallet
        /\ nonce'[m].row = IF m = n THEN "used" ELSE nonce[m].row
  BY DEF TypeOK
<1>2. \A m \in Nonces : nonce'[m].row = "none" <=> m > nNonce'
  BY <1>1 DEF NonceInv, NoncesIssued
<1>3. OnlyLatestChallengeOpen'
  BY <1>1 DEF NonceInv, OnlyLatestChallengeOpen
<1> QED BY <1>1, <1>2, <1>3

LEMMA GenerateNonceStep ==
    ASSUME TypeOK, NonceInv, NEW w \in Wallets, GenerateNonce(w)
    PROVE  NonceInv'
<1> DEFINE n == nNonce + 1
<1>1. n \in Nonces /\ nNonce' = n /\ n \in Nat /\ nNonce \in Nat
  BY Bounds DEF TypeOK, GenerateNonce, Nonces
<1>2. \A k \in Nonces : k = n \/ nonce'[k].wallet = nonce[k].wallet
  BY DEF GenerateNonce
<1>3. \A k \in Nonces :
        /\ k = n => nonce'[k].row = "unused" /\ nonce'[k].wallet = w
        /\ k # n => nonce'[k].row = IF nonce[k].wallet = w /\ nonce[k].row = "unused"
                                      THEN "used" ELSE nonce[k].row
  BY DEF GenerateNonce, TypeOK
<1>4. UNCHANGED session
  BY DEF GenerateNonce
<1> HIDE DEF n
<1>5. \A k \in Nonces : k \in Nat /\ (k > n <=> (k # n /\ k > nNonce)) /\ (k = n => k > nNonce)
  BY <1>1 DEF n, Nonces
<1>6. \A k \in Nonces : nonce'[k].row = "none" <=> k > nNonce'
  BY <1>1, <1>3, <1>5 DEF NonceInv, NoncesIssued
<1>7. \A s \in Sessions :
        session'[s].nonce # 0 => nonce'[session'[s].nonce].row = "used"
  <2> SUFFICES ASSUME NEW s \in Sessions, session[s].nonce # 0
               PROVE  nonce'[session[s].nonce].row = "used"
    BY <1>4
  <2> DEFINE k == session[s].nonce
  <2>1. k \in Nonces
    BY Bounds DEF TypeOK, Nonces
  <2>2. nonce[k].row = "used"
    BY DEF NonceInv, NoncesIssued
  <2>3. k # n
    BY <1>1, <1>5, <2>1, <2>2 DEF NonceInv, NoncesIssued
  <2> QED BY <1>3, <2>1, <2>2, <2>3
<1>8. NonceOpensOneSession'
  BY <1>4 DEF NonceInv, NonceOpensOneSession
<1>9. OnlyLatestChallengeOpen'
  <2> SUFFICES ASSUME NEW j \in Nonces, NEW k \in Nonces, j < k, k <= nNonce',
                      nonce'[j].wallet = nonce'[k].wallet
               PROVE  nonce'[j].row = "used"
    BY DEF OnlyLatestChallengeOpen
  <2>1. j # n /\ j <= nNonce
    BY <1>1 DEF n, Nonces
  <2>2. nonce[j].row \in {"unused", "used"}
    <3>1. nonce[j].row # "none"
      BY <1>5, <2>1, Bounds DEF NonceInv, NoncesIssued, TypeOK, Nonces
    <3> QED BY <3>1 DEF TypeOK
  <2>3. CASE k = n
    BY <1>2, <1>3, <2>1, <2>2, <2>3
  <2>4. CASE k # n
    <3>1. k <= nNonce
      BY <1>1, <2>4 DEF n, Nonces
    <3>2. nonce[j].row = "used"
      BY <1>2, <2>1, <2>4, <3>1 DEF NonceInv, OnlyLatestChallengeOpen
    <3> QED BY <1>3, <2>1, <3>2
  <2> QED BY <2>3, <2>4
<1> QED BY <1>6, <1>7, <1>8, <1>9 DEF NonceInv, NoncesIssued

LEMMA ClaimFailureStep ==
    ASSUME TypeOK, NonceInv, NEW w \in Wallets, NEW n \in Nonces,
           HandleNonceClaimFailure(w, n)
    PROVE  NonceInv'
<1>1. /\ nonce[n].row = "unused" /\ nonce' = [nonce EXCEPT ![n].row = "used"]
      /\ UNCHANGED <<nNonce, session>>
  BY DEF HandleNonceClaimFailure
<1>2. /\ \A m \in Nonces : nonce'[m].row = IF m = n THEN "used" ELSE nonce[m].row
      /\ \A m \in Nonces : nonce'[m].row = "none" <=> m > nNonce'
      /\ OnlyLatestChallengeOpen'
  BY <1>1, NonceSpent
<1>3. \A s \in Sessions : session[s].nonce # 0 => session[s].nonce \in Nonces
  BY Bounds DEF TypeOK, Nonces
<1> QED BY <1>1, <1>2, <1>3 DEF NonceInv, NoncesIssued, NonceOpensOneSession

\* The claimed challenge was unused, so no session came from it.
LEMMA VerifyNonceStep ==
    ASSUME TypeOK, NonceInv, NEW w \in Wallets, NEW n \in Nonces, VerifyWallet(w, n)
    PROVE  NonceInv'
<1> DEFINE s == nSession + 1
<1>1. /\ nonce[n].row = "unused" /\ nonce' = [nonce EXCEPT ![n].row = "used"]
      /\ UNCHANGED nNonce
      /\ session' = [session EXCEPT ![s] = [row |-> "present", user |-> w, nonce |-> n,
                                            expiresAt |-> now + AccessTTL]]
  BY DEF VerifyWallet, NonceClaimable
<1>2. /\ \A m \in Nonces : nonce'[m].row = IF m = n THEN "used" ELSE nonce[m].row
      /\ \A m \in Nonces : nonce'[m].row = "none" <=> m > nNonce'
      /\ OnlyLatestChallengeOpen'
  BY <1>1, NonceSpent
<1> HIDE DEF s
<1>3. \A t \in Sessions : session'[t].nonce = IF t = s THEN n ELSE session[t].nonce
  BY <1>1 DEF TypeOK
<1>4. \A t \in Sessions : session[t].nonce # 0 => /\ session[t].nonce \in Nonces
                                                 /\ session[t].nonce # n
  BY <1>1, Bounds DEF TypeOK, Nonces, NonceInv, NoncesIssued
<1>5. NoncesIssued'
  BY <1>2, <1>3, <1>4 DEF NonceInv, NoncesIssued
<1>6. NonceOpensOneSession'
  BY <1>3, <1>4 DEF NonceInv, NonceOpensOneSession
<1> QED BY <1>2, <1>5, <1>6 DEF NonceInv

LEMMA NonceStep ==
    ASSUME TypeOK, NonceInv, [AuthNext]_vars
    PROVE  NonceInv'
<1>1. ASSUME NEW r \in Requests, Handler(r)
      PROVE  NonceInv'
  BY <1>1, HandlerDeletes, DeletedTyped, NonceQuiet
<1>2. ASSUME NEW r \in Requests, RotateRefreshToken(r)
      PROVE  NonceInv'
  <2>1. \A s \in Sessions : session'[s].nonce = session[s].nonce
    BY <1>2 DEF RotateRefreshToken, TypeOK
  <2> QED BY <1>2, <2>1, NonceQuiet DEF RotateRefreshToken
<1>3. ASSUME UNCHANGED <<nonce, nNonce, session>> PROVE NonceInv'
  BY <1>3, NonceQuiet
<1>4. ASSUME NEW r \in Requests,
             \/ \E p \in Pairs : ReadRefreshToken(r, p) \/ ReadJti(r, p)
             \/ ValidateLegacyToken(r) \/ ClaimRefreshToken(r) \/ RotateRefused(r)
             \/ BeginRevoke(r) \/ RevokeFamily(r)
             \/ FindFamilyJtis(r) \/ RevokeFamilyJtis(r) \/ TxConflict(r) \/ ReadSession(r)
      PROVE  NonceInv'
  BY <1>3, <1>4 DEF ReadRefreshToken, ReadJti, ValidateLegacyToken, ClaimRefreshToken, RotateRefused,
                    BeginRevoke,
                    RevokeFamily, FindFamilyJtis, RevokeFamilyJtis, TxConflict,
                    ReadSession, rows
<1>5. CASE PruneJtis \/ PruneRefreshTokens \/ Tick \/ Crash \/ UNCHANGED vars
  BY <1>3, <1>5 DEF PruneJtis, PruneRefreshTokens, Tick, Crash, vars, rows
<1> QED BY <1>1, <1>2, <1>4, <1>5, GenerateNonceStep, ClaimFailureStep, VerifyNonceStep
        DEF AuthNext, Continue

-----------------------------------------------------------------------------
(* Tokens and revocation.                                                  *)

\* Requests stay sound when rows only fall, time only passes and no pair joins
\* a compromised family.
LEMMA RequestsKept ==
    ASSUME TypeOK, TypeOK', RequestsSound,
           \A r \in Requests : req'[r] = req[r] \/ req'[r] = Idle,
           nPair' >= nPair, now' >= now, compromised \subseteq compromised',
           overtaken \subseteq overtaken',
           \A p \in Pairs : p <= nPair => pair'[p] = pair[p],
           \A p \in Pairs :
              p > nPair /\ p <= nPair'
                 => /\ pair'[p].family \notin compromised \ overtaken'
                    /\ \A r \in Requests :
                          req[r].pc = "revoking" /\ pair[req[r].pair].family = pair'[p].family
                             => pair'[p].family \in overtaken',
           \A p \in Pairs : p <= nPair /\ refreshRow'[p] = "live" => refreshRow[p] = "live",
           \A p \in Pairs : p <= nPair /\ jtiRow'[p] = "live" => jtiRow[p] = "live"
    PROVE  RequestsSound'
<1> SUFFICES ASSUME NEW r \in Requests
             PROVE  /\ req'[r].pc \in TokenStops => req'[r].pair <= nPair'
                    /\ req'[r].pc \in {"findJtis", "revokeJtis"}
                          => pair'[req'[r].pair].family \in compromised'
                    /\ req'[r].pc = "revoking" /\ pair'[req'[r].pair].family \notin overtaken'
                          => \A q \in Pairs :
                                /\ q <= nPair' /\ pair'[q].family = pair'[req'[r].pair].family
                                /\ refreshRow'[q] = "live"
                                => q \in req'[r].seen
                    /\ req'[r].pc = "revokeJtis" /\ pair'[req'[r].pair].family \notin overtaken'
                          => \A q \in Pairs :
                                /\ q <= nPair' /\ pair'[q].family = pair'[req'[r].pair].family
                                /\ jtiRow'[q] = "live" /\ now' < pair'[q].accessExp
                                => q \in req'[r].jtis
  BY DEF RequestsSound, FamilyOf
<1>1. CASE req'[r] = Idle
  BY <1>1 DEF Idle, TokenStops
<1>2. CASE req'[r] = req[r]
  <2> DEFINE p == req[r].pair
  <2>1. CASE req[r].pc \notin TokenStops
    BY <1>2, <2>1 DEF TokenStops
  <2>2. CASE req[r].pc \in TokenStops
    <3>1. p \in Pairs /\ p <= nPair
      <4>1. req[r] \in RequestStates
        BY DEF TypeOK
      <4>2. p \in Pairs
        BY <2>2, <4>1, CarriesToken
      <4> QED BY <2>2, <4>2 DEF RequestsSound
    <3>2. nPair \in Nat /\ nPair' \in Nat /\ now \in Nat /\ now' \in Nat
      BY DEF TypeOK
    <3>3. p <= nPair' /\ pair'[p] = pair[p]
      BY <3>1, <3>2 DEF Pairs
    <3>4. req[r].pc \in {"findJtis", "revokeJtis"} => pair[p].family \in compromised
      BY DEF RequestsSound
    <3>5. ASSUME req[r].pc \in {"revoking", "revokeJtis"}, NEW q \in Pairs,
                 q <= nPair', pair'[q].family = pair'[p].family,
                 pair'[p].family \notin overtaken'
          PROVE  q <= nPair /\ pair'[q] = pair[q] /\ q \in FamilyOf(p)
      <4>1. q <= nPair
        <5> SUFFICES ASSUME q > nPair PROVE FALSE
          BY <3>2 DEF Pairs
        <5>1. CASE req[r].pc = "revoking"
          BY <3>3, <3>5, <5>1
        <5>2. CASE req[r].pc = "revokeJtis"
          BY <3>3, <3>4, <3>5, <5>2
        <5> QED BY <3>5, <5>1, <5>2
      <4>2. pair'[q] = pair[q]
        BY <4>1
      <4> QED BY <3>3, <3>5, <4>1, <4>2 DEF FamilyOf
    <3>6. ASSUME req[r].pc = "revoking", NEW q \in Pairs,
                 q <= nPair', pair'[q].family = pair'[p].family,
                 pair'[p].family \notin overtaken', refreshRow'[q] = "live"
          PROVE  q \in req[r].seen
      <4>1. q <= nPair /\ q \in FamilyOf(p)
        BY <3>5, <3>6
      <4>2. refreshRow[q] = "live" /\ pair[p].family \notin overtaken
        BY <3>3, <3>6, <4>1
      <4> QED BY <3>6, <4>1, <4>2 DEF RequestsSound
    <3>7. ASSUME req[r].pc = "revokeJtis", NEW q \in Pairs,
                 q <= nPair', pair'[q].family = pair'[p].family,
                 pair'[p].family \notin overtaken',
                 jtiRow'[q] = "live", now' < pair'[q].accessExp
          PROVE  q \in req[r].jtis
      <4>1. q <= nPair /\ pair'[q] = pair[q] /\ q \in FamilyOf(p)
        BY <3>5, <3>7
      <4>2. jtiRow[q] = "live" /\ pair[p].family \notin overtaken
        BY <3>3, <3>7, <4>1
      <4>3. now < pair[q].accessExp
        BY <3>2, <3>7, <4>1 DEF TypeOK
      <4> QED BY <3>7, <4>1, <4>2, <4>3 DEF RequestsSound
    <3> QED BY <1>2, <2>2, <3>3, <3>4, <3>6, <3>7
  <2> QED BY <2>1, <2>2
<1> QED BY <1>1, <1>2

\* Steps that leave the rows alone.
LEMMA TokenQuiet ==
    ASSUME TokenInv, RequestsSound',
           UNCHANGED <<now, session, pair, refreshRow, jtiRow, nSession, nPair, history>>
    PROVE  TokenInv'
BY DEF TokenInv, PairsIssued, AccessHasToken, OneLiveToken,
       CompromisedClosed, ShutDownClosed, TokensBelongToSession,
       history

\* Steps that only revoke, delete or age.
LEMMA TokensFall ==
    ASSUME TypeOK, TypeOK', TokenInv, UNCHANGED <<pair, nPair, nSession>>, now' >= now,
           \A p \in Pairs : /\ p > nPair => /\ refreshRow'[p] = refreshRow[p]
                                            /\ jtiRow'[p] = jtiRow[p]
                            /\ refreshRow'[p] = "live" => refreshRow[p] = "live"
                            /\ jtiRow'[p] = "live" => jtiRow[p] = "live"
    PROVE  /\ PairsIssued' /\ OneLiveToken'
           /\ UNCHANGED <<compromised, overtaken>> => CompromisedClosed'
           /\ UNCHANGED <<shutDown, overtaken>> => ShutDownClosed'
<1>1. now \in Nat /\ now' \in Nat /\ AccessTTL \in Nat
  BY Bounds DEF TypeOK
<1>2. \A p \in Pairs : pair[p].accessExp \in Nat
  BY DEF TypeOK
<1>3. PairsIssued'
  BY <1>1, <1>2 DEF TokenInv, PairsIssued
<1>4. OneLiveToken'
  BY DEF TokenInv, OneLiveToken
<1>5. UNCHANGED <<compromised, overtaken>> => CompromisedClosed'
  BY DEF TokenInv, CompromisedClosed
<1>6. UNCHANGED <<shutDown, overtaken>> => ShutDownClosed'
  BY <1>1, <1>2 DEF TokenInv, ShutDownClosed
<1> QED BY <1>3, <1>4, <1>5, <1>6

\* The steps of a request that write no row, and the requests they leave.
LEMMA RequestsOnlyStep ==
    ASSUME TypeOK, TypeOK', TokenInv, NEW r \in Requests,
           \/ \E p \in Pairs : ReadRefreshToken(r, p) \/ ReadJti(r, p)
           \/ ClaimRefreshToken(r) \/ RotateRefused(r) \/ BeginRevoke(r)
           \/ FindFamilyJtis(r) \/ TxConflict(r) \/ ReadSession(r) \/ ValidateLegacyToken(r)
    PROVE  TokenInv'
<1>1. /\ UNCHANGED <<now, session, pair, refreshRow, jtiRow, nSession, nPair, history>>
      /\ UNCHANGED compromised
      /\ \A x \in Requests \ {r} : req'[x] = req[x]
  BY DEF ReadRefreshToken, ReadJti, ClaimRefreshToken, RotateRefused, BeginRevoke,
         FindFamilyJtis, TxConflict,
         ReadSession, ValidateLegacyToken, rows, history, Goto, Finish, TypeOK
<1>2. req[r] \in RequestStates /\ req \in [Requests -> RequestStates]
  BY DEF TypeOK
<1>3. ASSUME /\ req'[r].pc \in TokenStops => req'[r].pair <= nPair
             /\ req'[r].pc \in {"findJtis", "revokeJtis"}
                   => pair[req'[r].pair].family \in compromised
             /\ req'[r].pc = "revoking"
                   => \A q \in FamilyOf(req'[r].pair) : refreshRow[q] = "live" => q \in req'[r].seen
             /\ req'[r].pc = "revokeJtis"
                   => \A q \in FamilyOf(req'[r].pair) :
                         jtiRow[q] = "live" /\ now < pair[q].accessExp => q \in req'[r].jtis
      PROVE  TokenInv'
  <2>1. RequestsSound'
    BY <1>1, <1>3 DEF TokenInv, RequestsSound, FamilyOf, history
  <2> QED BY <1>1, <2>1, TokenQuiet
<1>4. ASSUME NEW p \in Pairs, ReadRefreshToken(r, p)
      PROVE  TokenInv'
  <2>1. \/ req'[r] = [pc |-> "reuse", pair |-> p]
        \/ req'[r] = [pc |-> "rotate", pair |-> p, attempt |-> 0]
    BY <1>2, <1>4 DEF ReadRefreshToken, Goto
  <2> QED BY <1>3, <1>4, <2>1 DEF ReadRefreshToken
<1>5. ASSUME \/ \E p \in Pairs : ReadJti(r, p)
             \/ ReadSession(r) \/ ValidateLegacyToken(r)
      PROVE  TokenInv'
  <2>1. req'[r].pc \in {"readSession", "authorised", "idle"}
    BY <1>2, <1>5 DEF ReadJti, ReadSession, ValidateLegacyToken, Goto, Finish, Idle
  <2> QED BY <1>3, <2>1 DEF TokenStops
<1>6. CASE RotateRefused(r)
  <2>1. req[r].pc = "rotate" /\ req'[r] = [pc |-> "reuse", pair |-> req[r].pair]
    BY <1>2, <1>6 DEF RotateRefused, Goto
  <2> QED BY <1>3, <2>1 DEF TokenInv, RequestsSound, TokenStops
<1>7. CASE FindFamilyJtis(r)
  <2> DEFINE p == req[r].pair
             J == {q \in FamilyOf(p) : refreshRow[q] \in {"live", "revoked"}}
  <2>1. req[r].pc = "findJtis" /\ req'[r] = [pc |-> "revokeJtis", pair |-> p, jtis |-> J]
    BY <1>2, <1>7 DEF FindFamilyJtis, Goto
  <2>2. p <= nPair /\ pair[p].family \in compromised
    BY <2>1 DEF TokenInv, RequestsSound, TokenStops
  <2>3. \A q \in FamilyOf(p) : jtiRow[q] = "live" /\ now < pair[q].accessExp => q \in J
    BY DEF TokenInv, AccessHasToken, FamilyOf
  <2> HIDE DEF J, p
  <2> QED BY <1>3, <2>1, <2>2, <2>3
<1>8. CASE TxConflict(r)
  <2>1. \/ req'[r] = Idle
        \/ req'[r] = [req[r] EXCEPT !.pc = "rotate", !.attempt = @ + 1]
    BY <1>2, <1>8 DEF TxConflict, Goto, Finish
  <2>2. req[r] \in [pc : {"rotate", "claimed"}, pair : Pairs, attempt : Nat]
    BY <1>2, <1>8, RequestCarries DEF TxConflict
  <2>3. \/ req'[r] = Idle
        \/ req'[r].pc = "rotate" /\ req'[r].pair = req[r].pair
    BY <2>1, <2>2
  <2>4. req[r].pair <= nPair
    BY <2>2 DEF TokenInv, RequestsSound, TokenStops
  <2>5. CASE req'[r] = Idle
    BY <1>3, <2>5 DEF Idle, TokenStops
  <2>6. CASE req'[r].pc = "rotate" /\ req'[r].pair = req[r].pair
    BY <1>3, <2>4, <2>6
  <2> QED BY <2>3, <2>5, <2>6
<1>9. CASE ClaimRefreshToken(r)
  <2>1. /\ req[r] \in [pc : {"rotate", "claimed"}, pair : Pairs, attempt : Nat]
        /\ req'[r] = [req[r] EXCEPT !.pc = "claimed"]
    BY <1>2, <1>9, RequestCarries DEF ClaimRefreshToken, Goto
  <2>2. req'[r].pc = "claimed" /\ req'[r].pair = req[r].pair
    BY <2>1
  <2>3. req[r].pair <= nPair
    BY <2>1 DEF TokenInv, RequestsSound, TokenStops
  <2> QED BY <1>3, <2>2, <2>3
<1>10. CASE BeginRevoke(r)
  <2> DEFINE p == req[r].pair
             L == {q \in FamilyOf(p) : refreshRow[q] = "live"}
  <2>1. req[r].pc = "reuse" /\ req'[r] = [pc |-> "revoking", pair |-> p, seen |-> L]
    BY <1>2, <1>10 DEF BeginRevoke, Goto
  <2>2. p <= nPair
    BY <2>1 DEF TokenInv, RequestsSound, TokenStops
  <2>3. \A q \in FamilyOf(p) : refreshRow[q] = "live" => q \in L
    OBVIOUS
  <2> HIDE DEF L, p
  <2> QED BY <1>3, <2>1, <2>2, <2>3
<1> QED BY <1>4, <1>5, <1>6, <1>7, <1>8, <1>9, <1>10

\* The reuse response revokes the family it was told about.
LEMMA RevokeFamilyStep ==
    ASSUME TypeOK, TypeOK', TokenInv, NEW r \in Requests, RevokeFamily(r)
    PROVE  TokenInv'
<1> DEFINE p == req[r].pair
<1>1. p \in Pairs /\ p <= nPair
  <2>1. req[r] \in RequestStates /\ req[r].pc = "revoking"
    BY DEF TypeOK, RevokeFamily
  <2> QED BY <2>1, RequestCarries DEF TokenInv, RequestsSound, TokenStops
<1>2. /\ UNCHANGED <<now, session, pair, jtiRow, nSession, nPair, shutDown, overtaken>>
      /\ req[r].pc = "revoking"
      /\ compromised' = compromised \cup {pair[p].family}
      /\ req'[r] = [pc |-> "findJtis", pair |-> p]
      /\ \A x \in Requests \ {r} : req'[x] = req[x]
  BY DEF RevokeFamily, Goto, TypeOK
<1>3. \A q \in Pairs :
        refreshRow'[q] = IF q \in req[r].seen /\ refreshRow[q] = "live"
                           THEN "revoked" ELSE refreshRow[q]
  BY DEF RevokeFamily
<1>11. pair[p].family \notin overtaken
         => \A q \in FamilyOf(p) : refreshRow[q] = "live" => q \in req[r].seen
  BY <1>2 DEF TokenInv, RequestsSound
<1>4. \A q \in Pairs : q \in FamilyOf(p) <=> q <= nPair /\ pair[q].family = pair[p].family
  BY DEF FamilyOf
<1> HIDE DEF p
<1>5. PairsIssued' /\ OneLiveToken' /\ ShutDownClosed'
  <2>1. \A q \in Pairs : /\ q > nPair => refreshRow[q] = "none" /\ jtiRow[q] = "none"
                         /\ refreshRow'[q] = "live" => refreshRow[q] = "live"
    BY <1>3 DEF TokenInv, PairsIssued
  <2>2. \A q \in Pairs : q > nPair => refreshRow'[q] = refreshRow[q]
    BY <1>3, <2>1
  <2>3. now' >= now
    BY <1>2 DEF TypeOK
  <2> QED BY <1>2, <2>1, <2>2, <2>3, TokensFall
<1>6. AccessHasToken'
  BY <1>2, <1>3 DEF TokenInv, AccessHasToken
<1>7. CompromisedClosed'
  <2> SUFFICES ASSUME NEW q \in Pairs, q <= nPair,
                      pair[q].family \in compromised' \ overtaken, refreshRow'[q] = "live"
               PROVE  FALSE
    BY <1>2 DEF CompromisedClosed
  <2>1. refreshRow[q] = "live" /\ q \notin req[r].seen
    BY <1>3
  <2>2. CASE pair[q].family \in compromised
    BY <2>1, <2>2 DEF TokenInv, CompromisedClosed
  <2>3. CASE pair[q].family = pair[p].family
    BY <1>4, <1>11, <2>1, <2>3
  <2> QED BY <1>2, <2>2, <2>3
<1>8. TokensBelongToSession'
  BY <1>2, <1>3 DEF TokenInv, TokensBelongToSession
<1>9. RequestsSound'
  <2>1. \A q \in Pairs : refreshRow'[q] = "live" => refreshRow[q] = "live"
    BY <1>3
  <2> QED BY <1>1, <1>2, <2>1 DEF TokenInv, RequestsSound, FamilyOf, TokenStops
<1> QED BY <1>5, <1>6, <1>7, <1>8, <1>9 DEF TokenInv

\* No jti of the family was missed: what is live and unexpired was read.
LEMMA RevokeFamilyJtisStep ==
    ASSUME TypeOK, TypeOK', TokenInv, NEW r \in Requests, RevokeFamilyJtis(r)
    PROVE  TokenInv'
<1> DEFINE p == req[r].pair
<1>1. /\ UNCHANGED <<now, session, pair, refreshRow, nSession, nPair, compromised, overtaken>>
      /\ shutDown' = shutDown \cup {pair[p].family}
      /\ req[r].pc = "revokeJtis"
      /\ req'[r] = Idle
      /\ \A x \in Requests \ {r} : req'[x] = req[x]
  BY DEF RevokeFamilyJtis, Finish, Goto, TypeOK
<1>2. \A q \in Pairs :
        jtiRow'[q] = IF q \in req[r].jtis /\ jtiRow[q] = "live"
                       THEN "revoked" ELSE jtiRow[q]
  BY DEF RevokeFamilyJtis
<1>3. \A q \in Pairs :
        /\ q <= nPair /\ pair[q].family = pair[p].family
        /\ pair[p].family \notin overtaken
        /\ jtiRow[q] = "live" /\ now < pair[q].accessExp
        => q \in req[r].jtis
  BY <1>1 DEF TokenInv, RequestsSound, FamilyOf
<1> HIDE DEF p
<1>4. \A q \in Pairs : /\ q > nPair => jtiRow'[q] = jtiRow[q]
                       /\ jtiRow'[q] = "live" => jtiRow[q] = "live"
  BY <1>2 DEF TokenInv, PairsIssued
<1>5. now' >= now /\ nPair' >= nPair
  BY <1>1 DEF TypeOK
<1>6. PairsIssued' /\ OneLiveToken' /\ CompromisedClosed'
  BY <1>1, <1>4, <1>5, TokensFall
<1>7. AccessHasToken'
  BY <1>1, <1>4 DEF TokenInv, AccessHasToken
<1>8. ShutDownClosed'
  <2> SUFFICES ASSUME NEW q \in Pairs, q <= nPair, pair[q].family \in shutDown' \ overtaken,
                      jtiRow'[q] = "live", ~(now >= pair[q].accessExp)
               PROVE  FALSE
    BY <1>1 DEF ShutDownClosed
  <2>1. jtiRow[q] = "live"
    BY <1>4
  <2>2. now < pair[q].accessExp
    BY DEF TypeOK
  <2>3. pair[q].family \notin shutDown
    BY <2>1 DEF TokenInv, ShutDownClosed
  <2>4. q \in req[r].jtis
    BY <1>1, <1>3, <2>1, <2>2, <2>3
  <2> QED BY <1>2, <2>1, <2>4
<1>9. TokensBelongToSession'
  BY <1>1, <1>2 DEF TokenInv, TokensBelongToSession
<1>10. RequestsSound'
  <2>1. \A x \in Requests : req'[x] = req[x] \/ req'[x] = Idle
    BY <1>1
  <2>2. \A q \in Pairs : ~(q > nPair /\ q <= nPair')
    BY <1>1 DEF TypeOK, Pairs
  <2> QED BY <1>1, <1>4, <1>5, <2>1, <2>2, RequestsKept DEF TokenInv
<1> QED BY <1>6, <1>7, <1>8, <1>9, <1>10 DEF TokenInv

\* Deleting sessions takes their tokens with them.
LEMMA HandlerStep ==
    ASSUME TypeOK, TypeOK', TokenInv, NEW r \in Requests, Handler(r)
    PROVE  TokenInv'
<1>1. PICK S \in SUBSET Sessions :
         /\ DeleteSessions(S)
         /\ Goto(r, Idle)
         /\ UNCHANGED <<now, nonce, pair, nNonce, nSession, nPair, history>>
  BY HandlerDeletes
<1>2. /\ \A s \in Sessions : s \notin S => session'[s] = session[s]
      /\ \A p \in Pairs :
            /\ refreshRow'[p] = IF p <= nPair /\ pair[p].session \in S
                                  THEN "gone" ELSE refreshRow[p]
            /\ jtiRow'[p] = IF p <= nPair /\ pair[p].session \in S
                              THEN "gone" ELSE jtiRow[p]
  BY <1>1, DeletedTyped
<1>3. /\ UNCHANGED <<now, pair, nPair, nSession, compromised, shutDown, overtaken>>
      /\ now' >= now /\ nPair' >= nPair
      /\ \A x \in Requests : req'[x] = req[x] \/ req'[x] = Idle
  BY <1>1 DEF history, Goto, TypeOK
<1>4. \A p \in Pairs : /\ p > nPair => ~(p <= nPair)
                       /\ p > nPair \/ p <= nPair
  BY DEF TypeOK, Pairs
<1>5. \A p \in Pairs : /\ p > nPair => refreshRow'[p] = refreshRow[p] /\ jtiRow'[p] = jtiRow[p]
                       /\ refreshRow'[p] = "live" => refreshRow[p] = "live"
                       /\ jtiRow'[p] = "live" => jtiRow[p] = "live"
  BY <1>2, <1>4
<1>6. /\ PairsIssued' /\ OneLiveToken' /\ CompromisedClosed'
      /\ ShutDownClosed'
  BY <1>3, <1>5, TokensFall
<1>7. AccessHasToken'
  BY <1>2, <1>3 DEF TokenInv, AccessHasToken
<1>8. TokensBelongToSession'
  <2>1. \A p \in Pairs :
          refreshRow'[p] \in {"live", "revoked"} \/ jtiRow'[p] \in {"live", "revoked"}
            => /\ p <= nPair
               /\ session'[pair[p].session] = session[pair[p].session]
               /\ refreshRow'[p] = refreshRow[p] /\ jtiRow'[p] = jtiRow[p]
    <3> TAKE p \in Pairs
    <3>1. pair[p].session \in Sessions
      BY DEF TypeOK
    <3>2. p > nPair => refreshRow[p] = "none" /\ jtiRow[p] = "none"
      BY DEF TokenInv, PairsIssued
    <3> QED BY <1>2, <1>4, <1>5, <3>1, <3>2
  <2> QED BY <1>3, <2>1 DEF TokenInv, TokensBelongToSession
<1>9. RequestsSound'
  <2>1. \A q \in Pairs : ~(q > nPair /\ q <= nPair')
    BY <1>3, <1>4
  <2> QED BY <1>3, <1>5, <2>1, RequestsKept DEF TokenInv
<1> QED BY <1>6, <1>7, <1>8, <1>9 DEF TokenInv

\* Pruning, the passing of time and a restart.
LEMMA EnvironmentStep ==
    ASSUME TypeOK, TypeOK', TokenInv,
           PruneJtis \/ PruneRefreshTokens \/ Tick \/ Crash \/ UNCHANGED vars
    PROVE  TokenInv'
<1>1. UNCHANGED <<session, pair, nSession, nPair, compromised, shutDown, overtaken>>
  BY DEF PruneJtis, PruneRefreshTokens, Tick, Crash, vars, rows, history
<1>2. now' >= now /\ nPair' >= nPair /\ now \in Nat /\ now' \in Nat
  BY <1>1 DEF TypeOK, PruneJtis, PruneRefreshTokens, Tick, Crash, vars
<1>3. \A x \in Requests : req'[x] = req[x] \/ req'[x] = Idle
  BY DEF PruneJtis, PruneRefreshTokens, Tick, Crash, vars, rows
<1>4. \A p \in Pairs :
        /\ \/ refreshRow'[p] = refreshRow[p]
           \/ /\ refreshRow[p] \in {"live", "revoked"} /\ refreshRow'[p] = "gone"
              /\ pair[p].refreshExp < now
        /\ \/ jtiRow'[p] = jtiRow[p]
           \/ jtiRow[p] \in {"live", "revoked"} /\ jtiRow'[p] = "gone"
  <2>1. CASE PruneJtis
    BY <2>1 DEF PruneJtis
  <2>2. CASE PruneRefreshTokens
    BY <2>2 DEF PruneRefreshTokens
  <2>3. CASE Tick \/ Crash \/ UNCHANGED vars
    BY <2>3 DEF Tick, Crash, vars, rows
  <2> QED BY <2>1, <2>2, <2>3
<1>5. \A p \in Pairs : p > nPair => refreshRow[p] = "none" /\ jtiRow[p] = "none"
  BY DEF TokenInv, PairsIssued
<1>6. \A p \in Pairs : /\ p > nPair => refreshRow'[p] = refreshRow[p] /\ jtiRow'[p] = jtiRow[p]
                       /\ refreshRow'[p] = "live" => refreshRow[p] = "live"
                       /\ jtiRow'[p] = "live" => jtiRow[p] = "live"
  BY <1>4, <1>5
<1>7. /\ PairsIssued' /\ OneLiveToken' /\ CompromisedClosed'
      /\ ShutDownClosed'
  BY <1>1, <1>2, <1>6, TokensFall
<1>8. AccessHasToken'
  <2> SUFFICES ASSUME NEW p \in Pairs, jtiRow'[p] = "live", now' < pair[p].accessExp
               PROVE  refreshRow'[p] \in {"live", "revoked"}
    BY <1>1 DEF AccessHasToken
  <2>1. pair[p].accessExp \in Nat /\ pair[p].refreshExp \in Nat /\ p \in Nat /\ nPair \in Nat
    BY PairFields
  <2>2. now < pair[p].accessExp
    BY <1>2, <2>1
  <2>3. refreshRow[p] \in {"live", "revoked"}
    BY <1>6, <2>2 DEF TokenInv, AccessHasToken
  <2>4. p <= nPair
    BY <1>5, <2>1, <2>3
  <2>5. pair[p].accessExp <= pair[p].refreshExp
    BY <2>4 DEF TokenInv, PairsIssued
  <2>6. ~(pair[p].refreshExp < now)
    BY <1>2, <2>1, <2>2, <2>5
  <2> QED BY <1>4, <2>3, <2>6
<1>9. TokensBelongToSession'
  BY <1>1, <1>4 DEF TokenInv, TokensBelongToSession
<1>10. RequestsSound'
  <2>1. \A q \in Pairs : ~(q > nPair /\ q <= nPair')
    BY <1>1 DEF TypeOK, Pairs
  <2> QED BY <1>1, <1>2, <1>3, <1>6, <2>1, RequestsKept DEF TokenInv
<1> QED BY <1>7, <1>8, <1>9, <1>10 DEF TokenInv

\* A transaction that writes pair n for session s, the only redeemable one of
\* its family.
Minted(n, s) ==
    /\ n \in Pairs /\ n = nPair + 1 /\ nPair' = n
    /\ pair'[n] = [session |-> s, family |-> s, accessExp |-> now + AccessTTL,
                   refreshExp |-> now + RefreshTTL]
    /\ jtiRow'[n] = "live" /\ refreshRow'[n] = "live"
    /\ \A q \in Pairs \ {n} :
          /\ pair'[q] = pair[q] /\ jtiRow'[q] = jtiRow[q]
          /\ \/ refreshRow'[q] = refreshRow[q]
             \/ refreshRow[q] = "live" /\ refreshRow'[q] = "revoked"
          /\ refreshRow'[q] = "live" => pair[q].family # s
    /\ s \in 1 .. nSession' /\ nSession' >= nSession
    /\ session'[s].row = "present" /\ session'[s].expiresAt = now + AccessTTL
    /\ \A t \in 1 .. nSession : t # s => session'[t] = session[t]
    /\ s \notin compromised \ overtaken
    /\ overtaken \subseteq overtaken'
    /\ \A r \in Requests :
          req[r].pc = "revoking" /\ pair[req[r].pair].family = s => s \in overtaken'
    /\ UNCHANGED <<now, compromised, shutDown>>
    /\ \A r \in Requests : req'[r] = req[r] \/ req'[r] = Idle

LEMMA MintStep ==
    ASSUME TypeOK, TypeOK', TokenInv, NEW n, NEW s, Minted(n, s)
    PROVE  TokenInv'
<1>1. /\ now \in Nat /\ now' = now /\ AccessTTL \in Nat /\ RefreshTTL \in Nat
      /\ AccessTTL <= RefreshTTL /\ nPair \in Nat /\ nSession \in Nat /\ nSession' \in Nat
  BY Bounds DEF TypeOK, Minted
<1>2. /\ n \in Pairs /\ n = nPair + 1 /\ nPair' = n
      /\ s \in 1 .. nSession' /\ nSession' >= nSession
      /\ s \notin compromised \ overtaken /\ overtaken \subseteq overtaken'
  BY DEF Minted
<1>3. \A q \in Pairs : /\ q \in Nat /\ (q <= nPair' <=> q <= nPair \/ q = n)
                       /\ (q > nPair' <=> q > nPair /\ q # n)
                       /\ q <= nPair => q # n
                       /\ q <= nPair \/ q > nPair
  BY <1>1, <1>2 DEF Pairs
<1>4. /\ pair'[n].session = s /\ pair'[n].family = s
      /\ pair'[n].accessExp = now + AccessTTL /\ pair'[n].refreshExp = now + RefreshTTL
      /\ jtiRow'[n] = "live" /\ refreshRow'[n] = "live"
  BY DEF Minted
<1>5. \A q \in Pairs \ {n} :
        /\ pair'[q] = pair[q] /\ jtiRow'[q] = jtiRow[q]
        /\ \/ refreshRow'[q] = refreshRow[q]
           \/ refreshRow[q] = "live" /\ refreshRow'[q] = "revoked"
        /\ refreshRow'[q] = "live" => pair[q].family # s
  BY DEF Minted
<1>6. \A q \in Pairs :
        q <= nPair => /\ pair[q].session = pair[q].family
                      /\ pair[q].family \in 1 .. nSession
                      /\ pair[q].accessExp <= now + AccessTTL
                      /\ pair[q].accessExp <= pair[q].refreshExp
  BY DEF TokenInv, PairsIssued
<1>7. \A q \in Pairs : q > nPair => refreshRow[q] = "none" /\ jtiRow[q] = "none"
  BY DEF TokenInv, PairsIssued
<1>8. PairsIssued'
  <2> SUFFICES ASSUME NEW q \in Pairs
               PROVE  /\ q > nPair' => refreshRow'[q] = "none" /\ jtiRow'[q] = "none"
                      /\ q <= nPair' => /\ pair'[q].session = pair'[q].family
                                        /\ pair'[q].family \in 1 .. nSession'
                                        /\ pair'[q].accessExp <= now' + AccessTTL
                                        /\ pair'[q].accessExp <= pair'[q].refreshExp
    BY DEF PairsIssued
  <2>1. CASE q = n
    <3>1. now + AccessTTL <= now + RefreshTTL /\ now + AccessTTL \in Nat
      BY <1>1
    <3> QED BY <1>1, <1>2, <1>3, <1>4, <2>1, <3>1
  <2>2. CASE q # n
    <3>1. 1 .. nSession \subseteq 1 .. nSession'
      BY <1>1, <1>2
    <3>2. pair'[q] = pair[q]
      BY <1>5, <2>2
    <3>3. q > nPair' => refreshRow'[q] = "none" /\ jtiRow'[q] = "none"
      BY <1>3, <1>5, <1>7, <2>2
    <3>4. q <= nPair' => q <= nPair
      BY <1>3, <2>2
    <3> QED BY <1>1, <1>6, <3>1, <3>2, <3>3, <3>4
  <2> QED BY <2>1, <2>2
<1>9. AccessHasToken'
  <2> SUFFICES ASSUME NEW q \in Pairs, jtiRow'[q] = "live", now' < pair'[q].accessExp
               PROVE  refreshRow'[q] \in {"live", "revoked"}
    BY DEF AccessHasToken
  <2>1. CASE q = n
    BY <1>4, <2>1
  <2>2. CASE q # n
    <3>1. refreshRow[q] \in {"live", "revoked"}
      BY <1>1, <1>5, <2>2 DEF TokenInv, AccessHasToken
    <3> QED BY <1>5, <2>2, <3>1
  <2> QED BY <2>1, <2>2
<1>10. OneLiveToken'
  <2> SUFFICES ASSUME NEW p \in Pairs, NEW q \in Pairs,
                      refreshRow'[p] = "live", refreshRow'[q] = "live",
                      pair'[p].family = pair'[q].family
               PROVE  p = q
    BY DEF OneLiveToken
  <2>1. CASE p # n /\ q # n
    BY <1>5, <2>1 DEF TokenInv, OneLiveToken
  <2>2. CASE p = n \/ q = n
    BY <1>4, <1>5, <2>2
  <2> QED BY <2>1, <2>2
<1>11. shutDown \subseteq compromised /\ shutDown' = shutDown /\ compromised' = compromised
  BY DEF TypeOK, Minted
<1>12. CompromisedClosed'
  BY <1>2, <1>3, <1>4, <1>5, <1>11
     DEF TokenInv, CompromisedClosed
<1>13. ShutDownClosed'
  <2> SUFFICES ASSUME NEW q \in Pairs, q <= nPair', pair'[q].family \in shutDown \ overtaken'
               PROVE  jtiRow'[q] # "live" \/ now' >= pair'[q].accessExp
    BY <1>11 DEF ShutDownClosed
  <2>1. q # n
    BY <1>2, <1>4, <1>11
  <2>2. q <= nPair
    BY <1>3, <2>1
  <2> QED BY <1>1, <1>2, <1>5, <2>1, <2>2 DEF TokenInv, ShutDownClosed
<1>14. TokensBelongToSession'
  <2> SUFFICES ASSUME NEW q \in Pairs
               PROVE  /\ refreshRow'[q] \in {"live", "revoked"}
                         \/ jtiRow'[q] \in {"live", "revoked"}
                           => session'[pair'[q].session].row = "present"
                      /\ jtiRow'[q] = "live"
                           => pair'[q].accessExp <= session'[pair'[q].session].expiresAt
    BY DEF TokensBelongToSession
  <2>1. session'[s].row = "present" /\ session'[s].expiresAt = now + AccessTTL
    BY DEF Minted
  <2>2. CASE q = n
    <3>1. now + AccessTTL <= now + AccessTTL
      BY <1>1
    <3> QED BY <1>4, <2>1, <2>2, <3>1
  <2>3. CASE q > nPair /\ q # n
    BY <1>5, <1>7, <2>3
  <2>4. CASE q <= nPair
    <3>1. pair'[q] = pair[q] /\ jtiRow'[q] = jtiRow[q]
          /\ (refreshRow'[q] \in {"live", "revoked"} => refreshRow[q] \in {"live", "revoked"})
      BY <1>3, <1>5, <2>4
    <3>2. pair[q].session \in 1 .. nSession /\ pair[q].accessExp <= now + AccessTTL
      BY <1>6, <2>4
    <3>3. pair[q].session = s \/ session'[pair[q].session] = session[pair[q].session]
      BY <3>2 DEF Minted
    <3> QED BY <2>1, <3>1, <3>2, <3>3 DEF TokenInv, TokensBelongToSession
  <2> QED BY <1>3, <2>2, <2>3, <2>4
<1>15. RequestsSound'
  <2>1. \A q \in Pairs :
          q > nPair /\ q <= nPair'
             => /\ pair'[q].family \notin compromised \ overtaken'
                /\ \A r \in Requests :
                      req[r].pc = "revoking" /\ pair[req[r].pair].family = pair'[q].family
                         => pair'[q].family \in overtaken'
    BY <1>2, <1>3, <1>4 DEF Minted
  <2>6. \A q \in Pairs : q <= nPair /\ refreshRow'[q] = "live" => refreshRow[q] = "live"
    BY <1>3, <1>5
  <2>2. \A q \in Pairs : q <= nPair => pair'[q] = pair[q]
    BY <1>3, <1>5
  <2>3. \A q \in Pairs : q <= nPair /\ jtiRow'[q] = "live" => jtiRow[q] = "live"
    BY <1>3, <1>5
  <2>4. nPair' >= nPair /\ now' >= now
    BY <1>1, <1>2
  <2>5. \A r \in Requests : req'[r] = req[r] \/ req'[r] = Idle
    BY DEF Minted
  <2> QED BY <1>2, <1>11, <2>1, <2>2, <2>3, <2>4, <2>5, <2>6, RequestsKept DEF TokenInv
<1> QED BY <1>8, <1>9, <1>10, <1>12, <1>13, <1>14, <1>15 DEF TokenInv

\* A sign-in opens a family of its own.
LEMMA VerifyMints ==
    ASSUME TypeOK, TokenInv, NEW w \in Wallets, NEW n \in Nonces, VerifyWallet(w, n)
    PROVE  Minted(nPair + 1, nSession + 1)
<1> DEFINE s == nSession + 1
           m == nPair + 1
<1>1. nSession \in Nat /\ nPair \in Nat /\ s \in Sessions /\ s \in 0 .. MaxSessions
      /\ nSession' = s /\ s \notin 1 .. nSession
  BY Bounds DEF TypeOK, VerifyWallet, Sessions
<1>2. /\ IssueTokenPair(s, s)
      /\ session' = [session EXCEPT ![s] = [row |-> "present", user |-> w, nonce |-> n,
                                            expiresAt |-> now + AccessTTL]]
      /\ UNCHANGED <<now, req, compromised, shutDown, overtaken>>
  BY DEF VerifyWallet, history
<1> HIDE DEF s
<1>3. /\ m \in Pairs /\ nPair' = m
      /\ pair'[m] = [session |-> s, family |-> s, accessExp |-> now + AccessTTL,
                     refreshExp |-> now + RefreshTTL]
      /\ \A q \in Pairs \ {m} : pair'[q] = pair[q] /\ jtiRow'[q] = jtiRow[q]
      /\ jtiRow'[m] = "live"
  BY <1>1, <1>2, IssuedTyped
<1>4. refreshRow'[m] = "live" /\ \A q \in Pairs \ {m} : refreshRow'[q] = refreshRow[q]
  BY <1>3 DEF VerifyWallet, TypeOK
<1>5. s \in 1 .. nSession' /\ nSession' >= nSession /\ s \notin compromised
  BY <1>1 DEF TypeOK, s
<1>6. session'[s].row = "present" /\ session'[s].expiresAt = now + AccessTTL
  BY <1>1, <1>2 DEF TypeOK
<1>7. \A t \in 1 .. nSession : t # s => session'[t] = session[t]
  <2>1. 1 .. nSession \subseteq Sessions
    BY Bounds DEF TypeOK, Sessions
  <2> QED BY <1>2, <2>1 DEF TypeOK
<1>8. \A q \in Pairs : refreshRow[q] = "live" => pair[q].family # s
  <2> SUFFICES ASSUME NEW q \in Pairs, refreshRow[q] = "live" PROVE pair[q].family # s
    OBVIOUS
  <2>1. q <= nPair
    BY <1>1 DEF TokenInv, PairsIssued, Pairs
  <2> QED BY <1>1, <2>1 DEF TokenInv, PairsIssued
<1>9. \A r \in Requests : req[r].pc = "revoking" => pair[req[r].pair].family # s
  <2> SUFFICES ASSUME NEW r \in Requests, req[r].pc = "revoking"
               PROVE  pair[req[r].pair].family # s
    OBVIOUS
  <2>1. req[r].pair \in Pairs /\ req[r].pair <= nPair
    BY RequestCarries DEF TypeOK, TokenInv, RequestsSound, TokenStops
  <2>2. pair[req[r].pair].family \in 1 .. nSession
    BY <2>1 DEF TokenInv, PairsIssued
  <2> QED BY <1>1, <2>2
<1> QED BY <1>2, <1>3, <1>4, <1>5, <1>6, <1>7, <1>8, <1>9 DEF Minted, s

\* A rotation extends its family: the presented token was the redeemable one.
LEMMA RotateMints ==
    ASSUME TypeOK, TokenInv, ClaimsHeld, NEW r \in Requests, RotateRefreshToken(r)
    PROVE  /\ Minted(nPair + 1, pair[req[r].pair].family)
           /\ req[r].pair \in Pairs /\ req[r].pair <= nPair
           /\ refreshRow[req[r].pair] = "live" /\ refreshRow'[req[r].pair] = "revoked"
<1> DEFINE p == req[r].pair
           s == pair[p].family
           m == nPair + 1
<1>1. p \in Pairs /\ p <= nPair /\ refreshRow[p] = "live"
  <2>1. req[r] \in RequestStates /\ req[r].pc = "claimed"
    BY DEF TypeOK, RotateRefreshToken
  <2> QED BY <2>1, RequestCarries DEF TokenInv, RequestsSound, TokenStops, ClaimsHeld
<1>2. /\ IssueTokenPair(pair[p].session, pair[p].family)
      /\ refreshRow' = [refreshRow EXCEPT ![p] = "revoked", ![nPair'] = "live"]
      /\ session' = [session EXCEPT ![pair[p].session].expiresAt = now + AccessTTL]
      /\ Goto(r, Idle)
      /\ UNCHANGED <<now, nSession, compromised, shutDown>>
  BY DEF RotateRefreshToken, Finish
<1>14. /\ overtaken \subseteq overtaken'
       /\ \A x \in Requests :
             req[x].pc = "revoking" /\ pair[req[x].pair].family = s => s \in overtaken'
  BY DEF RotateRefreshToken, Revoking
<1>3. pair[p].session = s /\ s \in 1 .. nSession /\ s \in Sessions /\ s \in 0 .. MaxSessions
  <2>1. pair[p].session = s /\ s \in 1 .. nSession
    BY <1>1 DEF TokenInv, PairsIssued
  <2> QED BY <2>1, Bounds DEF TypeOK, Sessions
<1>4. s \notin compromised \ overtaken /\ session[s].row = "present"
  BY <1>1, <1>3 DEF TokenInv, CompromisedClosed,
                    TokensBelongToSession
<1>5. nSession \in Nat /\ nPair \in Nat /\ p # m
  BY <1>1 DEF TypeOK, Pairs
<1>6. \A q \in Pairs : refreshRow[q] = "live" /\ q # p => pair[q].family # s
  BY <1>1 DEF TokenInv, OneLiveToken
<1> HIDE DEF p, s
<1>7. /\ m \in Pairs /\ nPair' = m
      /\ pair'[m] = [session |-> s, family |-> s, accessExp |-> now + AccessTTL,
                     refreshExp |-> now + RefreshTTL]
      /\ \A q \in Pairs \ {m} : pair'[q] = pair[q] /\ jtiRow'[q] = jtiRow[q]
      /\ jtiRow'[m] = "live"
  <2>1. IssueTokenPair(s, s)
    BY <1>2, <1>3 DEF s
  <2> QED BY <1>3, <2>1, IssuedTyped
<1>8. /\ refreshRow'[m] = "live" /\ refreshRow'[p] = "revoked"
      /\ \A q \in Pairs \ {m} : q # p => refreshRow'[q] = refreshRow[q]
  <2> HIDE DEF m
  <2> QED BY <1>1, <1>2, <1>5, <1>7 DEF TypeOK
<1>9. s \in 1 .. nSession' /\ nSession' >= nSession
  BY <1>2, <1>3, <1>5
<1>10. session'[s].row = "present" /\ session'[s].expiresAt = now + AccessTTL
  BY <1>2, <1>3, <1>4 DEF TypeOK
<1>11. \A t \in 1 .. nSession : t # s => session'[t] = session[t]
  <2>1. 1 .. nSession \subseteq Sessions
    BY Bounds DEF TypeOK, Sessions
  <2> QED BY <1>2, <1>3, <2>1 DEF TypeOK
<1>12. \A x \in Requests : req'[x] = req[x] \/ req'[x] = Idle
  BY <1>2 DEF Goto, TypeOK
<1>13. Minted(m, s)
  <2> HIDE DEF m
  <2>1. m = nPair + 1
    BY DEF m
  <2>2. \A q \in Pairs \ {m} :
          /\ \/ refreshRow'[q] = refreshRow[q]
             \/ refreshRow[q] = "live" /\ refreshRow'[q] = "revoked"
          /\ refreshRow'[q] = "live" => pair[q].family # s
    BY <1>1, <1>6, <1>8
  <2> QED BY <1>2, <1>4, <1>7, <1>8, <1>9, <1>10, <1>11, <1>12, <1>14, <2>1, <2>2 DEF Minted
<1> QED BY <1>1, <1>8, <1>13 DEF p, s

LEMMA TokenStep ==
    ASSUME TypeOK, TypeOK', TokenInv, ClaimsHeld, [AuthNext]_vars
    PROVE  TokenInv'
<1>1. ASSUME NEW w \in Wallets, NEW n \in Nonces, VerifyWallet(w, n)
      PROVE  TokenInv'
  BY <1>1, VerifyMints, MintStep
<1>2. ASSUME NEW r \in Requests, RotateRefreshToken(r)
      PROVE  TokenInv'
  BY <1>2, RotateMints, MintStep
<1>3. ASSUME NEW w \in Wallets,
             GenerateNonce(w) \/ \E n \in Nonces : HandleNonceClaimFailure(w, n)
      PROVE  TokenInv'
  <2>1. /\ UNCHANGED <<now, session, pair, refreshRow, jtiRow, nSession, nPair, history>>
        /\ UNCHANGED <<req, compromised>>
    BY <1>3 DEF GenerateNonce, HandleNonceClaimFailure, history
  <2>2. RequestsSound'
    BY <2>1 DEF TokenInv, RequestsSound, FamilyOf, history
  <2> QED BY <2>1, <2>2, TokenQuiet
<1>4. ASSUME NEW r \in Requests, Continue(r)
      PROVE  TokenInv'
  BY <1>2, <1>4, RequestsOnlyStep, RevokeFamilyStep, RevokeFamilyJtisStep DEF Continue
<1> QED BY <1>1, <1>3, <1>4, RequestsOnlyStep, HandlerStep, EnvironmentStep DEF AuthNext

\* Only its own rotation takes a claimed row: the others wait for it.
LEMMA ClaimsQuiet ==
    ASSUME ClaimsHeld,
           \A r \in Requests :
              req'[r].pc = "claimed" => /\ req'[r] = req[r]
                                        /\ refreshRow'[req[r].pair] = "live"
    PROVE  ClaimsHeld'
BY DEF ClaimsHeld

LEMMA ClaimsStep ==
    ASSUME TypeOK, TokenInv, ClaimsHeld, [AuthNext]_vars
    PROVE  ClaimsHeld'
<1>1. \A r \in Requests :
        req[r].pc = "claimed" => /\ refreshRow[req[r].pair] = "live"
                                 /\ req[r].pair \in Claimed
                                 /\ req[r].pair \in Pairs /\ req[r].pair <= nPair
  BY RequestCarries DEF ClaimsHeld, Claimed, TypeOK, TokenInv, RequestsSound, TokenStops
<1>2. ASSUME UNCHANGED refreshRow, NEW r \in Requests,
             NEW q, q.pc # "claimed", Goto(r, q)
      PROVE  ClaimsHeld'
  <2>1. req'[r] = q /\ \A x \in Requests \ {r} : req'[x] = req[x]
    BY <1>2 DEF Goto, TypeOK
  <2> QED BY <1>1, <1>2, <2>1, ClaimsQuiet
<1>3. ASSUME UNCHANGED <<refreshRow, req>> PROVE ClaimsHeld'
  BY <1>1, <1>3, ClaimsQuiet
<1>4. ASSUME NEW r \in Requests, ClaimRefreshToken(r)
      PROVE  ClaimsHeld'
  <2>1. /\ req[r] \in [pc : {"rotate", "claimed"}, pair : Pairs, attempt : Nat]
        /\ req'[r] = [req[r] EXCEPT !.pc = "claimed"]
        /\ \A x \in Requests \ {r} : req'[x] = req[x]
        /\ refreshRow[req[r].pair] = "live" /\ req[r].pair \notin Claimed
        /\ UNCHANGED refreshRow
    BY <1>4, RequestCarries
       DEF ClaimRefreshToken, RefreshClaimable, Goto, TypeOK, rows
  <2>2. req'[r].pair = req[r].pair
    BY <2>1
  <2> QED BY <1>1, <2>1, <2>2 DEF ClaimsHeld
<1>5. ASSUME NEW r \in Requests, RotateRefreshToken(r)
      PROVE  ClaimsHeld'
  <2>1. /\ refreshRow' = [refreshRow EXCEPT ![req[r].pair] = "revoked", ![nPair'] = "live"]
        /\ req[r].pc = "claimed" /\ nPair' = nPair + 1
        /\ req'[r] = Idle /\ \A x \in Requests \ {r} : req'[x] = req[x]
    BY <1>5 DEF RotateRefreshToken, IssueTokenPair, Finish, Goto, TypeOK
  <2>2. ASSUME NEW x \in Requests \ {r}, req[x].pc = "claimed"
        PROVE  refreshRow'[req[x].pair] = "live"
    <3>1. req[x].pair # req[r].pair
      BY <2>1, <2>2 DEF ClaimsHeld
    <3>2. req[x].pair # nPair'
      BY <1>1, <2>1, <2>2 DEF TypeOK, Pairs
    <3>3. refreshRow[req[x].pair] = "live" /\ req[x].pair \in Pairs
      BY <1>1, <2>2
    <3> QED BY <2>1, <3>1, <3>2, <3>3 DEF TypeOK
  <2>3. \A x \in Requests :
          req'[x].pc = "claimed" => req'[x] = req[x] /\ refreshRow'[req[x].pair] = "live"
    <3> SUFFICES ASSUME NEW x \in Requests, req'[x].pc = "claimed"
                 PROVE  req'[x] = req[x] /\ refreshRow'[req[x].pair] = "live"
      OBVIOUS
    <3>1. x # r
      BY <2>1 DEF Idle
    <3> QED BY <2>1, <2>2, <3>1
  <2> QED BY <2>3, ClaimsQuiet
<1>6. ASSUME NEW r \in Requests, RevokeFamily(r)
      PROVE  ClaimsHeld'
  <2>1. /\ req'[r].pc = "findJtis"
        /\ \A x \in Requests \ {r} : req'[x] = req[x]
    BY <1>6 DEF RevokeFamily, Goto, TypeOK
  <2>2. \A q \in Pairs : q \in Claimed => refreshRow'[q] = refreshRow[q]
    BY <1>6 DEF RevokeFamily
  <2> QED BY <1>1, <2>1, <2>2, ClaimsQuiet
<1>7. ASSUME NEW r \in Requests, Handler(r)
      PROVE  ClaimsHeld'
  <2>1. PICK S \in SUBSET Sessions : DeleteSessions(S) /\ Goto(r, Idle)
    BY <1>7, HandlerDeletes
  <2>2. \A q \in Pairs : q \in Claimed => refreshRow'[q] = refreshRow[q]
    BY <2>1 DEF DeleteSessions
  <2>3. req'[r] = Idle /\ \A x \in Requests \ {r} : req'[x] = req[x]
    BY <2>1 DEF Goto, TypeOK
  <2> QED BY <1>1, <2>2, <2>3, ClaimsQuiet DEF Idle
<1>8. CASE PruneRefreshTokens
  <2>1. \A q \in Pairs : q \in Claimed => refreshRow'[q] = refreshRow[q]
    BY <1>8 DEF PruneRefreshTokens
  <2>2. UNCHANGED req
    BY <1>8 DEF PruneRefreshTokens
  <2> QED BY <1>1, <2>1, <2>2, ClaimsQuiet
<1>9. CASE PruneJtis \/ Tick \/ UNCHANGED vars
  BY <1>3, <1>9 DEF PruneJtis, Tick, vars, rows
<1>10. CASE Crash
  BY <1>10 DEF Crash, ClaimsHeld, Idle
<1>11. ASSUME NEW w \in Wallets,
              GenerateNonce(w) \/ \E n \in Nonces : HandleNonceClaimFailure(w, n)
       PROVE  ClaimsHeld'
  BY <1>3, <1>11 DEF GenerateNonce, HandleNonceClaimFailure
<1>12. ASSUME NEW w \in Wallets, NEW n \in Nonces, VerifyWallet(w, n)
       PROVE  ClaimsHeld'
  <2>1. refreshRow' = [refreshRow EXCEPT ![nPair'] = "live"] /\ UNCHANGED req
    BY <1>12 DEF VerifyWallet
  <2> QED BY <1>1, <2>1, ClaimsQuiet DEF TypeOK
<1>13. ASSUME NEW r \in Requests,
              \/ \E p \in Pairs : ReadRefreshToken(r, p) \/ ReadJti(r, p)
              \/ ValidateLegacyToken(r) \/ RotateRefused(r) \/ BeginRevoke(r)
              \/ FindFamilyJtis(r) \/ RevokeFamilyJtis(r) \/ ReadSession(r)
       PROVE  ClaimsHeld'
  <2>1. UNCHANGED refreshRow
    BY <1>13 DEF ReadRefreshToken, ReadJti, ValidateLegacyToken, RotateRefused, BeginRevoke,
                 FindFamilyJtis, RevokeFamilyJtis, ReadSession, rows
  <2>2. \E q : q.pc # "claimed" /\ Goto(r, q)
    BY <1>13 DEF ReadRefreshToken, ReadJti, ValidateLegacyToken, RotateRefused, BeginRevoke,
                 FindFamilyJtis, RevokeFamilyJtis, ReadSession, Finish, Idle
  <2> QED BY <1>2, <2>1, <2>2
<1>14. ASSUME NEW r \in Requests, TxConflict(r)
       PROVE  ClaimsHeld'
  <2>1. UNCHANGED refreshRow
    BY <1>14 DEF TxConflict, rows
  <2>2. req[r] \in [pc : {"rotate", "claimed"}, pair : Pairs, attempt : Nat]
    BY <1>14, RequestCarries DEF TxConflict, TypeOK
  <2>3. Goto(r, Idle) \/ Goto(r, [req[r] EXCEPT !.pc = "rotate", !.attempt = @ + 1])
    BY <1>14 DEF TxConflict, Finish
  <2>4. [req[r] EXCEPT !.pc = "rotate", !.attempt = @ + 1].pc = "rotate"
    BY <2>2
  <2> QED BY <1>2, <2>1, <2>3, <2>4 DEF Idle
<1> QED BY <1>4, <1>5, <1>6, <1>7, <1>8, <1>9, <1>10, <1>11, <1>12, <1>13, <1>14
        DEF AuthNext, Continue

LEMMA InitInv == AuthInit => IInv
<1> SUFFICES ASSUME AuthInit PROVE IInv
  OBVIOUS
<1>1. TypeOK
  BY InitTyped
<1>2. /\ \A p \in Pairs : /\ refreshRow[p] = "none" /\ jtiRow[p] = "none"
                          /\ p > nPair /\ ~(p <= nPair)
      /\ \A n \in Nonces : nonce[n].row = "none" /\ n > nNonce /\ ~(n <= nNonce)
      /\ \A s \in Sessions : session[s].nonce = 0
      /\ \A r \in Requests : req[r].pc = "idle"
  BY DEF AuthInit, Pairs, Nonces, Idle
<1>3. NonceInv
  BY <1>2 DEF NonceInv, NoncesIssued, NonceOpensOneSession, OnlyLatestChallengeOpen
<1>4. TokenInv
  BY <1>2 DEF TokenInv, PairsIssued, AccessHasToken, OneLiveToken, RequestsSound, TokenStops,
              CompromisedClosed, ShutDownClosed,
              TokensBelongToSession
<1>5. ClaimsHeld
  BY <1>2 DEF ClaimsHeld
<1> QED BY <1>1, <1>3, <1>4, <1>5 DEF IInv

LEMMA StepInv ==
    ASSUME IInv, [AuthNext]_vars
    PROVE  IInv'
<1>1. TypeOK'
  BY TypeStep DEF IInv, TokenInv
<1>2. NonceInv'
  BY NonceStep DEF IInv
<1>3. TokenInv'
  BY <1>1, TokenStep DEF IInv
<1>4. ClaimsHeld'
  BY ClaimsStep DEF IInv
<1> QED BY <1>1, <1>2, <1>3, <1>4 DEF IInv

LEMMA AuthInvariant == AuthSpec => []IInv
<1>1. AuthInit => IInv
  BY InitInv
<1>2. IInv /\ [AuthNext]_vars => IInv'
  BY StepInv
<1> QED BY <1>1, <1>2, PTL DEF AuthSpec

\* Every row and every request in flight has its shape, and a family is shut
\* down only after its tokens were revoked (auth.service.ts, all handlers).
THEOREM TypeCorrect == AuthSpec => []TypeOK
<1>1. IInv => TypeOK
  BY DEF IInv
<1> QED BY <1>1, AuthInvariant, PTL

\* However many requests present a challenge at once, it opens one session, and
\* a wallet has at most one open challenge (verifyWallet, generateNonce).
THEOREM ChallengesHold == AuthSpec => []ChallengesOpenOneSession
<1>1. IInv => ChallengesOpenOneSession
  BY DEF IInv, NonceInv, ChallengesOpenOneSession
<1> QED BY <1>1, AuthInvariant, PTL

\* What a reuse response, its end, or the deletion of a session revoked stays
\* revoked, whatever retries, prunings and restarts interleave with it, in every
\* family but those where a rotation committed between the snapshot and the
\* writes of the response's update: there the successor escapes
\* (refreshTokens, handleRefreshReuse, revokeSession, cleanupExpiredTokens).
THEOREM RevocationIsFinal == AuthSpec => []RevocationHolds
<1>1. IInv => RevocationHolds
  BY DEF IInv, TokenInv, RevocationHolds, CompromiseEndsFamily, FamilyClosed,
         FamilyWithoutAccess, CompromisedClosed, ShutDownClosed
<1> QED BY <1>1, AuthInvariant, PTL

-----------------------------------------------------------------------------
(* The rotation chain.  The redeemable token of a family is its only live  *)
(* one; a sign-in opens a family, a rotation exchanges its token, and every *)
(* other step only closes families.                                        *)

Redeemable(p, f) == p \in Pairs /\ p <= nPair /\ pair[p].family = f /\ refreshRow[p] = "live"

\* A family has one redeemable token or none, before and after a step.
LEMMA LiveTokenIs ==
    ASSUME TokenInv, NEW f
    PROVE  /\ \A p : Redeemable(p, f) => LiveToken(f) = p
           /\ (\A p : ~Redeemable(p, f)) => LiveToken(f) = 0
<1>1. \A p, q : Redeemable(p, f) /\ Redeemable(q, f) => p = q
  BY DEF Redeemable, TokenInv, OneLiveToken
<1>2. ASSUME NEW p, Redeemable(p, f) PROVE LiveToken(f) = p
  <2>1. \E q \in Pairs : q <= nPair /\ pair[q].family = f /\ refreshRow[q] = "live"
    BY <1>2 DEF Redeemable
  <2>2. Redeemable(LiveToken(f), f)
    BY <2>1 DEF LiveToken, Redeemable
  <2> QED BY <1>1, <1>2, <2>2
<1>3. (\A p : ~Redeemable(p, f)) => LiveToken(f) = 0
  BY DEF LiveToken, Redeemable
<1> QED BY <1>2, <1>3

LEMMA LiveTokenIsNext ==
    ASSUME TokenInv', NEW f
    PROVE  /\ \A p : Redeemable(p, f)' => LiveToken(f)' = p
           /\ (\A p : ~Redeemable(p, f)') => LiveToken(f)' = 0
<1>1. \A p, q : Redeemable(p, f)' /\ Redeemable(q, f)' => p = q
  BY DEF Redeemable, TokenInv, OneLiveToken
<1>2. ASSUME NEW p, Redeemable(p, f)' PROVE LiveToken(f)' = p
  <2>1. \E q \in Pairs : q <= nPair' /\ pair'[q].family = f /\ refreshRow'[q] = "live"
    BY <1>2 DEF Redeemable
  <2>2. PICK q : Redeemable(q, f)' /\ LiveToken(f)' = q
    BY <2>1 DEF LiveToken, Redeemable
  <2> QED BY <1>1, <1>2, <2>2
<1>3. (\A p : ~Redeemable(p, f)') => LiveToken(f)' = 0
  BY DEF LiveToken, Redeemable
<1> QED BY <1>2, <1>3

\* Minting: the family's token becomes the new one, other families keep theirs.
LEMMA MintedTokens ==
    ASSUME TypeOK, TypeOK', TokenInv, TokenInv', NEW n, NEW s, Minted(n, s),
           \A q \in Pairs : /\ q <= nPair /\ pair[q].family # s /\ refreshRow[q] = "live"
                            => refreshRow'[q] = "live"
    PROVE  /\ LiveToken(s)' = n
           /\ \A f : f # s => LiveToken(f)' = LiveToken(f)
<1>1. nPair \in Nat /\ n = nPair + 1 /\ nPair' = n /\ n \in Pairs
  BY DEF TypeOK, Minted
<1>2. Redeemable(n, s)'
  BY <1>1 DEF Redeemable, Minted, Pairs
<1>3. LiveToken(s)' = n
  BY <1>2, LiveTokenIsNext
<1>4. ASSUME NEW f, f # s PROVE LiveToken(f)' = LiveToken(f)
  <2>1. \A q : Redeemable(q, f)' => Redeemable(q, f)
    <3> SUFFICES ASSUME NEW q, Redeemable(q, f)' PROVE Redeemable(q, f)
      OBVIOUS
    <3>1. q \in Pairs /\ q <= nPair' /\ pair'[q].family = f /\ refreshRow'[q] = "live"
      BY DEF Redeemable
    <3>2. q # n
      BY <1>4, <3>1 DEF Minted
    <3>3. q <= nPair
      BY <1>1, <3>1, <3>2 DEF Pairs
    <3>4. pair'[q] = pair[q] /\ refreshRow[q] = "live"
      BY <3>1, <3>2 DEF Minted
    <3> QED BY <3>1, <3>3, <3>4 DEF Redeemable
  <2>2. \A q : Redeemable(q, f) => Redeemable(q, f)'
    <3> SUFFICES ASSUME NEW q, Redeemable(q, f) PROVE Redeemable(q, f)'
      OBVIOUS
    <3>1. q \in Pairs /\ q <= nPair /\ pair[q].family = f /\ refreshRow[q] = "live"
      BY DEF Redeemable
    <3>2. q # n /\ q <= nPair'
      BY <1>1, <3>1 DEF Pairs
    <3>3. pair'[q] = pair[q] /\ refreshRow'[q] = "live"
      BY <1>4, <3>1, <3>2 DEF Minted
    <3> QED BY <3>1, <3>2, <3>3 DEF Redeemable
  <2>3. CASE \E q : Redeemable(q, f)
    <3>1. PICK q : Redeemable(q, f)
      BY <2>3
    <3>2. LiveToken(f) = q
      BY <3>1, LiveTokenIs
    <3>3. LiveToken(f)' = q
      BY <2>2, <3>1, LiveTokenIsNext
    <3> QED BY <3>2, <3>3
  <2>4. CASE \A q : ~Redeemable(q, f)
    <3>1. LiveToken(f) = 0
      BY <2>4, LiveTokenIs
    <3>2. LiveToken(f)' = 0
      BY <2>1, <2>4, LiveTokenIsNext
    <3> QED BY <3>1, <3>2
  <2> QED BY <2>3, <2>4
<1> QED BY <1>3, <1>4

LEMMA VerifyOpens ==
    ASSUME IInv, IInv', NEW w \in Wallets, NEW k \in Nonces, VerifyWallet(w, k)
    PROVE  \E f \in Sessions, t \in Pairs : Chain!Open(f, t)
<1>0. PICK s, n : s = nSession + 1 /\ n = nPair + 1
  OBVIOUS
<1>1. Minted(n, s)
  BY <1>0, VerifyMints DEF IInv
<1>2. nSession \in Nat /\ nPair \in Nat /\ nPair' = n /\ n \in Pairs /\ s \in Sessions
  BY <1>0, <1>1, Bounds DEF IInv, TypeOK, Minted, VerifyWallet, Sessions
<1>3. \A p \in 1 .. nPair : p \in Pairs /\ pair'[p] = pair[p] /\ pair[p].family \in 1 .. nSession
  <2> SUFFICES ASSUME NEW p \in 1 .. nPair
               PROVE  p \in Pairs /\ pair'[p] = pair[p] /\ pair[p].family \in 1 .. nSession
    OBVIOUS
  <2>1. p \in Pairs /\ p # n /\ p <= nPair
    BY <1>0, <1>2, Bounds DEF Pairs
  <2> QED BY <1>1, <2>1 DEF Minted, IInv, TokenInv, PairsIssued
<1>4. s \notin {pair[p].family : p \in 1 .. nPair}
  BY <1>0, <1>2, <1>3
<1>5. n \notin 1 .. nPair /\ 1 .. nPair' = (1 .. nPair) \cup {n}
  BY <1>0, <1>2
<1>6. pair'[n].family = s
  BY <1>1 DEF Minted
<1>7. /\ LiveToken(s)' = n
      /\ \A f : f # s => LiveToken(f)' = LiveToken(f)
  <2>1. \A q \in Pairs : refreshRow[q] = "live" => refreshRow'[q] = "live"
    <3>1. refreshRow' = [refreshRow EXCEPT ![n] = "live"]
      BY <1>2 DEF VerifyWallet
    <3> QED BY <1>0, <3>1 DEF IInv, TypeOK
  <2> QED BY <1>1, <2>1, MintedTokens DEF IInv
<1>8. {pair'[p].family : p \in 1 .. nPair'} = {pair[p].family : p \in 1 .. nPair} \cup {s}
  BY <1>3, <1>5, <1>6
<1>9. [f \in Sessions |-> LiveToken(f)]' = [[f \in Sessions |-> LiveToken(f)] EXCEPT ![s] = n]
  <2>1. \A f \in Sessions : LiveToken(f)' = IF f = s THEN n ELSE LiveToken(f)
    BY <1>7
  <2> QED BY <2>1
<1>10. Chain!Open(s, n)
  BY <1>4, <1>5, <1>8, <1>9 DEF Chain!Open
<1> QED BY <1>2, <1>10

LEMMA RotateExchanges ==
    ASSUME IInv, IInv', NEW r \in Requests, RotateRefreshToken(r)
    PROVE  \E f \in Sessions, t \in Pairs : Chain!Rotate(f, t)
<1>0. PICK p, s, n : p = req[r].pair /\ s = pair[p].family /\ n = nPair + 1
  OBVIOUS
<1>1. Minted(n, s) /\ p \in Pairs /\ p <= nPair /\ refreshRow[p] = "live"
  BY <1>0, RotateMints DEF IInv
<1>2. nPair \in Nat /\ nPair' = n /\ n \in Pairs /\ s \in Sessions /\ p # 0 /\ p \in 1 .. nPair
  <2>1. nPair \in Nat /\ nPair' = n /\ n \in Pairs
    BY <1>0, <1>1 DEF IInv, TypeOK, Minted
  <2>2. s \in 1 .. nSession /\ nSession \in 1 .. MaxSessions
    BY <1>0, <1>1 DEF IInv, TypeOK, TokenInv, PairsIssued
  <2>3. s \in Sessions
    BY <2>2, Bounds DEF Sessions
  <2> QED BY <1>1, <2>1, <2>3 DEF Pairs
<1>3. \A q \in 1 .. nPair : q \in Pairs /\ pair'[q] = pair[q]
  <2> SUFFICES ASSUME NEW q \in 1 .. nPair PROVE q \in Pairs /\ pair'[q] = pair[q]
    OBVIOUS
  <2>1. q \in Pairs /\ q # n
    BY <1>0, <1>2, Bounds DEF Pairs
  <2> QED BY <1>1, <2>1 DEF Minted
<1>4. LiveToken(s) = p
  BY <1>0, <1>1, LiveTokenIs DEF IInv, Redeemable
<1>5. n \notin 1 .. nPair /\ 1 .. nPair' = (1 .. nPair) \cup {n}
  BY <1>0, <1>2
<1>6. pair'[n].family = s
  BY <1>1 DEF Minted
<1>7. /\ LiveToken(s)' = n
      /\ \A f : f # s => LiveToken(f)' = LiveToken(f)
  <2>1. \A q \in Pairs : q <= nPair /\ pair[q].family # s /\ refreshRow[q] = "live"
                           => refreshRow'[q] = "live"
    <3>1. refreshRow' = [refreshRow EXCEPT ![p] = "revoked", ![n] = "live"]
      BY <1>0, <1>2 DEF RotateRefreshToken
    <3> QED BY <1>0, <3>1 DEF IInv, TypeOK
  <2> QED BY <1>1, <2>1, MintedTokens DEF IInv
<1>8. s \in {pair[q].family : q \in 1 .. nPair}
  BY <1>0, <1>2
<1>9. {pair'[q].family : q \in 1 .. nPair'} = {pair[q].family : q \in 1 .. nPair}
  BY <1>3, <1>5, <1>6, <1>8
<1>10. [f \in Sessions |-> LiveToken(f)]' = [[f \in Sessions |-> LiveToken(f)] EXCEPT ![s] = n]
  <2>1. \A f \in Sessions : LiveToken(f)' = IF f = s THEN n ELSE LiveToken(f)
    BY <1>7
  <2> QED BY <2>1
<1>11. [f \in Sessions |-> LiveToken(f)][s] # 0
  BY <1>2, <1>4
<1>12. Chain!Rotate(s, n)
  BY <1>5, <1>9, <1>10, <1>11 DEF Chain!Rotate
<1> QED BY <1>2, <1>12

\* A step that mints nothing closes the families that lost their token.
LEMMA OthersClose ==
    ASSUME IInv, IInv', UNCHANGED <<pair, nPair>>,
           \A p \in Pairs : refreshRow'[p] = "live" => refreshRow[p] = "live"
    PROVE  \E S \in SUBSET Sessions : Chain!Close(S)
<1> DEFINE S == {f \in Sessions : LiveToken(f)' = 0}
<1>1. ASSUME NEW f \in Sessions, LiveToken(f)' # 0
      PROVE  LiveToken(f)' = LiveToken(f)
  <2>1. PICK q : Redeemable(q, f)'
    BY <1>1, LiveTokenIsNext DEF IInv
  <2>2. Redeemable(q, f)
    BY <2>1 DEF Redeemable
  <2>3. LiveToken(f)' = q
    BY <2>1, LiveTokenIsNext DEF IInv
  <2>4. LiveToken(f) = q
    BY <2>2, LiveTokenIs DEF IInv
  <2> QED BY <2>3, <2>4
<1>2. \A f \in Sessions :
        LiveToken(f)' = IF f \in S THEN 0 ELSE [g \in Sessions |-> LiveToken(g)][f]
  BY <1>1
<1> HIDE DEF S
<1>3. [f \in Sessions |-> LiveToken(f)]'
        = [f \in Sessions |-> IF f \in S THEN 0 ELSE [g \in Sessions |-> LiveToken(g)][f]]
  BY <1>2
<1>4. UNCHANGED <<{pair[p].family : p \in 1 .. nPair}, 1 .. nPair>>
  OBVIOUS
<1>5. Chain!Close(S)
  BY <1>3, <1>4 DEF Chain!Close
<1>6. S \in SUBSET Sessions
  BY DEF S
<1> QED BY <1>5, <1>6

LEMMA ChainStep ==
    ASSUME IInv, IInv', [AuthNext]_vars
    PROVE  Chain!ChainNext
<1>1. ASSUME UNCHANGED <<pair, nPair>>,
             \A p \in Pairs : refreshRow'[p] = "live" => refreshRow[p] = "live"
      PROVE  Chain!ChainNext
  BY <1>1, OthersClose DEF Chain!ChainNext
<1>2. ASSUME NEW w \in Wallets, NEW n \in Nonces, VerifyWallet(w, n)
      PROVE  Chain!ChainNext
  BY <1>2, VerifyOpens DEF Chain!ChainNext
<1>3. ASSUME NEW r \in Requests, RotateRefreshToken(r)
      PROVE  Chain!ChainNext
  BY <1>3, RotateExchanges DEF Chain!ChainNext
<1>4. ASSUME NEW w \in Wallets,
             GenerateNonce(w) \/ \E n \in Nonces : HandleNonceClaimFailure(w, n)
      PROVE  Chain!ChainNext
  BY <1>1, <1>4 DEF GenerateNonce, HandleNonceClaimFailure
<1>5. ASSUME NEW r \in Requests,
             \/ \E p \in Pairs : ReadRefreshToken(r, p) \/ ReadJti(r, p)
             \/ ValidateLegacyToken(r) \/ ClaimRefreshToken(r) \/ RotateRefused(r)
             \/ BeginRevoke(r) \/ FindFamilyJtis(r) \/ RevokeFamilyJtis(r) \/ TxConflict(r) \/ ReadSession(r)
      PROVE  Chain!ChainNext
  BY <1>1, <1>5 DEF ReadRefreshToken, ReadJti, ValidateLegacyToken, ClaimRefreshToken, RotateRefused,
                    BeginRevoke,
                    FindFamilyJtis, RevokeFamilyJtis, TxConflict, ReadSession, rows
<1>6. ASSUME NEW r \in Requests, RevokeFamily(r)
      PROVE  Chain!ChainNext
  BY <1>1, <1>6 DEF RevokeFamily
<1>7. ASSUME NEW r \in Requests, Handler(r)
      PROVE  Chain!ChainNext
  <2>1. PICK S \in SUBSET Sessions :
           /\ DeleteSessions(S)
           /\ UNCHANGED <<pair, nPair>>
    BY <1>7, HandlerDeletes DEF IInv
  <2>2. \A p \in Pairs : refreshRow'[p] = "live" => refreshRow[p] = "live"
    BY <2>1 DEF DeleteSessions
  <2> QED BY <1>1, <2>1, <2>2
<1>8. CASE PruneJtis \/ PruneRefreshTokens \/ Tick \/ Crash \/ UNCHANGED vars
  BY <1>1, <1>8 DEF PruneJtis, PruneRefreshTokens, Tick, Crash, vars, rows
<1> QED BY <1>2, <1>3, <1>4, <1>5, <1>6, <1>7, <1>8 DEF AuthNext, Continue

LEMMA ChainStart == AuthInit => Chain!ChainInit
<1> SUFFICES ASSUME AuthInit PROVE Chain!ChainInit
  OBVIOUS
<1>1. nPair = 0 /\ \A p \in Pairs : refreshRow[p] = "none"
  BY DEF AuthInit
<1>2. \A f \in Sessions : LiveToken(f) = 0
  BY <1>1 DEF LiveToken
<1>3. 1 .. nPair = {} /\ {pair[p].family : p \in 1 .. nPair} = {}
  BY <1>1
<1> QED BY <1>2, <1>3 DEF Chain!ChainInit

\* Rotation with concurrent requests, retried transactions, a reuse response
\* of several statements, prunings and restarts implements the abstract chain:
\* a family has one redeemable token, exchanged for a fresh one, and never
\* opens again (refreshTokens, handleRefreshReuse, verifyWallet).
THEOREM RotationImplementsChain == AuthSpec => ImplementsRefreshChain
<1>1. AuthInit => Chain!ChainInit
  BY ChainStart
<1>2. IInv /\ IInv' /\ [AuthNext]_vars => [Chain!ChainNext]_(Chain!chainVars)
  BY ChainStep
<1> QED BY <1>1, <1>2, AuthInvariant, PTL DEF AuthSpec, ImplementsRefreshChain, Chain!ChainSpec
=============================================================================
