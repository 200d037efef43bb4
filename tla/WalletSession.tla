---------------------------- MODULE WalletSession ----------------------------
(* The browser's sign-in: the wallet hook of one tab (useStellarWallet), the   *)
(* API routes it calls, which keep the session in cookies that it shares with  *)
(* other tabs, and Freighter, whose account the user may switch or lock at any *)
(* time. JavaScript runs one callback at a time: a step is what happens        *)
(* between two awaits. isAuthenticated always equals isConnected; error only   *)
(* decides what a button is labelled.                                          *)
EXTENDS Integers, Sequences

CONSTANTS Holders,       \* addresses Freighter can expose
          Nobody,        \* no address
          MaxSignIns, MaxReloads, MaxShifts,  \* bounds on the user and the world
          Tallies        \* what of them is used up at the start, per scenario

ASSUME HoldersAssumption == Nobody \notin Holders

VARIABLES tab,         \* the hook's state, its refs and what it awaits
          browser,     \* the cookies: session, nonce_<address>, csrf_token
          extension,   \* Freighter
          granted,     \* the sessions the backend opened, oldest first
          tally        \* how much of each bound is used

sessionVars == <<tab, browser, extension, granted, tally>>

NoSession == 0
Live(s) == s # NoSession /\ granted[s].live
Usable == extension.installed /\ extension.unlocked   \* getFreighterHealth

Bounded(kind, limit) == tally[kind] < limit /\ tally' = [tally EXCEPT ![kind] = @ + 1]
Fails == Bounded("moves", MaxShifts)   \* a request is lost or refused for another reason

-----------------------------------------------------------------------------
(* The proxy in front of every route *)

(* A write needs the token of the cookie in a header as well. The client of    *)
(* this commit never sends the header (sendsToken is FALSE), and the cookie    *)
(* is only ever set by the answer to a GET.                                    *)
Admitted == browser.sendsToken /\ browser.token

(* GET /api/auth/session: the backend answers 401 for a session that ended,    *)
(* backendFetch drops the cookies, and the route redirects to /login, a page   *)
(* that does not exist: the caller sees a 404, not a 401.                      *)
SessionRoute(s) ==
    browser' = [browser EXCEPT !.token = TRUE, !.session = IF Live(s) THEN @ ELSE NoSession]

(* POST /api/auth/nonce keeps the challenge in a cookie of its address. *)
NonceRoute(a) == browser' = [browser EXCEPT !.nonces = @ \cup {a}]

(* POST /api/auth/verify needs that cookie; the session replaces whatever      *)
(* session the browser had.                                                    *)
VerifyRoute(a) ==
    /\ granted' = Append(granted, [owner |-> a, live |-> TRUE])
    /\ browser' = [browser EXCEPT !.session = Len(granted) + 1, !.nonces = @ \ {a}]

(* POST /api/auth/logout revokes the session of the cookie and drops it. *)
LogoutRoute ==
    /\ granted' = [s \in DOMAIN granted |->
                      IF s = browser.session THEN [granted[s] EXCEPT !.live = FALSE] ELSE granted[s]]
    /\ browser' = [browser EXCEPT !.session = NoSession]

-----------------------------------------------------------------------------
(* Opening a tab *)

Waiting(step, a, s) == [step |-> step, address |-> a, session |-> s]
Idle == Waiting("none", Nobody, NoSession)

(* validateStoredSession asks the backend only when the marker cookie is there. *)
Opened(s) ==
    [address |-> Nobody, connected |-> FALSE, loading |-> FALSE, health |-> "healthy", seen |-> Nobody,
     suppressed |-> Nobody, signIn |-> Idle, leaving |-> FALSE, check |-> Idle,
     start |-> IF s = NoSession THEN Idle ELSE Waiting("validating", Nobody, s)]

Reload ==
    /\ Bounded("reloads", MaxReloads)
    /\ tab' = Opened(browser.session)
    /\ UNCHANGED <<browser, extension, granted>>

(* initializeWallet sets what it was told over whatever happened meanwhile;    *)
(* an answer that is not a session counts as none.                             *)
InitializeWallet ==
    LET s == tab.start.session
        Shows(a) == tab' = [tab EXCEPT !.address = a, !.connected = a # Nobody, !.start = Idle]
    IN  /\ tab.start.step = "validating"
        /\ \/ SessionRoute(s) /\ Shows(IF Live(s) THEN granted[s].owner ELSE Nobody) /\ UNCHANGED tally
           \/ Fails /\ Shows(Nobody) /\ UNCHANGED browser
        /\ UNCHANGED <<extension, granted>>

-----------------------------------------------------------------------------
(* Signing in *)

(* WalletConnect offers Connect in its dialog, WalletStatus next to "Not       *)
(* connected"; WalletSessionAlert offers Reconnect or Switch while it warns,   *)
(* also during another sign-in, which connectInFlightRef then refuses.         *)
ConnectOffered== ~tab.connected /\ ~tab.loading /\ extension.installed
AlertOffersConnect== tab.health # "healthy"
DisconnectOffered== tab.connected /\ tab.address # Nobody

Connect ==
    /\ ConnectOffered \/ AlertOffersConnect
    /\ tab.signIn.step = "none"
    /\ Bounded("signIns", MaxSignIns)
    /\ tab' = [tab EXCEPT !.loading = TRUE, !.signIn.step = "wallet"]
    /\ UNCHANGED <<browser, extension, granted>>

(* The catch and finally blocks: the address stays, the connection does not. *)
Refused ==
    tab' = [tab EXCEPT !.loading = FALSE, !.connected = FALSE, !.signIn = Idle]

(* connectFreighter *)
ConnectFreighter ==
    /\ tab.signIn.step = "wallet"
    /\ IF Usable
       THEN tab' = [tab EXCEPT !.signIn = Waiting("nonce", extension.address, NoSession)]
       ELSE Refused
    /\ UNCHANGED <<browser, extension, granted, tally>>

RequestAuthNonce ==
    /\ tab.signIn.step = "nonce"
    /\ \/ /\ Admitted /\ NonceRoute(tab.signIn.address)
          /\ tab' = [tab EXCEPT !.signIn.step = "signature"]
          /\ UNCHANGED tally
       \/ ~Admitted /\ Refused /\ UNCHANGED <<browser, tally>>
       \/ Fails /\ Refused /\ UNCHANGED browser
    /\ UNCHANGED <<extension, granted>>

(* The user may dismiss the prompt: no signature, or an error. *)
SignMessage ==
    /\ tab.signIn.step = "signature"
    /\ \/ Usable /\ tab' = [tab EXCEPT !.signIn.step = "verify"]
       \/ Refused
    /\ UNCHANGED <<browser, extension, granted, tally>>

(* The state of a signed-in tab; a success supersedes any warning. *)
Connected(a) ==
    tab' = [tab EXCEPT !.address = a, !.connected = TRUE, !.loading = FALSE, !.signIn = Idle,
                         !.health = "healthy", !.seen = Nobody, !.suppressed = Nobody]

(* Only the backend authorises the session. *)
UnconfirmedShown == Connected(tab.signIn.address)
Unconfirmed == Refused

(* The answer of a verification that succeeded may get lost. *)
VerifyAuthSignature ==
    LET a == tab.signIn.address
        answerable == Admitted /\ a \in browser.nonces
    IN  /\ tab.signIn.step = "verify"
        /\ \/ answerable /\ VerifyRoute(a) /\ Connected(a) /\ UNCHANGED tally
           \/ ~answerable /\ Unconfirmed /\ UNCHANGED <<browser, granted, tally>>
           \/ /\ Fails /\ Unconfirmed /\ UNCHANGED browser
              /\ \/ UNCHANGED granted
                 \/ answerable /\ granted' = Append(granted, [owner |-> a, live |-> TRUE])
        /\ UNCHANGED extension

-----------------------------------------------------------------------------
(* Signing out *)

Disconnect ==
    /\ DisconnectOffered /\ ~tab.leaving
    /\ tab' = [tab EXCEPT !.leaving = TRUE]
    /\ UNCHANGED <<browser, extension, granted, tally>>

(* clearAuthSession ignores every answer. *)
Disconnected ==
    /\ tab.leaving
    /\ \/ Admitted /\ LogoutRoute /\ UNCHANGED tally
       \/ ~Admitted /\ UNCHANGED <<browser, granted, tally>>
       \/ Fails /\ UNCHANGED <<browser, granted>>
    /\ tab' = [tab EXCEPT !.address = Nobody, !.connected = FALSE, !.health = "healthy",
                            !.seen = Nobody, !.suppressed = Nobody, !.leaving = FALSE]
    /\ UNCHANGED extension

-----------------------------------------------------------------------------
(* The heartbeat *)

(* Every 30 seconds, and when the tab becomes visible or gets the focus. *)
RunHealthCheck ==
    /\ tab.connected /\ tab.address # Nobody
    /\ tab.check.step = "none" /\ tab.signIn.step = "none"
    /\ tab' = [tab EXCEPT !.check = Waiting("probe", tab.address, NoSession)]
    /\ UNCHANGED <<browser, extension, granted, tally>>

(* Both awaits are followed by the question whether the tab still shows what   *)
(* it showed when the check began.                                             *)
StillShown== tab.connected /\ tab.address = tab.check.address

AfterProbe==
    CASE ~StillShown -> [tab EXCEPT !.check = Idle]
      [] StillShown /\ ~Usable -> [tab EXCEPT !.check = Idle, !.health = "unavailable"]
      [] StillShown /\ Usable /\ extension.address = tab.address ->
            [tab EXCEPT !.check.step = "session", !.check.session = browser.session]
      [] OTHER -> IF tab.suppressed = extension.address THEN [tab EXCEPT !.check = Idle]
                  ELSE [tab EXCEPT !.check = Idle, !.health = "address-rotated", !.seen = extension.address]

GetFreighterHealth ==
    /\ tab.check.step = "probe"
    /\ tab' = AfterProbe
    /\ UNCHANGED <<browser, extension, granted, tally>>

(* Whose session it is is not compared; an ended one arrives as a 404, which   *)
(* is taken for a network failure, so nothing changes. (A 401 or 403 would     *)
(* clear the tab, but the route lets neither through.)                         *)
AfterSession(known) ==
    [tab EXCEPT !.check = Idle, !.health = IF known /\ StillShown THEN "healthy" ELSE @]

FetchSessionStatus ==
    LET s == tab.check.session
    IN  /\ tab.check.step = "session"
        /\ \/ SessionRoute(s) /\ tab' = AfterSession(Live(s)) /\ UNCHANGED tally
           \/ Fails /\ tab' = AfterSession(FALSE) /\ UNCHANGED browser
        /\ UNCHANGED <<extension, granted>>

KeepOldSession ==
    /\ tab.health = "address-rotated"
    /\ tab' = [tab EXCEPT !.suppressed = tab.seen, !.health = "healthy", !.seen = Nobody]
    /\ UNCHANGED <<browser, extension, granted, tally>>

-----------------------------------------------------------------------------
(* The world *)

SwitchAccount ==
    /\ \E a \in Holders \ {extension.address} : extension' = [extension EXCEPT !.address = a]
    /\ UNCHANGED <<browser, granted>>
LockOrUnlock == extension' = [extension EXCEPT !.unlocked = ~@] /\ UNCHANGED <<browser, granted>>
SessionEnds ==   \* expired or revoked from elsewhere
    /\ \E s \in DOMAIN granted : Live(s) /\ granted' = [granted EXCEPT ![s].live = FALSE]
    /\ UNCHANGED <<browser, extension>>
ChallengeExpires ==
    /\ \E a \in browser.nonces : browser' = [browser EXCEPT !.nonces = @ \ {a}]
    /\ UNCHANGED <<extension, granted>>
OtherTabSignsIn == Admitted /\ (\E a \in Holders : VerifyRoute(a)) /\ UNCHANGED extension
OtherTabSignsOut == Admitted /\ LogoutRoute /\ UNCHANGED extension

WorldMoves ==
    /\ Fails
    /\ SwitchAccount \/ LockOrUnlock \/ SessionEnds \/ ChallengeExpires \/ OtherTabSignsIn \/ OtherTabSignsOut
    /\ UNCHANGED tab

SignInStep == ConnectFreighter \/ RequestAuthNonce \/ SignMessage \/ VerifyAuthSignature
CheckStep == GetFreighterHealth \/ FetchSessionStatus

SessionNext ==
    \/ WorldMoves
    \/ Reload \/ InitializeWallet
    \/ Connect \/ SignInStep
    \/ Disconnect \/ Disconnected
    \/ RunHealthCheck \/ CheckStep \/ KeepOldSession

(* A browser that has, or has not, a session from an earlier visit. *)
SessionInit ==
    /\ granted \in {<<>>} \cup {<<[owner |-> a, live |-> TRUE]>> : a \in Holders}
    /\ browser \in [session : {Len(granted)}, nonces : {{}}, token : BOOLEAN, sendsToken : BOOLEAN]
    /\ extension \in [installed : BOOLEAN, unlocked : BOOLEAN, address : Holders]
    /\ extension.unlocked => extension.installed
    /\ tab = Opened(browser.session)
    /\ tally \in Tallies

SessionSpec == SessionInit /\ [][SessionNext]_sessionVars

-----------------------------------------------------------------------------
(* An address is shown as connected only if its wallet has signed a challenge  *)
(* that the backend confirmed, now or on an earlier visit, in whatever order   *)
(* sign-ins, sign-outs, other tabs and the start-up check end                     *)
(* (useStellarWallet, "Persist ONLY after the backend confirmed").             *)
ShownWalletIsProven ==
    tab.connected => \E s \in DOMAIN granted : granted[s].owner = tab.address

(* A warning ends by itself: once Freighter exposes the shown address again    *)
(* and the tab's session lives, the heartbeat finds out (runHealthCheck).      *)
Recovered ==
    /\ tab.connected /\ tab.signIn.step = "none" /\ ~tab.leaving
    /\ Usable /\ extension.address = tab.address /\ Live(browser.session)

WarningsEnd == <>[]Recovered => <>[](tab.health = "healthy")
=============================================================================
