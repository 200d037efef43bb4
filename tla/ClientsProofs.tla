---------------------------- MODULE ClientsProofs ----------------------------
(* What the clients guarantee for any wallets, addresses, keys and bounds:     *)
(* the browser's sign-in and its dashboard, the mobile application's gate,     *)
(* session and lending, and its handling of the secret key.                    *)
EXTENDS MobileDevice, WalletSession, WebDashboard, SumTheorems

-----------------------------------------------------------------------------
(* The browser's sign-in.                                                      *)

Somebody == Holders \cup {Nobody}
Waits == [step : {"none", "wallet", "nonce", "signature", "verify", "validating", "probe", "session"},
          address : Somebody, session : Nat]
Tabs == [address : Somebody, connected : BOOLEAN, loading : BOOLEAN,
         health : {"healthy", "unavailable", "address-rotated"}, seen : Somebody, suppressed : Somebody,
         signIn : Waits, leaving : BOOLEAN, check : Waits, start : Waits]
Grants == [owner : Holders, live : BOOLEAN]

Browsers == [session : Nat, nonces : SUBSET Holders, token : BOOLEAN, sendsToken : BOOLEAN]
Extensions == [installed : BOOLEAN, unlocked : BOOLEAN, address : Holders]

SessionTypeOK ==
    /\ tab \in Tabs
    /\ browser \in Browsers
    /\ extension \in Extensions
    /\ granted \in Seq(Grants)

\* Every session anybody remembers was opened, and a signature is asked for only
\* from an address that Freighter exposed.
Remembered ==
    /\ browser.session <= Len(granted)
    /\ tab.start.session <= Len(granted)
    /\ tab.signIn.step \in {"nonce", "signature", "verify"} => tab.signIn.address \in Holders

SessionInv == SessionTypeOK /\ Remembered /\ ShownWalletIsProven

\* Sessions are only ever added, and never change hands.
Keeps ==
    /\ Len(granted) <= Len(granted')
    /\ \A s \in DOMAIN granted : granted'[s].owner = granted[s].owner

LEMMA ProofsLast ==
    ASSUME SessionTypeOK, granted' \in Seq(Grants), Keeps, NEW a,
           \E s \in DOMAIN granted : granted[s].owner = a
    PROVE  \E s \in DOMAIN granted' : granted'[s].owner = a
<1>1. PICK s \in DOMAIN granted : granted[s].owner = a
  OBVIOUS
<1>2. DOMAIN granted = 1 .. Len(granted) /\ DOMAIN granted' = 1 .. Len(granted')
      /\ Len(granted) \in Nat /\ Len(granted') \in Nat
  BY DEF SessionTypeOK
<1>3. s \in DOMAIN granted'
  BY <1>1, <1>2 DEF Keeps
<1> QED BY <1>1, <1>3 DEF Keeps

LEMMA GrantAdded ==
    ASSUME SessionTypeOK, NEW a \in Holders,
           granted' = Append(granted, [owner |-> a, live |-> TRUE])
    PROVE  /\ granted' \in Seq(Grants) /\ Keeps
           /\ Len(granted') = Len(granted) + 1
           /\ \E s \in DOMAIN granted' : granted'[s].owner = a
<1> DEFINE g == [owner |-> a, live |-> TRUE]
<1>1. g \in Grants /\ g.owner = a
  BY DEF Grants
<1>2. granted \in Seq(Grants) /\ granted' = Append(granted, g) /\ Len(granted) \in Nat
  BY DEF SessionTypeOK
<1> HIDE DEF g
<1>3. /\ granted' \in Seq(Grants) /\ Len(granted') = Len(granted) + 1
      /\ DOMAIN granted' = 1 .. Len(granted) + 1 /\ DOMAIN granted = 1 .. Len(granted)
      /\ granted'[Len(granted) + 1] = g
      /\ \A s \in 1 .. Len(granted) : granted'[s] = granted[s]
  BY <1>1, <1>2
<1> QED BY <1>1, <1>2, <1>3 DEF Keeps

LEMMA GrantEnds ==
    ASSUME SessionTypeOK, NEW f, granted' = f, DOMAIN f = DOMAIN granted,
           \A s \in DOMAIN granted : f[s] \in Grants /\ f[s].owner = granted[s].owner,
           f = [s \in DOMAIN f |-> f[s]]
    PROVE  granted' \in Seq(Grants) /\ Keeps /\ Len(granted') = Len(granted)
<1>1. DOMAIN granted = 1 .. Len(granted) /\ Len(granted) \in Nat
  BY DEF SessionTypeOK
<1>2. f \in [1 .. Len(granted) -> Grants]
  BY <1>1
<1>3. f \in Seq(Grants) /\ Len(f) = Len(granted)
  BY <1>1, <1>2
<1> QED BY <1>1, <1>3 DEF Keeps

\* What a step of the tab has to show for the invariant to go on.
LEMMA TabStep ==
    ASSUME SessionInv, granted' \in Seq(Grants), Keeps,
           tab' \in Tabs, browser' \in Browsers, extension' \in Extensions,
           browser'.session <= Len(granted'),
           tab'.start.session \in {tab.start.session, NoSession},
           tab'.signIn.step \in {"nonce", "signature", "verify"} => tab'.signIn.address \in Holders,
           tab'.connected => \/ tab.connected /\ tab'.address = tab.address
                             \/ \E s \in DOMAIN granted' : granted'[s].owner = tab'.address
    PROVE  SessionInv'
<1>1. SessionTypeOK'
  BY DEF SessionTypeOK
<1>2. tab'.start.session <= Len(granted')
  <2>1. Len(granted) \in Nat /\ Len(granted') \in Nat /\ tab.start.session \in Nat
    BY DEF SessionInv, SessionTypeOK, Tabs, Waits
  <2> QED BY <2>1 DEF SessionInv, Remembered, Keeps, NoSession
<1>3. ShownWalletIsProven'
  <2>1. SUFFICES ASSUME tab'.connected
                 PROVE  \E s \in DOMAIN granted' : granted'[s].owner = tab'.address
    BY DEF ShownWalletIsProven
  <2>2. CASE tab.connected /\ tab'.address = tab.address
    <3>1. \E s \in DOMAIN granted : granted[s].owner = tab.address
      BY <2>2 DEF SessionInv, ShownWalletIsProven
    <3> QED BY <2>2, <3>1, ProofsLast DEF SessionInv
  <2> QED BY <2>1, <2>2
<1> QED BY <1>1, <1>2, <1>3 DEF SessionInv, Remembered

\* Nothing is opened or ended.
LEMMA QuietTab ==
    ASSUME SessionInv, UNCHANGED granted,
           tab' \in Tabs, browser' \in Browsers, extension' \in Extensions,
           browser'.session \in {browser.session, NoSession},
           tab'.start.session \in {tab.start.session, NoSession},
           tab'.signIn.step \in {"nonce", "signature", "verify"} => tab'.signIn.address \in Holders,
           tab'.connected => \/ tab.connected /\ tab'.address = tab.address
                             \/ \E s \in DOMAIN granted : granted[s].owner = tab'.address
    PROVE  SessionInv'
<1>1. granted \in Seq(Grants) /\ Len(granted) \in Nat
  BY DEF SessionInv, SessionTypeOK
<1>2. granted' \in Seq(Grants) /\ Keeps
  BY <1>1 DEF Keeps
<1>3. browser'.session <= Len(granted')
  BY <1>1 DEF SessionInv, Remembered, NoSession
<1> QED BY <1>2, <1>3, TabStep

LEMMA IdleWaits ==
    /\ Idle \in Waits /\ Idle.session = NoSession /\ Idle.step = "none" /\ Idle.address = Nobody
    /\ \A st \in {"validating", "probe", "nonce"}, a \in Somebody, n \in Nat :
          /\ Waiting(st, a, n) \in Waits
          /\ Waiting(st, a, n).step = st /\ Waiting(st, a, n).address = a /\ Waiting(st, a, n).session = n
BY DEF Idle, Waiting, Waits, Somebody, NoSession

LEMMA RoutesKeep ==
    ASSUME browser \in Browsers
    PROVE  /\ \A s : SessionRoute(s) => browser' \in Browsers /\ browser'.session \in {browser.session, NoSession}
           /\ \A a \in Holders : NonceRoute(a) => browser' \in Browsers /\ browser'.session = browser.session
<1>1. ASSUME NEW s, SessionRoute(s)
      PROVE  browser' \in Browsers /\ browser'.session \in {browser.session, NoSession}
  <2>1. PICK n : n = (IF Live(s) THEN browser.session ELSE NoSession)
    OBVIOUS
  <2>2. n \in Nat /\ n \in {browser.session, NoSession}
    BY <2>1 DEF Browsers, NoSession
  <2>3. browser' = [browser EXCEPT !.token = TRUE, !.session = n]
    BY <1>1, <2>1 DEF SessionRoute
  <2> QED BY <2>2, <2>3 DEF Browsers
<1>2. ASSUME NEW a \in Holders, NonceRoute(a)
      PROVE  browser' \in Browsers /\ browser'.session = browser.session
  BY <1>2 DEF NonceRoute, Browsers
<1> QED BY <1>1, <1>2

\* A tab that has just been opened.
LEMMA OpenedTab ==
    ASSUME NEW s \in Nat
    PROVE  /\ Opened(s) \in Tabs /\ ~Opened(s).connected
           /\ Opened(s).signIn.step = "none" /\ Opened(s).start.session = s
<1>1. PICK st \in Waits : /\ st = (IF s = NoSession THEN Idle ELSE Waiting("validating", Nobody, s))
                          /\ st.session = s
  <2>1. Waiting("validating", Nobody, s) \in Waits /\ Waiting("validating", Nobody, s).session = s
    BY IdleWaits DEF Somebody
  <2>2. CASE s = NoSession
    BY <2>2, IdleWaits
  <2>3. CASE s # NoSession
    BY <2>1, <2>3
  <2> QED BY <2>2, <2>3
<1>2. Opened(s) = [address |-> Nobody, connected |-> FALSE, loading |-> FALSE, health |-> "healthy",
                   seen |-> Nobody, suppressed |-> Nobody, signIn |-> Idle, leaving |-> FALSE,
                   check |-> Idle, start |-> st]
  BY <1>1 DEF Opened
<1> QED BY <1>1, <1>2, IdleWaits DEF Tabs, Somebody

LEMMA ReloadStep ==
    ASSUME SessionInv, Reload
    PROVE  SessionInv'
<1>1. /\ tab' = Opened(browser.session) /\ UNCHANGED <<browser, extension, granted>>
      /\ browser.session \in Nat /\ SessionTypeOK /\ Remembered
  BY DEF Reload, SessionInv, SessionTypeOK, Browsers
<1>2. tab' \in Tabs /\ ~tab'.connected /\ tab'.signIn.step = "none" /\ tab'.start.session = browser.session
  BY <1>1, OpenedTab
<1> QED BY <1>1, <1>2 DEF SessionInv, SessionTypeOK, Remembered, ShownWalletIsProven

LEMMA StartChecked ==
    ASSUME SessionInv, InitializeWallet
    PROVE  SessionInv'
<1>1. /\ tab \in Tabs /\ browser \in Browsers /\ extension \in Extensions /\ granted \in Seq(Grants)
      /\ tab.start.session \in Nat /\ tab.start.session <= Len(granted) /\ UNCHANGED <<extension, granted>>
  BY DEF SessionInv, SessionTypeOK, Remembered, InitializeWallet, Tabs, Waits
<1>2. PICK s : s = tab.start.session
  OBVIOUS
<1>3. PICK a : /\ tab' = [tab EXCEPT !.address = a, !.connected = a # Nobody, !.start = Idle]
               /\ \/ SessionRoute(s) /\ a = (IF Live(s) THEN granted[s].owner ELSE Nobody)
                  \/ a = Nobody /\ UNCHANGED browser
  BY <1>2 DEF InitializeWallet
<1>4. a = Nobody \/ \E g \in DOMAIN granted : granted[g].owner = a /\ a \in Holders
  <2>1. CASE Live(s)
    <3>1. s \in 1 .. Len(granted)
      BY <1>1, <1>2, <2>1 DEF Live, NoSession
    <3>2. s \in DOMAIN granted /\ granted[s] \in Grants
      BY <1>1, <3>1
    <3>3. granted[s].owner \in Holders
      BY <1>1, <3>2 DEF Grants
    <3> QED BY <1>3, <2>1, <3>2, <3>3
  <2> QED BY <1>3, <2>1
<1>5. browser' \in Browsers /\ browser'.session \in {browser.session, NoSession}
  BY <1>1, <1>3, RoutesKeep
<1>6. a \in Somebody
  BY <1>4 DEF Somebody
<1>7. /\ tab' \in Tabs /\ tab'.start = Idle /\ tab'.connected = (a # Nobody) /\ tab'.address = a
      /\ tab'.signIn = tab.signIn
  BY <1>1, <1>3, <1>6, IdleWaits DEF Tabs
<1>8. tab'.signIn.step \in {"nonce", "signature", "verify"} => tab'.signIn.address \in Holders
  BY <1>7 DEF SessionInv, Remembered
<1>9. tab'.start.session = NoSession
  BY <1>7, IdleWaits
<1>10. tab'.connected => \E g \in DOMAIN granted : granted[g].owner = tab'.address
  BY <1>4, <1>7
<1> QED BY <1>1, <1>5, <1>7, <1>8, <1>9, <1>10, QuietTab

\* A sign-in that fails leaves the tab disconnected.
LEMMA RefusedTab ==
    ASSUME SessionInv, Refused
    PROVE  /\ tab' \in Tabs /\ ~tab'.connected /\ tab'.start = tab.start
           /\ tab'.signIn.step = "none"
BY IdleWaits DEF Refused, SessionInv, SessionTypeOK, Tabs

LEMMA SignInSteps ==
    ASSUME SessionInv, Connect \/ ConnectFreighter \/ RequestAuthNonce \/ SignMessage
    PROVE  SessionInv'
<1>1. /\ tab \in Tabs /\ browser \in Browsers /\ extension \in Extensions
      /\ tab.signIn.step \in {"nonce", "signature", "verify"} => tab.signIn.address \in Holders
  BY DEF SessionInv, SessionTypeOK, Remembered
<1>2. UNCHANGED <<extension, granted>>
  BY DEF Connect, ConnectFreighter, RequestAuthNonce, SignMessage
<1>3. browser' \in Browsers /\ browser'.session \in {browser.session, NoSession}
  <2>1. CASE RequestAuthNonce
    <3>1. tab.signIn.address \in Holders
      BY <1>1, <2>1 DEF RequestAuthNonce
    <3> QED BY <1>1, <2>1, <3>1, RoutesKeep DEF RequestAuthNonce
  <2> QED BY <1>1, <2>1 DEF Connect, ConnectFreighter, SignMessage
<1>4. CASE Refused
  BY <1>1, <1>2, <1>3, <1>4, RefusedTab, QuietTab
<1>5. ASSUME NEW w \in Waits, tab' = [tab EXCEPT !.signIn = w] \/ tab' = [tab EXCEPT !.loading = TRUE, !.signIn = w],
             w.step \in {"nonce", "signature", "verify"} => w.address \in Holders
      PROVE  SessionInv'
  <2>1. /\ tab' \in Tabs /\ tab'.start = tab.start /\ tab'.signIn = w
        /\ tab'.connected = tab.connected /\ tab'.address = tab.address
    BY <1>1, <1>5 DEF Tabs
  <2> QED BY <1>1, <1>2, <1>3, <1>5, <2>1, QuietTab
<1>6. CASE Connect
  <2>1. [tab.signIn EXCEPT !.step = "wallet"] \in Waits /\ [tab.signIn EXCEPT !.step = "wallet"].step = "wallet"
    BY <1>1 DEF Tabs, Waits
  <2>2. tab' = [tab EXCEPT !.loading = TRUE, !.signIn = [tab.signIn EXCEPT !.step = "wallet"]]
    BY <1>1, <1>6 DEF Connect, Tabs
  <2> QED BY <1>5, <2>1, <2>2
<1>7. CASE ConnectFreighter
  <2>1. extension.address \in Holders /\ extension.address \in Somebody /\ NoSession \in Nat
    BY <1>1 DEF Extensions, Somebody, NoSession
  <2>2. Waiting("nonce", extension.address, NoSession) \in Waits
        /\ Waiting("nonce", extension.address, NoSession).address \in Holders
    BY <2>1, IdleWaits
  <2>3. CASE tab' = [tab EXCEPT !.signIn = Waiting("nonce", extension.address, NoSession)]
    BY <1>5, <2>2, <2>3
  <2> QED BY <1>4, <1>7, <2>3 DEF ConnectFreighter
<1>8. CASE RequestAuthNonce \/ SignMessage
  <2>1. tab.signIn.address \in Holders
    BY <1>1, <1>8 DEF RequestAuthNonce, SignMessage
  <2>2. \A st \in {"signature", "verify"} : [tab.signIn EXCEPT !.step = st] \in Waits
                                           /\ [tab.signIn EXCEPT !.step = st].address = tab.signIn.address
    BY <1>1 DEF Tabs, Waits
  <2>3. ASSUME NEW st \in {"signature", "verify"}, tab' = [tab EXCEPT !.signIn.step = st] PROVE SessionInv'
    <3>1. tab' = [tab EXCEPT !.signIn = [tab.signIn EXCEPT !.step = st]]
      BY <1>1, <2>3
    <3> QED BY <1>5, <2>1, <2>2, <3>1
  <2> QED BY <1>4, <1>8, <2>3 DEF RequestAuthNonce, SignMessage
<1> QED BY <1>6, <1>7, <1>8

LEMMA SameGrants == ASSUME SessionTypeOK, UNCHANGED granted PROVE granted' \in Seq(Grants) /\ Keeps /\ Len(granted') = Len(granted) /\ Len(granted) \in Nat
BY DEF SessionTypeOK, Keeps

LEMMA SessionSet ==
    ASSUME browser \in Browsers, NEW n \in Nat, NEW a,
           browser' = [browser EXCEPT !.session = n, !.nonces = @ \ {a}]
    PROVE  browser' \in Browsers /\ browser'.session = n
<1>1. PICK left \in SUBSET Holders : left = browser.nonces \ {a}
  BY DEF Browsers
<1>2. browser' = [browser EXCEPT !.session = n, !.nonces = left]
  BY <1>1
<1> QED BY <1>2 DEF Browsers

LEMMA VerifyStep ==
    ASSUME SessionInv, VerifyAuthSignature
    PROVE  SessionInv'
<1>1. /\ tab \in Tabs /\ browser \in Browsers /\ extension' \in Extensions /\ SessionTypeOK
      /\ browser.session <= Len(granted) /\ Len(granted) \in Nat
  BY DEF SessionInv, SessionTypeOK, Remembered, VerifyAuthSignature
<1>2. PICK a \in Holders : a = tab.signIn.address
  BY DEF SessionInv, Remembered, VerifyAuthSignature
<1>3. CASE VerifyRoute(a) /\ Connected(a)
  <2>1. /\ granted' = Append(granted, [owner |-> a, live |-> TRUE])
        /\ browser' = [browser EXCEPT !.session = Len(granted) + 1, !.nonces = @ \ {a}]
    BY <1>3 DEF VerifyRoute
  <2>2. /\ granted' \in Seq(Grants) /\ Keeps /\ Len(granted') = Len(granted) + 1
        /\ \E s \in DOMAIN granted' : granted'[s].owner = a
    BY <1>1, <2>1, GrantAdded
  <2>3. browser' \in Browsers /\ browser'.session = Len(granted')
    <3>1. Len(granted) + 1 \in Nat /\ Len(granted') = Len(granted) + 1
      BY <1>1, <2>2
    <3> QED BY <1>1, <2>1, <3>1, SessionSet
  <2>4. /\ tab' \in Tabs /\ tab'.start = tab.start /\ tab'.signIn = Idle /\ tab'.address = a
    BY <1>1, <1>3, IdleWaits DEF Connected, Tabs, Somebody
  <2>5. tab'.signIn.step = "none" /\ browser'.session <= Len(granted')
    BY <1>1, <2>2, <2>3, <2>4, IdleWaits
  <2> QED BY <1>1, <2>2, <2>3, <2>4, <2>5, TabStep
<1>4. CASE Refused
  <2>1. UNCHANGED granted \/ granted' = Append(granted, [owner |-> a, live |-> TRUE])
    BY <1>2 DEF VerifyAuthSignature, VerifyRoute
  <2>2. granted' \in Seq(Grants) /\ Keeps
    BY <1>1, <2>1, GrantAdded, SameGrants
  <2>3. /\ tab' \in Tabs /\ ~tab'.connected /\ tab'.start = tab.start /\ tab'.signIn.step = "none"
    BY <1>4, RefusedTab
  <2>4. CASE UNCHANGED browser
    <3>1. Len(granted') \in Nat /\ browser'.session <= Len(granted') /\ browser' \in Browsers /\ browser.session \in Nat
      BY <1>1, <2>2, <2>4 DEF Keeps, Browsers
    <3> QED BY <1>1, <2>2, <2>3, <3>1, TabStep
  <2>5. CASE VerifyRoute(a) /\ Connected(a)
    BY <1>3, <2>5
  <2> QED BY <1>2, <2>4, <2>5 DEF VerifyAuthSignature, Unconfirmed
<1> QED BY <1>2, <1>3, <1>4 DEF VerifyAuthSignature, Unconfirmed

\* Ending a session leaves it in the list of those that were opened.
LEMMA SessionsEnd ==
    ASSUME SessionTypeOK
    PROVE  /\ LogoutRoute => /\ granted' \in Seq(Grants) /\ Keeps /\ Len(granted') = Len(granted)
                             /\ browser' \in Browsers /\ browser'.session = NoSession
           /\ \A s \in DOMAIN granted : granted' = [granted EXCEPT ![s].live = FALSE]
                 => granted' \in Seq(Grants) /\ Keeps /\ Len(granted') = Len(granted)
<1>1. browser \in Browsers /\ DOMAIN granted = 1 .. Len(granted)
      /\ \A s \in DOMAIN granted : granted[s] \in Grants
  BY DEF SessionTypeOK
<1>2. \A g \in Grants : [g EXCEPT !.live = FALSE] \in Grants /\ [g EXCEPT !.live = FALSE].owner = g.owner
  BY DEF Grants
<1>3. ASSUME LogoutRoute
      PROVE  /\ granted' \in Seq(Grants) /\ Keeps /\ Len(granted') = Len(granted)
             /\ browser' \in Browsers /\ browser'.session = NoSession
  <2> DEFINE f == [s \in DOMAIN granted |-> IF s = browser.session THEN [granted[s] EXCEPT !.live = FALSE] ELSE granted[s]]
  <2>1. granted' = f
    BY <1>3 DEF LogoutRoute
  <2>2. DOMAIN f = DOMAIN granted /\ f = [s \in DOMAIN f |-> f[s]]
    OBVIOUS
  <2>3. \A s \in DOMAIN granted : f[s] \in Grants /\ f[s].owner = granted[s].owner
    BY <1>1, <1>2
  <2>4. browser' \in Browsers /\ browser'.session = NoSession
    BY <1>1, <1>3 DEF LogoutRoute, Browsers, NoSession
  <2> HIDE DEF f
  <2> QED BY <2>1, <2>2, <2>3, <2>4, GrantEnds
<1>4. ASSUME NEW s \in DOMAIN granted, granted' = [granted EXCEPT ![s].live = FALSE]
      PROVE  granted' \in Seq(Grants) /\ Keeps /\ Len(granted') = Len(granted)
  <2> DEFINE f == [granted EXCEPT ![s].live = FALSE]
  <2>1. granted' = f
    BY <1>4
  <2>2. DOMAIN f = DOMAIN granted /\ f = [r \in DOMAIN f |-> f[r]]
    OBVIOUS
  <2>3. \A r \in DOMAIN granted : f[r] \in Grants /\ f[r].owner = granted[r].owner
    <3>1. \A r \in DOMAIN granted : f[r] = IF r = s THEN [granted[s] EXCEPT !.live = FALSE] ELSE granted[r]
      OBVIOUS
    <3> HIDE DEF f
    <3> QED BY <1>1, <1>2, <3>1
  <2> HIDE DEF f
  <2> QED BY <2>1, <2>2, <2>3, GrantEnds
<1> QED BY <1>3, <1>4

LEMMA LeavingSteps ==
    ASSUME SessionInv, Disconnect \/ Disconnected
    PROVE  SessionInv'
<1>1. /\ tab \in Tabs /\ browser \in Browsers /\ extension' \in Extensions /\ SessionTypeOK
      /\ browser.session <= Len(granted) /\ Len(granted) \in Nat
      /\ tab.signIn.step \in {"nonce", "signature", "verify"} => tab.signIn.address \in Holders
  BY DEF SessionInv, SessionTypeOK, Remembered, Disconnect, Disconnected
<1>2. /\ granted' \in Seq(Grants) /\ Keeps /\ Len(granted') = Len(granted)
      /\ browser' \in Browsers /\ browser'.session \in {browser.session, NoSession}
  BY <1>1, SameGrants, SessionsEnd DEF Disconnect, Disconnected
<1>3. /\ tab' \in Tabs /\ tab'.start = tab.start /\ tab'.signIn = tab.signIn
      /\ tab'.connected => tab.connected /\ tab'.address = tab.address
  <2>1. CASE Disconnect
    BY <1>1, <2>1 DEF Disconnect, Tabs
  <2>2. CASE Disconnected
    BY <1>1, <2>2 DEF Disconnected, Tabs, Somebody
  <2> QED BY <2>1, <2>2
<1>4. browser'.session <= Len(granted')
  BY <1>1, <1>2 DEF NoSession
<1> QED BY <1>1, <1>2, <1>3, <1>4, TabStep

LEMMA HeartbeatSteps ==
    ASSUME SessionInv, RunHealthCheck \/ CheckStep \/ KeepOldSession
    PROVE  SessionInv'
<1>1. /\ tab \in Tabs /\ browser \in Browsers /\ extension \in Extensions
      /\ tab.signIn.step \in {"nonce", "signature", "verify"} => tab.signIn.address \in Holders
  BY DEF SessionInv, SessionTypeOK, Remembered
<1>2. UNCHANGED <<extension, granted>>
  BY DEF RunHealthCheck, CheckStep, GetFreighterHealth, FetchSessionStatus, KeepOldSession
<1>3. browser' \in Browsers /\ browser'.session \in {browser.session, NoSession}
  BY <1>1, RoutesKeep DEF RunHealthCheck, CheckStep, GetFreighterHealth, FetchSessionStatus, KeepOldSession
<1> DEFINE Kept == /\ tab' \in Tabs /\ tab'.start = tab.start /\ tab'.signIn = tab.signIn
                   /\ tab'.connected = tab.connected /\ tab'.address = tab.address
<1>4. CASE RunHealthCheck
  <2>1. PICK w \in Waits : w = Waiting("probe", tab.address, NoSession)
    BY <1>1, IdleWaits DEF Tabs, NoSession
  <2>2. tab' = [tab EXCEPT !.check = w]
    BY <1>4, <2>1 DEF RunHealthCheck
  <2>3. Kept
    BY <1>1, <2>2 DEF Tabs
  <2> QED BY <1>1, <1>2, <1>3, <2>3, QuietTab
<1>5. CASE KeepOldSession
  <2>1. Kept
    BY <1>1, <1>5 DEF KeepOldSession, Tabs, Somebody
  <2> QED BY <1>1, <1>2, <1>3, <2>1, QuietTab
<1>6. CASE GetFreighterHealth
  <2>1. Kept
    <3>1. PICK w : w = [tab.check EXCEPT !.step = "session", !.session = browser.session]
      OBVIOUS
    <3>2. w \in Waits
      BY <1>1, <3>1 DEF Tabs, Waits, Browsers
    <3>3. tab' \in {[tab EXCEPT !.check = Idle], [tab EXCEPT !.check = Idle, !.health = "unavailable"],
                    [tab EXCEPT !.check = Idle, !.health = "address-rotated", !.seen = extension.address],
                    [tab EXCEPT !.check.step = "session", !.check.session = browser.session]}
      BY <1>6 DEF GetFreighterHealth, AfterProbe
    <3>4. [tab EXCEPT !.check.step = "session", !.check.session = browser.session] = [tab EXCEPT !.check = w]
      BY <1>1, <3>1 DEF Tabs
    <3>5. extension.address \in Somebody
      BY <1>1 DEF Extensions, Somebody
    <3>6. CASE tab' = [tab EXCEPT !.check = w]
      BY <1>1, <3>2, <3>6 DEF Tabs
    <3>7. CASE tab' = [tab EXCEPT !.check = Idle]
      BY <1>1, <3>7, IdleWaits DEF Tabs
    <3>8. CASE tab' = [tab EXCEPT !.check = Idle, !.health = "unavailable"]
      BY <1>1, <3>8, IdleWaits DEF Tabs
    <3>9. CASE tab' = [tab EXCEPT !.check = Idle, !.health = "address-rotated", !.seen = extension.address]
      BY <1>1, <3>5, <3>9, IdleWaits DEF Tabs
    <3> QED BY <3>3, <3>4, <3>6, <3>7, <3>9, <3>8
  <2> QED BY <1>1, <1>2, <1>3, <2>1, QuietTab
<1>7. CASE FetchSessionStatus
  <2>1. Kept
    <3>1. PICK known : tab' = AfterSession(known)
      BY <1>7 DEF FetchSessionStatus
    <3>2. PICK h : tab' = [tab EXCEPT !.check = Idle, !.health = h] /\ h \in {"healthy", tab.health}
      BY <1>1, <3>1 DEF AfterSession, Tabs
    <3> QED BY <1>1, <3>2, IdleWaits DEF Tabs
  <2> QED BY <1>1, <1>2, <1>3, <2>1, QuietTab
<1> QED BY <1>4, <1>5, <1>6, <1>7 DEF CheckStep

LEMMA WorldSteps ==
    ASSUME SessionInv, WorldMoves
    PROVE  SessionInv'
<1>1. /\ tab \in Tabs /\ tab' = tab /\ browser \in Browsers /\ extension \in Extensions /\ SessionTypeOK
      /\ browser.session <= Len(granted) /\ Len(granted) \in Nat
      /\ tab.signIn.step \in {"nonce", "signature", "verify"} => tab.signIn.address \in Holders
  BY DEF SessionInv, SessionTypeOK, Remembered, WorldMoves
<1>2. ASSUME granted' \in Seq(Grants), Keeps, browser' \in Browsers, extension' \in Extensions,
             browser'.session <= Len(granted')
      PROVE  SessionInv'
  BY <1>1, <1>2, TabStep
<1>3. CASE SwitchAccount \/ LockOrUnlock
  <2>1. extension' \in Extensions /\ UNCHANGED <<browser, granted>>
    BY <1>1, <1>3 DEF SwitchAccount, LockOrUnlock, Extensions
  <2> QED BY <1>1, <1>2, <2>1, SameGrants
<1>4. CASE SessionEnds
  <2>1. UNCHANGED <<browser, extension>> /\ granted' \in Seq(Grants) /\ Keeps /\ Len(granted') = Len(granted)
    BY <1>1, <1>4, SessionsEnd DEF SessionEnds
  <2> QED BY <1>1, <1>2, <2>1
<1>5. CASE ChallengeExpires
  <2>1. browser' \in Browsers /\ browser'.session = browser.session /\ UNCHANGED <<extension, granted>>
    BY <1>1, <1>5 DEF ChallengeExpires, Browsers
  <2> QED BY <1>1, <1>2, <2>1, SameGrants
<1>6. CASE OtherTabSignsIn
  <2>1. PICK a \in Holders : VerifyRoute(a) /\ UNCHANGED extension
    BY <1>6 DEF OtherTabSignsIn
  <2>2. granted' \in Seq(Grants) /\ Keeps /\ Len(granted') = Len(granted) + 1
    BY <1>1, <2>1, GrantAdded DEF VerifyRoute
  <2>3. browser' \in Browsers /\ browser'.session = Len(granted')
    <3>1. Len(granted) + 1 \in Nat /\ Len(granted') = Len(granted) + 1
      BY <1>1, <2>2
    <3> QED BY <1>1, <2>1, <3>1, SessionSet DEF VerifyRoute
  <2>4. browser'.session <= Len(granted')
    BY <1>1, <2>2, <2>3
  <2> QED BY <1>1, <1>2, <2>1, <2>2, <2>3, <2>4
<1>7. CASE OtherTabSignsOut
  <2>1. UNCHANGED extension /\ LogoutRoute
    BY <1>7 DEF OtherTabSignsOut
  <2>2. granted' \in Seq(Grants) /\ Keeps /\ Len(granted') = Len(granted)
        /\ browser' \in Browsers /\ browser'.session = NoSession
    BY <1>1, <2>1, SessionsEnd
  <2>3. browser'.session <= Len(granted')
    BY <1>1, <2>2 DEF NoSession
  <2> QED BY <1>1, <1>2, <2>1, <2>2, <2>3
<1> QED BY <1>3, <1>4, <1>5, <1>6, <1>7 DEF WorldMoves

LEMMA SessionInitSound ==
    ASSUME SessionInit
    PROVE  SessionInv
<1>1. /\ extension \in Extensions /\ browser \in Browsers /\ browser.session = Len(granted)
      /\ granted \in Seq(Grants)
  <2>1. granted \in Seq(Grants) /\ Len(granted) \in Nat
    <3>1. \A a \in Holders : [owner |-> a, live |-> TRUE] \in Grants
      BY DEF Grants
    <3>2. granted = <<>> \/ \E g \in Grants : granted = <<g>>
      BY <3>1 DEF SessionInit
    <3>3. <<>> \in Seq(Grants) /\ Len(<<>>) = 0
      OBVIOUS
    <3>4. ASSUME NEW g \in Grants PROVE <<g>> \in Seq(Grants) /\ Len(<<g>>) = 1
      OBVIOUS
    <3> QED BY <3>2, <3>3, <3>4
  <2> QED BY <2>1 DEF SessionInit, Extensions, Browsers
<1>2. /\ tab \in Tabs /\ ~tab.connected /\ tab.signIn.step = "none" /\ tab.start.session = browser.session
  <2>1. PICK s \in Nat : s = browser.session /\ tab = Opened(s)
    BY <1>1 DEF SessionInit, Browsers
  <2> QED BY <2>1, OpenedTab
<1> QED BY <1>1, <1>2 DEF SessionInv, SessionTypeOK, Remembered, ShownWalletIsProven

\* An address is shown as connected only if its wallet has signed a challenge
\* that the backend confirmed, in whatever order sign-ins, sign-outs, other tabs
\* and the start-up check end (useStellarWallet.ts, connect and initializeWallet).
THEOREM ShownWalletsAreProven == SessionSpec => []ShownWalletIsProven
<1>1. SessionInit => SessionInv
  BY SessionInitSound
<1>2. SessionInv /\ [SessionNext]_sessionVars => SessionInv'
  <2> SUFFICES ASSUME SessionInv, [SessionNext]_sessionVars PROVE SessionInv'
    OBVIOUS
  <2>1. CASE UNCHANGED sessionVars
    BY <2>1 DEF sessionVars, SessionInv, SessionTypeOK, Remembered, ShownWalletIsProven
  <2> QED BY <2>1, ReloadStep, StartChecked, SignInSteps, VerifyStep, LeavingSteps, HeartbeatSteps, WorldSteps
          DEF SessionNext, SignInStep
<1>3. SessionInv => ShownWalletIsProven
  BY DEF SessionInv
<1> QED BY <1>1, <1>2, <1>3, PTL DEF SessionSpec

-----------------------------------------------------------------------------
(* The dashboard's figures.                                                    *)

Pages == [data : Addresses, hasData : BOOLEAN, loading : BOOLEAN, error : BOOLEAN,
          stale : BOOLEAN, hidden : BOOLEAN, cut : BOOLEAN, timer : {"none", "fetch", "clear"}]

\* Every request under way is one for the wallet shown, since a change of wallet
\* aborts the others, and there are no figures without hasData.
HookInv ==
    /\ address \in Addresses /\ page \in Pages
    /\ requests \subseteq {address} \cap Accounts
    /\ page.data # NoAddress => page.hasData
    /\ ForeignDataIsFlagged

LEMMA CutPage ==
    ASSUME NEW p \in Pages
    PROVE  /\ Cut(p) \in Pages /\ Cut(p).data = p.data /\ Cut(p).hasData = p.hasData
           /\ Cut(p).stale = p.stale /\ Cut(p).timer = p.timer
BY DEF Cut, Pages

LEMMA Fetched ==
    ASSUME HookInv, UNCHANGED address, NEW shown \in Pages, shown.data = page.data, shown.hasData = page.hasData,
           FetchData(shown)
    PROVE  HookInv'
<1>1. address \in Addresses /\ page \in Pages /\ (page.data # NoAddress => page.hasData)
      /\ requests \subseteq {address} \cap Accounts
  BY DEF HookInv
<1>2. CASE address \in Accounts
  <2>1. PICK q : q = Cut(shown)
    OBVIOUS
  <2>2. requests' = {address} /\ page' = [q EXCEPT !.loading = TRUE, !.error = FALSE, !.stale = page.hasData]
    BY <1>2, <2>1 DEF FetchData, Aborted
  <2>3. page' \in Pages /\ page'.data = page.data /\ page'.hasData = page.hasData /\ page'.stale = page.hasData
    <3>1. q \in Pages /\ q.data = page.data /\ q.hasData = page.hasData
      BY <2>1, CutPage
    <3> QED BY <1>1, <2>2, <3>1 DEF Pages
  <2> QED BY <1>1, <1>2, <2>2, <2>3 DEF HookInv, ForeignDataIsFlagged
<1>3. CASE address \notin Accounts
  <2>1. /\ requests' = requests
        /\ page' = [shown EXCEPT !.data = NoAddress, !.hasData = FALSE, !.loading = FALSE, !.error = TRUE]
    BY <1>3 DEF FetchData
  <2>2. page' \in Pages /\ page'.data = NoAddress
    BY <2>1 DEF Pages, Addresses
  <2> QED BY <1>1, <2>1, <2>2 DEF HookInv, ForeignDataIsFlagged
<1> QED BY <1>2, <1>3

LEMMA PageTimerSound ==
    ASSUME HookInv, PageTimer
    PROVE  HookInv'
<1>1. address \in Addresses /\ page \in Pages /\ UNCHANGED address
      /\ requests \subseteq {address} \cap Accounts
  BY DEF HookInv, PageTimer
<1>2. CASE FetchData([page EXCEPT !.timer = "none"])
  <2>1. PICK shown : shown = [page EXCEPT !.timer = "none"]
    OBVIOUS
  <2>2. shown \in Pages /\ shown.data = page.data /\ shown.hasData = page.hasData
    BY <1>1, <2>1 DEF Pages
  <2> QED BY <1>1, <1>2, <2>1, <2>2, Fetched
<1>3. CASE /\ page' = [page EXCEPT !.data = NoAddress, !.hasData = FALSE, !.loading = FALSE,
                                  !.error = FALSE, !.timer = "none"]
           /\ UNCHANGED requests
  <2>1. page' \in Pages /\ page'.data = NoAddress
    BY <1>1, <1>3 DEF Pages, Addresses
  <2> QED BY <1>1, <1>3, <2>1 DEF HookInv, ForeignDataIsFlagged
<1> QED BY <1>2, <1>3 DEF PageTimer

LEMMA VisibilitySound ==
    ASSUME HookInv, ChangeVisibility
    PROVE  HookInv'
<1>1. address \in Addresses /\ page \in Pages /\ UNCHANGED address
      /\ requests \subseteq {address} \cap Accounts /\ (page.data # NoAddress => page.hasData)
      /\ ForeignDataIsFlagged
  BY DEF HookInv, ChangeVisibility
<1>1a. PICK shown : shown = [page EXCEPT !.hidden = ~@]
  OBVIOUS
<1>2. /\ shown \in Pages /\ shown.data = page.data /\ shown.hasData = page.hasData
      /\ shown.stale = page.stale /\ shown.timer = page.timer
  BY <1>1, <1>1a DEF Pages
<1>3. CASE page' = [shown EXCEPT !.stale = TRUE] /\ UNCHANGED requests
  <2>1. page' \in Pages /\ page'.data = page.data /\ page'.hasData = page.hasData /\ page'.stale
    BY <1>2, <1>3 DEF Pages
  <2> QED BY <1>1, <1>3, <2>1 DEF HookInv, ForeignDataIsFlagged
<1>4. CASE FetchData(shown)
  BY <1>1, <1>2, <1>4, Fetched
<1>5. CASE page' = shown /\ UNCHANGED requests
  BY <1>1, <1>2, <1>5 DEF HookInv, ForeignDataIsFlagged
<1> QED BY <1>1a, <1>3, <1>4, <1>5 DEF ChangeVisibility

LEMMA AnswerSound ==
    ASSUME HookInv, NEW a \in Addresses, PageAnswered(a)
    PROVE  HookInv'
<1>1. address \in Addresses /\ page \in Pages /\ UNCHANGED address /\ ForeignDataIsFlagged
      /\ requests \subseteq {address} \cap Accounts /\ (page.data # NoAddress => page.hasData)
  BY DEF HookInv, PageAnswered
<1>2. a = address /\ a \in Accounts /\ requests' \subseteq {address} \cap Accounts
  BY <1>1 DEF PageAnswered
<1>3. CASE page' = [page EXCEPT !.data = a, !.hasData = TRUE, !.stale = FALSE, !.loading = FALSE]
  <2>1. page' \in Pages /\ page'.data = a /\ page'.hasData
    BY <1>1, <1>3 DEF Pages
  <2> QED BY <1>1, <1>2, <2>1 DEF HookInv, ForeignDataIsFlagged
<1>4. CASE page' = [page EXCEPT !.error = TRUE, !.stale = page.hasData, !.loading = FALSE]
  <2>1. page' \in Pages /\ page'.data = page.data /\ page'.hasData = page.hasData /\ page'.stale = page.hasData
    BY <1>1, <1>4 DEF Pages
  <2> QED BY <1>1, <1>2, <2>1 DEF HookInv, ForeignDataIsFlagged
<1>5. CASE UNCHANGED page
  BY <1>1, <1>2, <1>5 DEF HookInv, ForeignDataIsFlagged
<1> QED BY <1>3, <1>4, <1>5 DEF PageAnswered

LEMMA MoveSound ==
    ASSUME HookInv, NEW a \in Addresses, MoveTo(a)
    PROVE  HookInv'
<1>a. PICK q : q = Cut(page)
  OBVIOUS
<1>1. address' = a /\ requests' = {} /\ page' = [q EXCEPT !.timer = IF a = NoAddress THEN "clear" ELSE "fetch"]
  BY <1>a DEF MoveTo, Aborted
<1>2. /\ page \in Pages /\ (page.data # NoAddress => page.hasData)
      /\ q \in Pages /\ q.data = page.data /\ q.hasData = page.hasData
  BY <1>a, CutPage DEF HookInv
<1>3. PICK t \in {"clear", "fetch"} : page' = [q EXCEPT !.timer = t]
  BY <1>1
<1>4. page' \in Pages /\ page'.data = page.data /\ page'.hasData = page.hasData /\ page'.timer = t
  BY <1>2, <1>3 DEF Pages
<1> QED BY <1>1, <1>2, <1>4 DEF HookInv, ForeignDataIsFlagged

\* Another wallet's figures are marked stale, or a timer is about to fetch or
\* clear them, however answers, time limits and wallet changes follow each other
\* (useDashboardData.ts).
THEOREM ForeignDataStaysFlagged == HookSpec => []ForeignDataIsFlagged
<1>1. HookInit => HookInv
  BY DEF HookInit, HookInv, Pages, Addresses, ForeignDataIsFlagged
<1>2. HookInv /\ [HookStep]_hooks => HookInv'
  <2> SUFFICES ASSUME HookInv, [HookStep]_hooks PROVE HookInv'
    OBVIOUS
  <2>1. CASE UNCHANGED <<address, page, requests>>
    BY <2>1 DEF HookInv, ForeignDataIsFlagged
  <2>2. CASE Refetch
    <3>1. page \in Pages
      BY DEF HookInv
    <3> QED BY <2>2, <3>1, Fetched DEF Refetch
  <2>3. CASE BodyCut
    <3>1. page \in Pages /\ (page.data # NoAddress => page.hasData)
      BY DEF HookInv
    <3>2. /\ UNCHANGED <<address, requests>>
          /\ page' = [page EXCEPT !.cut = FALSE, !.error = TRUE, !.stale = page.hasData, !.loading = FALSE]
      BY <2>3 DEF BodyCut
    <3>3. page' \in Pages /\ page'.data = page.data /\ page'.hasData = page.hasData /\ page'.stale = page.hasData
      BY <3>1, <3>2 DEF Pages
    <3> QED BY <3>1, <3>2, <3>3 DEF HookInv, ForeignDataIsFlagged
  <2> QED BY <2>1, <2>2, <2>3, PageTimerSound, VisibilitySound, AnswerSound, MoveSound DEF HookStep, hooks
<1>3. HookInv => ForeignDataIsFlagged
  BY DEF HookInv
<1> QED BY <1>1, <1>2, <1>3, PTL DEF HookSpec

-----------------------------------------------------------------------------
(* The mobile application's store: types. *)

Methods == {"bio", "pin"}
Disks == [session : Sessions, key : Sessions, lock : SUBSET Methods]
Memories == [session : Sessions, restored : BOOLEAN, signingIn : BOOLEAN, lending : BOOLEAN,
             listed : BOOLEAN, shown : BOOLEAN, balance : Int]
Gates == [loading : BOOLEAN, methods : SUBSET Methods, locked : BOOLEAN, pinEntry : BOOLEAN, prompted : BOOLEAN]
Connects == [at : {"storing", "nonce", "verify"}, who : Wallets]
Requests == [kind : Tracked \cup Untracked, who : Wallets, live : BOOLEAN, tries : Nat, chain : BOOLEAN]
Calls == [at : {"signing", "polling", "done", "hung"}, tx : {"none", "sent", "SUCCESS", "FAILED"}, delta : {-1, 1}]
Ghosts == [late : BOOLEAN, proved : BOOLEAN, overlapped : BOOLEAN, abandoned : BOOLEAN,
           settled : Int, over : SUBSET Lendings, suspect : BOOLEAN]

MobileTypeOK ==
    /\ disk \in Disks /\ mem \in Memories /\ gate \in Gates
    /\ hydrating \in SUBSET (Sessions \cup {"reading"})
    /\ connect \in SUBSET Connects
    /\ fetches \in SUBSET Requests
    /\ logouts \in [Wallets -> Nat]
    /\ lending \in [Lendings -> {NoLending} \cup Calls]
    /\ refused \in SUBSET Wallets /\ ghost \in Ghosts

-----------------------------------------------------------------------------
LEMMA SignedOut ==
    ASSUME NEW m \in Memories, NEW d \in Disks
    PROVE  /\ Cleared(m) \in Memories /\ Cleared(m).session = NoWallet /\ Cleared(m).restored
           /\ ~Cleared(m).lending /\ Cleared(m).balance = m.balance
           /\ Deleted(d) \in Disks /\ Deleted(d).session = NoWallet /\ Deleted(d).key = NoWallet
           /\ Deleted(d).lock = d.lock
BY DEF Cleared, Deleted, Memories, Disks, Sessions

LEMMA OverlapOf ==
    ASSUME NEW g \in Ghosts
    PROVE  /\ Overlap(g) \in Ghosts /\ Overlap(g).late = g.late /\ Overlap(g).proved = g.proved
           /\ Overlap(g).abandoned = g.abandoned /\ Overlap(g).suspect = g.suspect
           /\ Overlap(g).settled = g.settled /\ Overlap(g).over = g.over
           /\ Overlap(g).overlapped = (g.overlapped \/ hydrating # {} \/ connect # {})
BY DEF Overlap, Ghosts

LEMMA RequestsKept ==
    ASSUME NEW fs \in SUBSET Requests
    PROVE  CancelPendingRequests(fs) \in SUBSET Requests
<1>1. \A f \in Requests : [f EXCEPT !.live = FALSE] \in Requests
  BY DEF Requests
<1> QED BY <1>1 DEF CancelPendingRequests

LEMMA RequestType ==
    ASSUME NEW k \in Tracked \cup Untracked, NEW w \in Wallets, NEW c \in BOOLEAN
    PROVE  Request(k, w, c) \in Requests
BY DEF Request, Requests

LEMMA SignOutTyped ==
    ASSUME MobileTypeOK, NEW fs \in SUBSET Requests, NEW g \in Ghosts, Logout(fs, g)
    PROVE  /\ fetches' \in SUBSET Requests /\ mem' \in Memories /\ disk' \in Disks
           /\ ghost' \in Ghosts /\ logouts' \in [Wallets -> Nat]
<1>1. fetches' \in SUBSET Requests
  BY RequestsKept DEF Logout
<1>2. CASE mem.session # NoWallet
  <2>1. logouts' \in [Wallets -> Nat]
    BY <1>2 DEF Logout, MobileTypeOK, Memories, Sessions
  <2> QED BY <1>1, <1>2, <2>1 DEF Logout, MobileTypeOK
<1>3. CASE mem.session = NoWallet
  BY <1>1, <1>3, SignedOut, OverlapOf DEF Logout, MobileTypeOK
<1> QED BY <1>2, <1>3

LEMMA HandleLogoutTyped ==
    ASSUME MobileTypeOK, HandleLogout
    PROVE  MobileTypeOK'
<1>1. PICK g : g = [ghost EXCEPT !.abandoned = @ \/ InFlight # {}]
  OBVIOUS
<1>2. g \in Ghosts
  BY <1>1 DEF MobileTypeOK, Ghosts
<1>3. Logout(fetches, g)
  BY <1>1 DEF HandleLogout
<1> QED BY <1>2, <1>3, SignOutTyped DEF HandleLogout, MobileTypeOK

LEMMA LogoutAnsweredTyped ==
    ASSUME MobileTypeOK, NEW w \in Wallets, LogoutAnswered(w)
    PROVE  MobileTypeOK'
<1>1. logouts' \in [Wallets -> Nat]
  BY DEF LogoutAnswered, MobileTypeOK
<1>2. refused' \in SUBSET Wallets
  BY DEF LogoutAnswered, MobileTypeOK
<1>3. fetches' \in SUBSET Requests
  BY RequestsKept DEF LogoutAnswered, MobileTypeOK
<1>4. mem' \in Memories /\ disk' \in Disks /\ ghost' \in Ghosts
  BY SignedOut, OverlapOf DEF LogoutAnswered, MobileTypeOK
<1> QED BY <1>1, <1>2, <1>3, <1>4 DEF LogoutAnswered, MobileTypeOK

LEMMA SessionExpiresTyped ==
    ASSUME MobileTypeOK, NEW w \in Wallets, SessionExpires(w)
    PROVE  MobileTypeOK'
BY DEF SessionExpires, MobileTypeOK

LEMMA StartConnectTyped ==
    ASSUME MobileTypeOK, NEW w \in Wallets, StartConnect(w)
    PROVE  MobileTypeOK'
<1>1. ghost' \in Ghosts
  BY DEF StartConnect, MobileTypeOK, Ghosts
<1>2. connect' \in SUBSET Connects
  BY DEF StartConnect, MobileTypeOK, Connects
<1> QED BY <1>1, <1>2 DEF StartConnect, MobileTypeOK

LEMMA OnwardsTyped ==
    ASSUME MobileTypeOK, NEW c \in connect, NEW at \in {"storing", "nonce", "verify"}, Onwards(c, at)
    PROVE  connect' \in SUBSET Connects
<1>1. [c EXCEPT !.at = at] \in Connects
  BY DEF MobileTypeOK, Connects
<1> QED BY <1>1 DEF Onwards, MobileTypeOK

LEMMA StoreKeyTyped ==
    ASSUME MobileTypeOK, NEW c \in connect, StoreKey(c)
    PROVE  MobileTypeOK'
<1>1. disk' \in Disks
  BY DEF StoreKey, MobileTypeOK, Disks, Sessions, Connects
<1>2. connect' \in SUBSET Connects
  BY OnwardsTyped DEF StoreKey
<1> QED BY <1>1, <1>2 DEF StoreKey, MobileTypeOK

LEMMA ReceiveNonceTyped ==
    ASSUME MobileTypeOK, NEW c \in connect, ReceiveNonce(c)
    PROVE  MobileTypeOK'
<1>1. mem' \in Memories
  BY DEF ReceiveNonce, MobileTypeOK, Memories
<1>2. connect' \in SUBSET Connects
  BY OnwardsTyped DEF ReceiveNonce
<1> QED BY <1>1, <1>2 DEF ReceiveNonce, MobileTypeOK

LEMMA VerifyTyped ==
    ASSUME MobileTypeOK, NEW c \in connect, Verify(c)
    PROVE  MobileTypeOK'
<1>1. c.who \in Wallets
  BY DEF MobileTypeOK, Connects
<1>2. mem' \in Memories /\ disk' \in Disks
  BY <1>1 DEF Verify, MobileTypeOK, Memories, Disks, Sessions
<1> QED BY <1>2 DEF Verify, MobileTypeOK

LEMMA ConnectFailsTyped ==
    ASSUME MobileTypeOK, NEW c \in connect, ConnectFails(c)
    PROVE  MobileTypeOK'
<1>1. mem' \in Memories
  BY DEF ConnectFails, MobileTypeOK, Memories
<1> QED BY <1>1 DEF ConnectFails, MobileTypeOK

LEMMA LaunchHydrationTyped ==
    ASSUME MobileTypeOK, LaunchHydration
    PROVE  MobileTypeOK'
<1>1. mem' \in Memories
  BY DEF LaunchHydration, MobileTypeOK, Memories
<1> QED BY <1>1 DEF LaunchHydration, MobileTypeOK

LEMMA ReadGateStateTyped ==
    ASSUME MobileTypeOK, ReadGateState
    PROVE  MobileTypeOK'
<1>1. gate' \in Gates /\ ghost' \in Ghosts
  BY DEF ReadGateState, MobileTypeOK, Gates, Disks, Ghosts
<1> QED BY <1>1 DEF ReadGateState, MobileTypeOK

LEMMA ReadSecretsTyped ==
    ASSUME MobileTypeOK, ReadSecrets
    PROVE  MobileTypeOK'
<1>1. disk.session \in Sessions
  BY DEF MobileTypeOK, Disks
<1> QED BY <1>1 DEF ReadSecrets, MobileTypeOK

LEMMA SetSecretsTyped ==
    ASSUME MobileTypeOK, NEW s \in Sessions, SetSecrets(s)
    PROVE  MobileTypeOK'
<1>1. mem' \in Memories
  BY DEF SetSecrets, MobileTypeOK, Memories
<1> QED BY <1>1 DEF SetSecrets, MobileTypeOK

LEMMA EnrollLockTyped ==
    ASSUME MobileTypeOK, NEW m \in Methods, EnrollLock(m)
    PROVE  MobileTypeOK'
<1>1. gate' \in Gates /\ disk' \in Disks
  BY DEF EnrollLock, MobileTypeOK, Gates, Disks
<1> QED BY <1>1 DEF EnrollLock, MobileTypeOK

LEMMA DisableLockTyped ==
    ASSUME MobileTypeOK, DisableLock
    PROVE  MobileTypeOK'
<1>1. gate' \in Gates /\ disk' \in Disks
  BY DEF DisableLock, MobileTypeOK, Gates, Disks
<1> QED BY <1>1 DEF DisableLock, MobileTypeOK

LEMMA GoAwayTyped ==
    ASSUME MobileTypeOK, GoAway
    PROVE  MobileTypeOK'
BY DEF GoAway, MobileTypeOK

LEMMA ComeBackTyped ==
    ASSUME MobileTypeOK, ComeBack
    PROVE  MobileTypeOK'
<1>1. gate' \in Gates /\ ghost' \in Ghosts
  BY DEF ComeBack, MobileTypeOK, Gates, Ghosts
<1>2. mem' \in Memories
  BY DEF ComeBack, MobileTypeOK, Memories, Sessions, WipeHotSecretsFromStore
<1> QED BY <1>1, <1>2 DEF ComeBack, MobileTypeOK

LEMMA TurnToPinTyped ==
    ASSUME MobileTypeOK, TurnToPin
    PROVE  MobileTypeOK'
<1>1. gate' \in Gates
  BY DEF TurnToPin, MobileTypeOK, Gates
<1> QED BY <1>1 DEF TurnToPin, MobileTypeOK

LEMMA LiftGateTyped ==
    ASSUME MobileTypeOK, LiftGate
    PROVE  MobileTypeOK'
<1>1. gate' \in Gates /\ ghost' \in Ghosts
  BY DEF LiftGate, MobileTypeOK, Gates, Ghosts
<1> QED BY <1>1 DEF LiftGate, MobileTypeOK

LEMMA AutoPromptTyped ==
    ASSUME MobileTypeOK, AutoPromptHalfPassed
    PROVE  MobileTypeOK'
<1>1. gate' \in Gates /\ ghost' \in Ghosts
  BY DEF AutoPromptHalfPassed, MobileTypeOK, Gates, Ghosts
<1> QED BY <1>1 DEF AutoPromptHalfPassed, MobileTypeOK

LEMMA ForgotPinTyped ==
    ASSUME MobileTypeOK, ForgotPin
    PROVE  MobileTypeOK'
<1>1. gate' \in Gates
  BY DEF ForgotPin, Gates, FreshGate
<1>2. disk' \in Disks
  BY DEF ForgotPin, Disks, Deleted, MobileTypeOK, Sessions
<1>3. ghost' \in Ghosts
  BY OverlapOf DEF ForgotPin, MobileTypeOK, Ghosts
<1> QED BY <1>1, <1>2, <1>3 DEF ForgotPin, MobileTypeOK

LEMMA RelaunchTyped ==
    ASSUME MobileTypeOK, Relaunch
    PROVE  MobileTypeOK'
<1>1. gate' \in Gates /\ mem' \in Memories
  BY DEF Relaunch, Gates, FreshGate, FreshMemory, Memories, Sessions
<1>2. lending' \in [Lendings -> {NoLending} \cup Calls]
  <2>1. \A l \in Lendings : lending[l] \in {NoLending} \cup Calls
    BY DEF MobileTypeOK
  <2>2. \A c \in {NoLending} \cup Calls : c.at # "idle" => [c EXCEPT !.at = "done"] \in Calls
    BY DEF NoLending, Calls
  <2> QED BY <2>1, <2>2 DEF Relaunch
<1>3. ghost' \in Ghosts
  <2>1. {} \in SUBSET Lendings
    OBVIOUS
  <2>2. PICK o \in SUBSET Lendings : o = {}
    BY <2>1
  <2>3. PICK n \in Int : n = 0
    OBVIOUS
  <2>4. ghost' = [ghost EXCEPT !.settled = n, !.over = o, !.suspect = FALSE]
    BY <2>2, <2>3 DEF Relaunch
  <2> QED BY <2>4 DEF MobileTypeOK, Ghosts
<1> QED BY <1>1, <1>2, <1>3 DEF Relaunch, MobileTypeOK

LEMMA StartFetchesTyped ==
    ASSUME MobileTypeOK, NEW kinds \in SUBSET (Tracked \cup Untracked), StartFetches(kinds)
    PROVE  MobileTypeOK'
<1>1. mem.session \in Wallets
  BY DEF StartFetches, MobileTypeOK, Memories, Sessions
<1>2. \A k \in kinds : Request(k, mem.session, FALSE) \in Requests
  BY <1>1, RequestType
<1> QED BY <1>2 DEF StartFetches, MobileTypeOK

LEMMA FetchSucceedsTyped ==
    ASSUME MobileTypeOK, NEW f \in fetches, FetchSucceeds(f)
    PROVE  MobileTypeOK'
<1>1. f \in Requests /\ f.who \in Wallets
  BY DEF MobileTypeOK, Requests
<1>2. fetches' \in SUBSET Requests
  <2>1. \A k \in Following(f) : Request(k, mem.session, TRUE) \in Requests
    BY RequestType DEF Following, MobileTypeOK, Memories, Sessions, Untracked
  <2> QED BY <2>1 DEF FetchSucceeds, MobileTypeOK
<1>3. mem' \in Memories /\ ghost' \in Ghosts
  <2>1. CASE \E held \in Holdings :
                /\ mem' = [mem EXCEPT !.balance = held, !.shown = TRUE]
                /\ ghost' = [ghost EXCEPT !.settled = held, !.over = InFlight, !.suspect = FALSE]
    <3>1. PICK held \in Int :
                /\ mem' = [mem EXCEPT !.balance = held, !.shown = TRUE]
                /\ ghost' = [ghost EXCEPT !.settled = held, !.over = InFlight, !.suspect = FALSE]
      BY <2>1, MobileAssumption
    <3>2. InFlight \in SUBSET Lendings
      BY DEF InFlight
    <3>3. mem' \in Memories
      BY <3>1 DEF MobileTypeOK, Memories
    <3>4. ghost' \in Ghosts
      BY <3>1, <3>2 DEF MobileTypeOK, Ghosts
    <3> QED BY <3>3, <3>4
  <2>2. CASE mem' = [mem EXCEPT !.listed = TRUE] /\ UNCHANGED ghost
    BY <2>2 DEF MobileTypeOK, Memories
  <2> QED BY <2>1, <2>2 DEF FetchSucceeds
<1> QED BY <1>2, <1>3 DEF FetchSucceeds, MobileTypeOK

LEMMA FetchRetriedTyped ==
    ASSUME MobileTypeOK, NEW f \in fetches, FetchRetried(f)
    PROVE  MobileTypeOK'
<1>1. [f EXCEPT !.tries = @ + 1] \in Requests
  BY DEF MobileTypeOK, Requests
<1> QED BY <1>1 DEF FetchRetried, MobileTypeOK

LEMMA FetchGivenUpTyped ==
    ASSUME MobileTypeOK, NEW f \in fetches, FetchGivenUp(f)
    PROVE  MobileTypeOK'
BY DEF FetchGivenUp, MobileTypeOK

LEMMA FetchUnauthorizedTyped ==
    ASSUME MobileTypeOK, NEW f \in fetches, FetchUnauthorized(f)
    PROVE  MobileTypeOK'
<1>1. fetches \ {f} \in SUBSET Requests /\ ghost \in Ghosts
  BY DEF MobileTypeOK
<1>2. CASE Logout(fetches \ {f}, ghost)
  BY <1>1, <1>2, SignOutTyped DEF FetchUnauthorized, MobileTypeOK
<1> QED BY <1>1, <1>2 DEF FetchUnauthorized, MobileTypeOK

LEMMA StartLendingTyped ==
    ASSUME MobileTypeOK, NEW l \in Lendings, NEW delta \in {-1, 1}, StartLending(l, delta)
    PROVE  MobileTypeOK'
<1>1. mem' \in Memories /\ ghost' \in Ghosts
  <2>1. PICK n \in Int : n = mem.balance + delta
    BY DEF MobileTypeOK, Memories
  <2>2. mem' = [mem EXCEPT !.lending = TRUE, !.balance = n]
    BY <2>1 DEF StartLending
  <2>3. mem' \in Memories
    BY <2>2 DEF MobileTypeOK, Memories
  <2> QED BY <2>3 DEF StartLending, MobileTypeOK, Ghosts
<1>2. [at |-> "signing", tx |-> "none", delta |-> delta] \in Calls
  BY DEF Calls
<1>3. lending' \in [Lendings -> {NoLending} \cup Calls]
  BY <1>2 DEF StartLending, MobileTypeOK
<1> QED BY <1>1, <1>3 DEF StartLending, MobileTypeOK

LEMMA CallIn == ASSUME MobileTypeOK, NEW l \in Lendings, lending[l].at # "idle" \/ lending[l].tx # "none" PROVE lending[l] \in Calls
BY DEF MobileTypeOK, NoLending

LEMMA SendLendingTyped ==
    ASSUME MobileTypeOK, NEW l \in Lendings, SendLending(l)
    PROVE  MobileTypeOK'
<1>1. lending[l] \in Calls
  BY CallIn DEF SendLending
<1>2. PICK c : c = [lending[l] EXCEPT !.at = "polling", !.tx = "sent"]
  OBVIOUS
<1>3. lending' = [lending EXCEPT ![l] = c]
  BY <1>2 DEF SendLending, MobileTypeOK
<1>4. c \in Calls
  BY <1>1, <1>2 DEF Calls
<1> QED BY <1>3, <1>4 DEF SendLending, MobileTypeOK

LEMMA LendingLandsTyped ==
    ASSUME MobileTypeOK, NEW l \in Lendings, NEW o \in {"SUCCESS", "FAILED"}, LendingLands(l, o)
    PROVE  MobileTypeOK'
<1>1. lending[l] \in Calls
  BY CallIn DEF LendingLands
<1>2. PICK c : c = [lending[l] EXCEPT !.tx = o]
  OBVIOUS
<1>3. lending' = [lending EXCEPT ![l] = c] /\ c \in Calls
  BY <1>1, <1>2 DEF LendingLands, Calls
<1> QED BY <1>3 DEF LendingLands, MobileTypeOK

LEMMA HangsTyped ==
    ASSUME MobileTypeOK, NEW l \in Lendings, LendingHangs(l)
    PROVE  MobileTypeOK'
<1>1. lending[l] \in Calls
  BY CallIn DEF LendingHangs
<1>2. lending' \in [Lendings -> {NoLending} \cup Calls]
  BY <1>1 DEF LendingHangs, MobileTypeOK, Calls
<1> QED BY <1>2 DEF LendingHangs, MobileTypeOK

LEMMA ConfirmLendingTyped ==
    ASSUME MobileTypeOK, NEW l \in Lendings, ConfirmLending(l)
    PROVE  MobileTypeOK'
<1>1. lending[l] \in Calls
  BY CallIn DEF ConfirmLending
<1>2. lending' \in [Lendings -> {NoLending} \cup Calls]
  BY <1>1 DEF ConfirmLending, MobileTypeOK, Calls
<1>3. mem' \in Memories /\ ghost' \in Ghosts
  <2>1. lending[l].delta \in Int /\ ghost.settled \in Int
    BY <1>1 DEF Calls, MobileTypeOK, Ghosts
  <2>2. PICK n \in Int : n = IF l \in ghost.over THEN ghost.settled ELSE ghost.settled + lending[l].delta
    BY <2>1
  <2>3. ghost' = [ghost EXCEPT !.settled = n, !.over = @ \ {l}]
    BY <2>2 DEF ConfirmLending
  <2>4. ghost' \in Ghosts
    BY <2>3 DEF MobileTypeOK, Ghosts
  <2>5. mem' \in Memories
    BY DEF ConfirmLending, MobileTypeOK, Memories
  <2> QED BY <2>4, <2>5
<1>4. fetches' \in SUBSET Requests
  <2>1. \A s \in {mem.session} \ {NoWallet} : Request("portfolio", s, TRUE) \in Requests
    BY RequestType DEF MobileTypeOK, Memories, Sessions, Tracked
  <2> QED BY <2>1 DEF ConfirmLending, MobileTypeOK
<1> QED BY <1>2, <1>3, <1>4 DEF ConfirmLending, MobileTypeOK

LEMMA RollBackLendingTyped ==
    ASSUME MobileTypeOK, NEW l \in Lendings, RollBackLending(l)
    PROVE  MobileTypeOK'
<1>1. lending[l] \in Calls /\ lending[l].delta \in Int
  BY CallIn DEF RollBackLending, Calls
<1>2. lending' \in [Lendings -> {NoLending} \cup Calls]
  BY <1>1 DEF RollBackLending, MobileTypeOK, Calls
<1>3. mem' \in Memories
  <2>1. PICK n \in Int : n = mem.balance - lending[l].delta
    BY <1>1 DEF MobileTypeOK, Memories
  <2>2. mem' = [mem EXCEPT !.lending = FALSE, !.balance = n]
    BY <2>1 DEF RollBackLending, RolledBack
  <2> QED BY <2>2 DEF MobileTypeOK, Memories
<1>4. ghost' \in Ghosts
  BY DEF RollBackLending, MobileTypeOK, Ghosts
<1> QED BY <1>2, <1>3, <1>4 DEF RollBackLending, MobileTypeOK

LEMMA MobileTypeHolds == MobileSpec => []MobileTypeOK
<1>1. MobileInit => MobileTypeOK
  <2> SUFFICES ASSUME MobileInit PROVE MobileTypeOK
    OBVIOUS
  <2>1. disk \in Disks /\ mem \in Memories /\ gate \in Gates /\ ghost \in Ghosts
    BY DEF MobileInit, Disks, FreshMemory, Memories, FreshGate, Gates, Ghosts, Sessions
  <2>2. connect \in SUBSET Connects /\ hydrating \in SUBSET (Sessions \cup {"reading"}) /\ fetches \in SUBSET Requests
    BY DEF MobileInit
  <2>3. logouts \in [Wallets -> Nat] /\ lending \in [Lendings -> {NoLending} \cup Calls]
    BY DEF MobileInit
  <2> QED BY <2>1, <2>2, <2>3 DEF MobileTypeOK, MobileInit
<1>2. MobileTypeOK /\ [MobileNext]_mobileVars => MobileTypeOK'
  <2> SUFFICES ASSUME MobileTypeOK, [MobileNext]_mobileVars PROVE MobileTypeOK'
    OBVIOUS
  <2>1. CASE UNCHANGED mobileVars
    BY <2>1 DEF mobileVars, MobileTypeOK, InFlight
  <2>2. CASE HandleLogout
    BY <2>2, HandleLogoutTyped
  <2>3. CASE \E w \in Wallets : LogoutAnswered(w) \/ SessionExpires(w)
    BY <2>3, LogoutAnsweredTyped, SessionExpiresTyped
  <2>4. CASE \E w \in Wallets : StartConnect(w)
    BY <2>4, StartConnectTyped
  <2>5. CASE \E c \in connect : ConnectStep(c)
    BY <2>5, StoreKeyTyped, ReceiveNonceTyped, VerifyTyped, ConnectFailsTyped DEF ConnectStep
  <2>6. CASE LaunchHydration \/ ReadGateState \/ ReadSecrets \/ \E s \in Sessions : SetSecrets(s)
    BY <2>6, LaunchHydrationTyped, ReadGateStateTyped, ReadSecretsTyped, SetSecretsTyped
  <2>7. CASE (\E method \in {"bio", "pin"} : EnrollLock(method)) \/ DisableLock \/ GoAway \/ ComeBack
    BY <2>7, EnrollLockTyped, DisableLockTyped, GoAwayTyped, ComeBackTyped DEF Methods
  <2>8. CASE TurnToPin \/ UnlockWithBiometrics \/ UnlockWithPin \/ AutoPromptHalfPassed \/ ForgotPin \/ Relaunch
    BY <2>8, TurnToPinTyped, LiftGateTyped, AutoPromptTyped, ForgotPinTyped, RelaunchTyped
       DEF UnlockWithBiometrics, UnlockWithPin
  <2>9. CASE HydrateDashboard \/ RefreshDashboard \/ MountLendingScreen
    <3>1. MountFetches \in SUBSET (Tracked \cup Untracked)
      BY DEF MountFetches
    <3> QED BY <2>9, <3>1, StartFetchesTyped DEF HydrateDashboard, RefreshDashboard, MountLendingScreen
  <2>10. CASE \E f \in fetches : FetchSucceeds(f) \/ FetchRetried(f) \/ FetchGivenUp(f) \/ FetchUnauthorized(f)
    BY <2>10, FetchSucceedsTyped, FetchRetriedTyped, FetchGivenUpTyped, FetchUnauthorizedTyped
  <2>11. CASE \E l \in Lendings : Deposit(l) \/ Borrow(l) \/ Repay(l)
    BY <2>11, StartLendingTyped DEF Deposit, Borrow, Repay
  <2>12. CASE \E l \in Lendings : \/ LendingStep(l) \/ LendingHangs(l)
                                  \/ \E o \in {"SUCCESS", "FAILED"} : LendingLands(l, o)
    BY <2>12, SendLendingTyped, ConfirmLendingTyped, RollBackLendingTyped, HangsTyped, LendingLandsTyped
       DEF LendingStep
  <2> QED BY <2>1, <2>2, <2>3, <2>4, <2>5, <2>6, <2>7, <2>8, <2>9, <2>10, <2>11, <2>12 DEF MobileNext
<1> QED BY <1>1, <1>2, PTL DEF MobileSpec

-----------------------------------------------------------------------------
(* The gate.                                                                   *)

Quiet == mem.session = NoWallet /\ hydrating = {} /\ connect = {}

\* The gate knows the lock it stands for; and it closes over a store without a
\* session, which stays so because nothing that would fill it is under way.
GateInv ==
    /\ ~gate.loading => gate.methods = disk.lock
    /\ gate.loading => ~gate.locked /\ gate.methods = {}
    /\ gate.locked => disk.lock # {}
    /\ gate.loading /\ disk.lock # {} => Quiet
    /\ gate.locked /\ ~ghost.late /\ ~ghost.proved => Quiet

\* A step that leaves the gate alone.
LEMMA GateKept ==
    ASSUME GateInv, UNCHANGED gate, disk'.lock = disk.lock, ghost'.late = ghost.late,
           ghost'.proved = ghost.proved, gate.locked \/ (gate.loading /\ disk.lock # {}) => (Quiet => Quiet')
    PROVE  GateInv'
BY DEF GateInv

LEMMA SignOutShuts ==
    ASSUME MobileTypeOK, NEW fs, NEW g \in Ghosts, g.late = ghost.late, g.proved = ghost.proved, Logout(fs, g)
    PROVE  /\ disk'.lock = disk.lock /\ ghost'.late = ghost.late /\ ghost'.proved = ghost.proved
           /\ mem'.session \in {mem.session, NoWallet}
BY SignedOut, OverlapOf DEF Logout, MobileTypeOK

LEMMA GateStep ==
    ASSUME MobileTypeOK, GateInv, MobileNext
    PROVE  GateInv'
<1>1. CASE HandleLogout
  <2>1. PICK g : g = [ghost EXCEPT !.abandoned = @ \/ InFlight # {}]
    OBVIOUS
  <2>2. g \in Ghosts /\ g.late = ghost.late /\ g.proved = ghost.proved
    BY <2>1 DEF MobileTypeOK, Ghosts
  <2>3. Logout(fetches, g) /\ UNCHANGED <<gate, hydrating, connect>>
    BY <1>1, <2>1 DEF HandleLogout
  <2> QED BY <2>2, <2>3, SignOutShuts, GateKept DEF Quiet
<1>2. CASE \E w \in Wallets : LogoutAnswered(w)
  <2>1. /\ disk'.lock = disk.lock /\ ghost'.late = ghost.late /\ ghost'.proved = ghost.proved
        /\ mem'.session = NoWallet /\ UNCHANGED <<gate, hydrating, connect>>
    BY <1>2, SignedOut, OverlapOf DEF LogoutAnswered, MobileTypeOK
  <2> QED BY <2>1, GateKept DEF Quiet
<1>3. CASE \E w \in Wallets : StartConnect(w)
  <2>1. /\ disk'.lock = disk.lock /\ ghost'.late = ghost.late /\ ghost'.proved = ghost.proved
        /\ ~gate.loading /\ ~gate.locked /\ UNCHANGED gate
    BY <1>3 DEF StartConnect, MobileTypeOK, Disks, Ghosts, Foreground
  <2> QED BY <2>1, GateKept
<1>4. CASE \E c \in connect : ConnectStep(c)
  <2>1. /\ disk'.lock = disk.lock /\ ghost'.late = ghost.late /\ ghost'.proved = ghost.proved
        /\ UNCHANGED gate /\ connect # {}
    BY <1>4 DEF ConnectStep, StoreKey, ReceiveNonce, Verify, ConnectFails, MobileTypeOK, Disks
  <2> QED BY <2>1, GateKept DEF Quiet
<1>5. CASE LaunchHydration
  <2>1. UNCHANGED <<disk, gate, connect, ghost>> /\ mem'.session = mem.session
    BY <1>5 DEF LaunchHydration, MobileTypeOK, Memories
  <2>2. disk.lock # {} => hydrating' = hydrating
    BY <1>5 DEF LaunchHydration, LaunchHydrates
  <2> QED BY <2>1, <2>2 DEF GateInv, Quiet
<1>6. CASE ReadGateState
  <2>1. /\ UNCHANGED <<disk, mem, hydrating, connect>> /\ gate.loading
        /\ ~gate'.loading /\ gate'.methods = disk.lock /\ gate'.locked = (disk.lock # {})
    BY <1>6 DEF ReadGateState, MobileTypeOK, Gates
  <2> QED BY <2>1 DEF GateInv, Quiet
<1>7. CASE ReadSecrets \/ \E s \in Sessions : SetSecrets(s)
  <2>1. /\ UNCHANGED <<disk, gate>> /\ ghost'.late = ghost.late /\ ghost'.proved = ghost.proved
        /\ hydrating # {}
    BY <1>7 DEF ReadSecrets, SetSecrets, MobileTypeOK, Ghosts
  <2> QED BY <2>1, GateKept DEF Quiet
<1>8. CASE (\E method \in {"bio", "pin"} : EnrollLock(method)) \/ DisableLock
  <2>1. ~gate.loading /\ ~gate.locked /\ gate'.methods = disk'.lock /\ gate'.locked = gate.locked
        /\ gate'.loading = gate.loading
    BY <1>8 DEF EnrollLock, DisableLock, MobileTypeOK, Gates, Disks, Foreground, GateInv
  <2> QED BY <2>1 DEF GateInv
<1>9. CASE ComeBack
  <2>1. CASE UNCHANGED <<mem, gate, ghost>>
    BY <1>9, <2>1, GateKept DEF ComeBack, Quiet
  <2>2. CASE gate.methods # {} /\ ~gate.locked /\ UNCHANGED disk /\ gate' = [gate EXCEPT !.locked = TRUE]
    <3>1. gate'.locked # gate.locked
      BY <2>2 DEF MobileTypeOK, Gates
    <3>2. /\ mem' = [mem EXCEPT !.session = NoWallet]
          /\ ghost' = [ghost EXCEPT !.late = hydrating # {} \/ connect # {}, !.proved = FALSE]
          /\ UNCHANGED <<hydrating, connect>>
      BY <1>9, <3>1 DEF ComeBack, WipeHotSecretsFromStore
    <3>3. mem'.session = NoWallet /\ ghost'.late = (hydrating # {} \/ connect # {})
      BY <3>2 DEF MobileTypeOK, Memories, Ghosts
    <3>4. gate'.locked /\ gate'.methods = gate.methods /\ gate'.loading = gate.loading
      BY <2>2 DEF MobileTypeOK, Gates
    <3>5. ~gate.loading
      BY <1>9, <2>2 DEF GateInv, MobileTypeOK
    <3> QED BY <2>2, <3>3, <3>4, <3>5, <3>2 DEF GateInv, Quiet
  <2> QED BY <1>9, <2>1, <2>2 DEF ComeBack
<1>10. CASE TurnToPin
  <2>1. UNCHANGED <<disk, mem, hydrating, connect, ghost>> /\ gate'.loading = gate.loading
        /\ gate'.methods = gate.methods /\ gate'.locked = gate.locked
    BY <1>10 DEF TurnToPin, MobileTypeOK, Gates
  <2> QED BY <2>1 DEF GateInv, Quiet
<1>11. CASE UnlockWithBiometrics \/ UnlockWithPin
  <2>1. UNCHANGED disk /\ gate'.loading = gate.loading /\ gate.locked
        /\ gate'.methods = gate.methods /\ ~gate'.locked
    BY <1>11 DEF UnlockWithBiometrics, UnlockWithPin, GateOffers, Gated, LiftGate, MobileTypeOK, Gates
  <2> QED BY <2>1 DEF GateInv
<1>12. CASE AutoPromptHalfPassed
  <2>1. UNCHANGED disk /\ gate'.loading = gate.loading /\ gate'.methods = gate.methods
        /\ gate'.locked = gate.locked /\ gate.locked /\ ghost'.proved
    BY <1>12 DEF AutoPromptHalfPassed, Gated, MobileTypeOK, Gates, Ghosts
  <2> QED BY <2>1 DEF GateInv
<1>13. CASE ForgotPin
  <2>1. disk'.lock = {} /\ gate'.methods = {} /\ ~gate'.loading /\ ~gate'.locked
    BY <1>13 DEF ForgotPin, FreshGate, Deleted, MobileTypeOK, Disks
  <2> QED BY <2>1 DEF GateInv
<1>14. CASE Relaunch
  <2>1. gate'.loading /\ ~gate'.locked /\ gate'.methods = {} /\ Quiet'
    BY <1>14 DEF Relaunch, FreshGate, FreshMemory, Quiet
  <2> QED BY <2>1 DEF GateInv
<1>15. CASE \E f \in fetches : FetchUnauthorized(f)
  <2>1. ghost \in Ghosts
    BY DEF MobileTypeOK
  <2>2. /\ disk'.lock = disk.lock /\ ghost'.late = ghost.late /\ ghost'.proved = ghost.proved
        /\ mem'.session \in {mem.session, NoWallet} /\ UNCHANGED <<gate, hydrating, connect>>
    BY <1>15, <2>1, SignOutShuts DEF FetchUnauthorized
  <2> QED BY <2>2, GateKept DEF Quiet
<1>16. CASE \/ HydrateDashboard \/ RefreshDashboard \/ MountLendingScreen \/ GoAway
            \/ \E w \in Wallets : SessionExpires(w)
            \/ \E f \in fetches : FetchSucceeds(f) \/ FetchRetried(f) \/ FetchGivenUp(f)
  <2>1. mem \in Memories /\ ghost \in Ghosts
    BY DEF MobileTypeOK
  <2>2. /\ UNCHANGED <<disk, gate, hydrating, connect>> /\ mem'.session = mem.session
        /\ ghost'.late = ghost.late /\ ghost'.proved = ghost.proved
    <3>1. CASE HydrateDashboard \/ RefreshDashboard \/ MountLendingScreen
      BY <2>1, <3>1 DEF HydrateDashboard, RefreshDashboard, MountLendingScreen, StartFetches,
                        Memories, Ghosts
    <3>2. CASE GoAway \/ \E w \in Wallets : SessionExpires(w)
      BY <2>1, <3>2 DEF GoAway, SessionExpires, Memories, Ghosts
    <3>3. CASE \E f \in fetches : FetchSucceeds(f) \/ FetchRetried(f) \/ FetchGivenUp(f)
      BY <2>1, <3>3 DEF FetchSucceeds, FetchRetried, FetchGivenUp, Memories, Ghosts
    <3> QED BY <1>16, <3>1, <3>2, <3>3
  <2> QED BY <2>2, GateKept DEF Quiet
<1>17. CASE \E l \in Lendings : \/ Deposit(l) \/ Borrow(l) \/ Repay(l) \/ LendingStep(l) \/ LendingHangs(l)
                                \/ \E o \in {"SUCCESS", "FAILED"} : LendingLands(l, o)
  <2>1. mem \in Memories /\ ghost \in Ghosts
    BY DEF MobileTypeOK
  <2>2. /\ UNCHANGED <<disk, gate, hydrating, connect>> /\ mem'.session = mem.session
        /\ ghost'.late = ghost.late /\ ghost'.proved = ghost.proved
    <3>1. CASE \E l \in Lendings : Deposit(l) \/ Borrow(l) \/ Repay(l)
      BY <2>1, <3>1 DEF Deposit, Borrow, Repay, StartLending, Memories, Ghosts
    <3>2. CASE \E l \in Lendings : LendingStep(l)
      BY <2>1, <3>2 DEF LendingStep, SendLending, ConfirmLending, RollBackLending, RolledBack,
                        Memories, Ghosts
    <3>3. CASE \E l \in Lendings : LendingHangs(l) \/ \E o \in {"SUCCESS", "FAILED"} : LendingLands(l, o)
      BY <2>1, <3>3 DEF LendingHangs, LendingLands, Memories, Ghosts
    <3> QED BY <1>17, <3>1, <3>2, <3>3
  <2> QED BY <2>2, GateKept DEF Quiet
<1> QED BY <1>1, <1>2, <1>3, <1>4, <1>5, <1>6, <1>7, <1>8, <1>9, <1>10, <1>11, <1>12, <1>13, <1>14,
           <1>15, <1>16, <1>17 DEF MobileNext

(* Whatever the order of launches, prompts, returns and sign-outs, a closed    *)
(* gate keeps the store without a session (GateHolds).                         *)
THEOREM GateStaysShut == MobileSpec => []GateHolds
<1>1. MobileInit => GateInv
  BY DEF MobileInit, FreshMemory, FreshGate, GateInv, Quiet
<1>2. MobileTypeOK /\ GateInv /\ UNCHANGED mobileVars => GateInv'
  BY DEF mobileVars, GateInv, Quiet
<1>3. GateInv => GateHolds
  BY DEF GateInv, Quiet, GateHolds
<1> QED BY <1>1, <1>2, <1>3, GateStep, MobileTypeHolds, PTL DEF MobileSpec

-----------------------------------------------------------------------------
(* Lending: the calls under way.                                               *)

\* The call under way is the only one; it holds lendingLoading, and no sign-out
\* that would drop the flag is waiting for its answer.
OneCall ==
    ~ghost.abandoned =>
        /\ \A k, l \in InFlight : k = l
        /\ InFlight # {} => mem.lending /\ \A w \in Wallets : logouts[w] = 0

\* A step that leaves the calls alone and starts no sign-out.
LEMMA OneCallKept ==
    ASSUME OneCall, UNCHANGED <<lending, logouts>>, mem'.lending = mem.lending, ghost'.abandoned = ghost.abandoned
    PROVE  OneCall'
BY DEF OneCall, InFlight

\* A step after which no call is under way.
LEMMA NoCallLeft ==
    ASSUME InFlight' = {}
    PROVE  OneCall'
BY DEF OneCall

LEMMA OneCallStep ==
    ASSUME MobileTypeOK, OneCall, MobileNext
    PROVE  OneCall'
<1>1. CASE HandleLogout
  <2>1. PICK g : g = [ghost EXCEPT !.abandoned = @ \/ InFlight # {}]
    OBVIOUS
  <2>2. g.abandoned = (ghost.abandoned \/ InFlight # {})
    BY <2>1 DEF MobileTypeOK, Ghosts
  <2>3. ghost' = g /\ UNCHANGED lending
    BY <1>1, <2>1 DEF HandleLogout, Logout
  <2>4. InFlight' = InFlight
    BY <2>3 DEF InFlight
  <2> QED BY <2>2, <2>3, <2>4 DEF OneCall
<1>2. CASE \E w \in Wallets : LogoutAnswered(w)
  <2>1. PICK w \in Wallets : LogoutAnswered(w)
    BY <1>2
  <2>2. ghost'.abandoned = ghost.abandoned /\ UNCHANGED lending /\ logouts[w] > 0
    BY <2>1, OverlapOf DEF LogoutAnswered, MobileTypeOK
  <2>3. InFlight' = InFlight
    BY <2>2 DEF InFlight
  <2>4. ~ghost.abandoned => InFlight = {}
    BY <2>2 DEF OneCall
  <2> QED BY <2>2, <2>3, <2>4 DEF OneCall
<1>3. CASE \/ \E w \in Wallets : SessionExpires(w) \/ StartConnect(w)
           \/ \E c \in connect : ConnectStep(c)
           \/ LaunchHydration \/ ReadGateState \/ ReadSecrets \/ \E s \in Sessions : SetSecrets(s)
           \/ \E method \in {"bio", "pin"} : EnrollLock(method)
           \/ DisableLock \/ GoAway \/ ComeBack
  <2>1. UNCHANGED <<lending, logouts>>
    BY <1>3 DEF SessionExpires, StartConnect, ConnectStep, StoreKey, ReceiveNonce, Verify, ConnectFails, LaunchHydration, ReadGateState,
                ReadSecrets, SetSecrets, EnrollLock, DisableLock, GoAway, ComeBack
  <2>2. mem'.lending = mem.lending
    BY <1>3 DEF SessionExpires, StartConnect, ConnectStep, StoreKey, ReceiveNonce, Verify, ConnectFails, LaunchHydration, ReadGateState,
                ReadSecrets, SetSecrets, EnrollLock, DisableLock, GoAway, ComeBack, WipeHotSecretsFromStore,
                MobileTypeOK, Memories
  <2>3. ghost'.abandoned = ghost.abandoned
    BY <1>3 DEF SessionExpires, StartConnect, ConnectStep, StoreKey, ReceiveNonce, Verify, ConnectFails, LaunchHydration, ReadGateState,
                ReadSecrets, SetSecrets, EnrollLock, DisableLock, GoAway, ComeBack, MobileTypeOK, Ghosts
  <2> QED BY <2>1, <2>2, <2>3, OneCallKept
<1>4. CASE TurnToPin \/ UnlockWithBiometrics \/ UnlockWithPin \/ AutoPromptHalfPassed \/ ForgotPin
  <2>1. UNCHANGED <<lending, logouts, mem>>
    BY <1>4 DEF TurnToPin, UnlockWithBiometrics, UnlockWithPin, LiftGate, AutoPromptHalfPassed, ForgotPin
  <2>2. CASE ForgotPin
    <3>1. PICK g : g = Overlap(ghost)
      OBVIOUS
    <3>2. g \in Ghosts /\ g.abandoned = ghost.abandoned
      BY <3>1, OverlapOf DEF MobileTypeOK
    <3>3. ghost' = [g EXCEPT !.overlapped = @ \/ mem.session # NoWallet]
      BY <2>2, <3>1 DEF ForgotPin
    <3>4. ghost'.abandoned = ghost.abandoned
      BY <3>2, <3>3 DEF Ghosts
    <3> QED BY <2>1, <3>4, OneCallKept
  <2>3. CASE ~ForgotPin
    <3>1. ghost'.abandoned = ghost.abandoned
      BY <1>4, <2>3 DEF TurnToPin, UnlockWithBiometrics, UnlockWithPin, LiftGate, AutoPromptHalfPassed,
                        MobileTypeOK, Ghosts
    <3> QED BY <2>1, <3>1, OneCallKept
  <2> QED BY <2>2, <2>3
<1>5. CASE Relaunch
  <2>1. \A l \in Lendings : lending'[l].at \in {"idle", "done"}
    <3> SUFFICES ASSUME NEW l \in Lendings PROVE lending'[l].at \in {"idle", "done"}
      OBVIOUS
    <3>1. lending'[l] = IF lending[l].at = "idle" THEN NoLending ELSE [lending[l] EXCEPT !.at = "done"]
      BY <1>5 DEF Relaunch
    <3>2. CASE lending[l].at = "idle"
      BY <3>1, <3>2 DEF NoLending
    <3>3. CASE lending[l].at # "idle"
      <4>1. lending[l] \in Calls
        BY <3>3, CallIn
      <4> QED BY <3>1, <3>3, <4>1 DEF Calls
    <3> QED BY <3>2, <3>3
  <2> QED BY <2>1, NoCallLeft DEF InFlight
<1>6. CASE HydrateDashboard \/ RefreshDashboard \/ MountLendingScreen
  <2>1. UNCHANGED <<lending, logouts, mem, ghost>>
    BY <1>6 DEF HydrateDashboard, RefreshDashboard, MountLendingScreen, StartFetches
  <2> QED BY <2>1, OneCallKept
<1>7. CASE \E f \in fetches : FetchSucceeds(f) \/ FetchRetried(f) \/ FetchGivenUp(f)
  <2>1. UNCHANGED <<lending, logouts>>
    BY <1>7 DEF FetchSucceeds, FetchRetried, FetchGivenUp
  <2>2. mem'.lending = mem.lending /\ ghost'.abandoned = ghost.abandoned
    BY <1>7 DEF FetchSucceeds, FetchRetried, FetchGivenUp, MobileTypeOK, Memories, Ghosts
  <2> QED BY <2>1, <2>2, OneCallKept
<1>8. CASE \E f \in fetches : FetchUnauthorized(f)
  <2>1. PICK f \in fetches : FetchUnauthorized(f)
    BY <1>8
  <2>2. CASE ~SignsOut
    BY <2>1, <2>2, OneCallKept DEF FetchUnauthorized
  <2>3. CASE SignsOut
    <3>1. ~mem.lending /\ UNCHANGED lending
      BY <2>1, <2>3 DEF FetchUnauthorized, SignsOut
    <3>2. ghost'.abandoned = ghost.abandoned
      BY <2>1, <2>3, OverlapOf DEF FetchUnauthorized, Logout, MobileTypeOK
    <3>3. InFlight' = InFlight
      BY <3>1 DEF InFlight
    <3> QED BY <3>1, <3>2, <3>3 DEF OneCall
  <2> QED BY <2>2, <2>3
<1>9. CASE \E l \in Lendings : Deposit(l) \/ Borrow(l) \/ Repay(l)
  <2>1. PICK l \in Lendings, delta \in {-1, 1} : StartLending(l, delta)
    BY <1>9 DEF Deposit, Borrow, Repay
  <2>2. mem'.lending /\ ghost'.abandoned = (ghost.abandoned \/ \E w \in Wallets : logouts[w] > 0) /\ ~mem.lending
        /\ UNCHANGED logouts
    BY <2>1 DEF StartLending, MobileTypeOK, Memories, Ghosts
  <2>3. InFlight' \subseteq InFlight \cup {l}
    BY <2>1 DEF StartLending, InFlight, MobileTypeOK
  <2>4. ~ghost.abandoned => InFlight = {}
    BY <2>2 DEF OneCall
  <2>5. (\A w \in Wallets : ~(logouts[w] > 0)) => \A w \in Wallets : logouts[w] = 0
    BY DEF MobileTypeOK
  <2> QED BY <2>2, <2>3, <2>4, <2>5 DEF OneCall
<1>10. CASE \E l \in Lendings : \/ SendLending(l) \/ LendingHangs(l)
                                \/ \E o \in {"SUCCESS", "FAILED"} : LendingLands(l, o)
  <2>1. PICK l \in Lendings : SendLending(l) \/ LendingHangs(l) \/ \E o \in {"SUCCESS", "FAILED"} : LendingLands(l, o)
    BY <1>10
  <2>2. lending[l] \in Calls
    BY <2>1, CallIn DEF SendLending, LendingHangs, LendingLands
  <2>3. PICK c : lending' = [lending EXCEPT ![l] = c]
                 /\ \/ c.at = lending[l].at
                    \/ lending[l].at \in {"signing", "polling"} /\ c.at \in {"polling", "hung"}
    <3>1. CASE SendLending(l)
      <4>1. PICK c : c = [lending[l] EXCEPT !.at = "polling", !.tx = "sent"]
        OBVIOUS
      <4>2. lending' = [lending EXCEPT ![l] = c]
        BY <3>1, <4>1 DEF SendLending, MobileTypeOK
      <4>3. c.at = "polling" /\ lending[l].at = "signing"
        BY <2>2, <3>1, <4>1 DEF SendLending, Calls
      <4> QED BY <4>2, <4>3
    <3>2. CASE \E o \in {"SUCCESS", "FAILED"} : LendingLands(l, o)
      <4>1. PICK o \in {"SUCCESS", "FAILED"} : LendingLands(l, o)
        BY <3>2
      <4>2. PICK c : c = [lending[l] EXCEPT !.tx = o]
        OBVIOUS
      <4>3. lending' = [lending EXCEPT ![l] = c]
        BY <4>1, <4>2 DEF LendingLands
      <4>4. c.at = lending[l].at
        BY <2>2, <4>2 DEF Calls
      <4> QED BY <4>3, <4>4
    <3>3. CASE LendingHangs(l)
      <4>1. PICK c : c = [lending[l] EXCEPT !.at = "hung"]
        OBVIOUS
      <4>2. lending' = [lending EXCEPT ![l] = c]
        BY <3>3, <4>1 DEF LendingHangs
      <4>3. c.at = "hung" /\ lending[l].at \in {"signing", "polling"}
        BY <2>2, <3>3, <4>1 DEF LendingHangs, Calls
      <4> QED BY <4>2, <4>3
    <3> QED BY <2>1, <3>1, <3>2, <3>3
  <2>4. InFlight' = InFlight
    BY <2>3 DEF InFlight, MobileTypeOK
  <2>5. UNCHANGED <<mem, logouts>> /\ ghost'.abandoned = ghost.abandoned
    BY <2>1 DEF SendLending, LendingHangs, LendingLands
  <2> QED BY <2>4, <2>5 DEF OneCall
<1>11. CASE \E l \in Lendings : ConfirmLending(l) \/ RollBackLending(l)
  <2>1. PICK l \in Lendings : ConfirmLending(l) \/ RollBackLending(l)
    BY <1>11
  <2>2. lending[l] \in Calls /\ lending[l].at \in {"signing", "polling"}
    BY <2>1, CallIn DEF ConfirmLending, RollBackLending
  <2>3. PICK c : c = [lending[l] EXCEPT !.at = "done"]
    OBVIOUS
  <2>4. c.at = "done" /\ lending' = [lending EXCEPT ![l] = c]
    BY <2>1, <2>2, <2>3 DEF ConfirmLending, RollBackLending, Calls
  <2>5. InFlight' = InFlight \ {l} /\ l \in InFlight
    BY <2>2, <2>4 DEF InFlight, MobileTypeOK
  <2>6. ghost'.abandoned = ghost.abandoned
    BY <2>1 DEF ConfirmLending, RollBackLending, MobileTypeOK, Ghosts
  <2> QED BY <2>5, <2>6 DEF OneCall
<1> QED BY <1>1, <1>2, <1>3, <1>4, <1>5, <1>6, <1>7, <1>8, <1>9, <1>10, <1>11 DEF MobileNext, LendingStep

(* However lending calls, expiries and refreshes interleave, one call at most  *)
(* is under way (OneLendingAtATime): lendingLoading guards the next one and    *)
(* holds back the sign-out that would drop it.                                 *)
THEOREM OneCallAtATime == MobileSpec => []OneLendingAtATime
<1>1. MobileInit => OneCall
  BY DEF MobileInit, OneCall, InFlight, NoLending
<1>2. MobileTypeOK /\ OneCall /\ UNCHANGED mobileVars => OneCall'
  BY DEF mobileVars, OneCall, InFlight
<1>3. OneCall => OneLendingAtATime
  <2> SUFFICES ASSUME OneCall, ~ghost.abandoned PROVE Cardinality(InFlight) <= 1
    BY DEF OneLendingAtATime
  <2>1. CASE InFlight = {}
    BY <2>1, FS_EmptySet
  <2>2. CASE InFlight # {}
    <3>1. PICK l : InFlight = {l}
      BY <2>2 DEF OneCall
    <3> QED BY <3>1, FS_Singleton
  <2> QED BY <2>1, <2>2
<1> QED BY <1>1, <1>2, <1>3, OneCallStep, MobileTypeHolds, PTL DEF MobileSpec

-----------------------------------------------------------------------------
(* Lending: the balance shown.                                                 *)

\* The calls whose optimistic movement is in the balance shown: no refresh has
\* replaced it since.
Raised == {l \in InFlight : l \notin ghost.over /\ lending[l].delta = 1}
Lowered == {l \in InFlight : l \notin ghost.over /\ lending[l].delta = -1}

\* What is shown is the settled balance, moved by those calls: one unit for each.
Optimism ==
    /\ IsFiniteSet(InFlight) /\ ghost.over \subseteq InFlight
    /\ ~ghost.suspect => mem.balance = ghost.settled + Cardinality(Raised) - Cardinality(Lowered)

LEMMA MovesAreFinite ==
    ASSUME IsFiniteSet(InFlight)
    PROVE  /\ IsFiniteSet(Raised) /\ IsFiniteSet(Lowered)
           /\ Cardinality(Raised) \in Nat /\ Cardinality(Lowered) \in Nat
<1>1. Raised \subseteq InFlight /\ Lowered \subseteq InFlight
  BY DEF Raised, Lowered
<1>2. IsFiniteSet(Raised) /\ IsFiniteSet(Lowered)
  BY <1>1, FS_Subset
<1> QED BY <1>2, FS_CardinalityType

\* What the history says of the balance.
Account(g) == <<g.settled, g.over, g.suspect>>

\* A step that leaves the calls and the balance alone.
LEMMA OptimismKept ==
    ASSUME Optimism, UNCHANGED lending, mem'.balance = mem.balance, Account(ghost') = Account(ghost)
    PROVE  Optimism'
<1>1. InFlight' = InFlight
  BY DEF InFlight
<1>2. ghost'.settled = ghost.settled /\ ghost'.over = ghost.over /\ ghost'.suspect = ghost.suspect
  BY DEF Account
<1>3. Raised' = Raised /\ Lowered' = Lowered
  BY <1>1, <1>2 DEF Raised, Lowered
<1> QED BY <1>1, <1>2, <1>3 DEF Optimism

\* One call enters or leaves the movements.
LEMMA OneMore ==
    ASSUME NEW S, IsFiniteSet(S), NEW x, x \notin S, NEW T, T = S \cup {x}
    PROVE  Cardinality(T) = Cardinality(S) + 1 /\ IsFiniteSet(T)
BY FS_AddElement
LEMMA OneLess ==
    ASSUME NEW S, IsFiniteSet(S), NEW x \in S, NEW T, T = S \ {x}
    PROVE  Cardinality(T) = Cardinality(S) - 1 /\ IsFiniteSet(T)
BY FS_RemoveElement

LEMMA OptimisticStart ==
    ASSUME MobileTypeOK, Optimism, NEW l \in Lendings, NEW delta \in {-1, 1}, StartLending(l, delta)
    PROVE  Optimism'
<1>1. PICK c : c = [at |-> "signing", tx |-> "none", delta |-> delta]
  OBVIOUS
<1>2. /\ lending' = [lending EXCEPT ![l] = c] /\ lending[l].at = "idle"
      /\ c.at = "signing" /\ c.delta = delta
  BY <1>1 DEF StartLending, NoLending
<1>3. PICK n \in Int : n = mem.balance + delta
  BY DEF MobileTypeOK, Memories
<1>4. mem' = [mem EXCEPT !.lending = TRUE, !.balance = n]
  BY <1>3 DEF StartLending
<1>5. /\ mem'.balance = n /\ ghost'.suspect = ghost.suspect
      /\ ghost'.settled = ghost.settled /\ ghost'.over = ghost.over
  BY <1>4 DEF StartLending, MobileTypeOK, Memories, Ghosts
<1>6. InFlight' = InFlight \cup {l} /\ l \notin InFlight
  BY <1>2 DEF InFlight, MobileTypeOK
<1>7. IsFiniteSet(InFlight') /\ ghost'.over \subseteq InFlight' /\ l \notin ghost'.over
  BY <1>5, <1>6, OneMore DEF Optimism
<1>8. \A k \in InFlight : lending'[k] = lending[k]
  BY <1>2, <1>6 DEF InFlight, MobileTypeOK
<1>9. lending'[l] = c
  BY <1>2 DEF MobileTypeOK
<1>10. ghost.settled \in Int /\ mem.balance \in Int
  BY DEF MobileTypeOK, Ghosts, Memories
<1>11. Cardinality(Raised) \in Nat /\ Cardinality(Lowered) \in Nat
  BY MovesAreFinite DEF Optimism
<1>12. CASE delta = 1
  <2>1. Raised' = Raised \cup {l} /\ Lowered' = Lowered /\ l \notin Raised
    BY <1>2, <1>5, <1>6, <1>7, <1>8, <1>9, <1>12 DEF Raised, Lowered
  <2>2. Cardinality(Raised') = Cardinality(Raised) + 1 /\ Cardinality(Lowered') = Cardinality(Lowered)
    BY <2>1, OneMore, MovesAreFinite DEF Optimism
  <2>3. ~ghost.suspect => n = ghost.settled + Cardinality(Raised') - Cardinality(Lowered')
    BY <1>3, <1>10, <1>11, <1>12, <2>2 DEF Optimism
  <2> QED BY <1>5, <1>7, <2>3 DEF Optimism
<1>13. CASE delta = -1
  <2>1. Lowered' = Lowered \cup {l} /\ Raised' = Raised /\ l \notin Lowered
    BY <1>2, <1>5, <1>6, <1>7, <1>8, <1>9, <1>13 DEF Raised, Lowered
  <2>2. Cardinality(Lowered') = Cardinality(Lowered) + 1 /\ Cardinality(Raised') = Cardinality(Raised)
    BY <2>1, OneMore, MovesAreFinite DEF Optimism
  <2>3. ~ghost.suspect => n = ghost.settled + Cardinality(Raised') - Cardinality(Lowered')
    BY <1>3, <1>10, <1>11, <1>13, <2>2 DEF Optimism
  <2> QED BY <1>5, <1>7, <2>3 DEF Optimism
<1> QED BY <1>12, <1>13

\* A call goes on without coming to its end.
LEMMA OptimisticCall ==
    ASSUME MobileTypeOK, Optimism, NEW l \in Lendings,
           \/ SendLending(l) \/ LendingHangs(l) \/ \E o \in {"SUCCESS", "FAILED"} : LendingLands(l, o)
    PROVE  Optimism'
<1>1. lending[l] \in Calls /\ lending[l].at \in {"signing", "polling"} /\ UNCHANGED <<mem, ghost>>
  BY CallIn DEF SendLending, LendingHangs, LendingLands
<1>2. PICK c : /\ lending' = [lending EXCEPT ![l] = c]
               /\ c.at \in {"polling", "hung"} /\ c.delta = lending[l].delta
  <2>1. CASE SendLending(l)
    <3>1. PICK c : c = [lending[l] EXCEPT !.at = "polling", !.tx = "sent"]
      OBVIOUS
    <3>2. lending' = [lending EXCEPT ![l] = c]
      BY <2>1, <3>1 DEF SendLending, MobileTypeOK
    <3>3. c.at = "polling" /\ c.delta = lending[l].delta
      BY <1>1, <3>1 DEF Calls
    <3> QED BY <3>2, <3>3
  <2>2. CASE LendingHangs(l)
    <3>1. PICK c : c = [lending[l] EXCEPT !.at = "hung"]
      OBVIOUS
    <3>2. lending' = [lending EXCEPT ![l] = c]
      BY <2>2, <3>1 DEF LendingHangs
    <3>3. c.at = "hung" /\ c.delta = lending[l].delta
      BY <1>1, <3>1 DEF Calls
    <3> QED BY <3>2, <3>3
  <2>3. CASE \E o \in {"SUCCESS", "FAILED"} : LendingLands(l, o)
    <3>1. PICK o \in {"SUCCESS", "FAILED"} : LendingLands(l, o)
      BY <2>3
    <3>2. PICK c : c = [lending[l] EXCEPT !.tx = o]
      OBVIOUS
    <3>3. lending' = [lending EXCEPT ![l] = c] /\ lending[l].at = "polling"
      BY <3>1, <3>2 DEF LendingLands
    <3>4. c.at = lending[l].at /\ c.delta = lending[l].delta
      BY <1>1, <3>2 DEF Calls
    <3> QED BY <3>3, <3>4
  <2> QED BY <2>1, <2>2, <2>3
<1>3. InFlight' = InFlight
  BY <1>1, <1>2 DEF InFlight, MobileTypeOK
<1>4. Raised' = Raised /\ Lowered' = Lowered
  BY <1>1, <1>2, <1>3 DEF Raised, Lowered, MobileTypeOK
<1> QED BY <1>1, <1>3, <1>4 DEF Optimism

\* What the end of a call leaves of the movements.
LEMMA CallLeaves ==
    ASSUME MobileTypeOK, Optimism, NEW l \in InFlight, lending[l] \in Calls,
           lending' = [lending EXCEPT ![l] = [lending[l] EXCEPT !.at = "done"]],
           ghost'.over = ghost.over \ {l}
    PROVE  /\ IsFiniteSet(InFlight') /\ ghost'.over \subseteq InFlight'
           /\ l \in ghost.over => Raised' = Raised /\ Lowered' = Lowered
           /\ l \notin ghost.over =>
                  Cardinality(Raised') - Cardinality(Lowered')
                      = Cardinality(Raised) - Cardinality(Lowered) - lending[l].delta
<1>1. l \in Lendings /\ lending[l].delta \in {-1, 1}
  BY DEF InFlight, Calls
<1>2. PICK c : c = [lending[l] EXCEPT !.at = "done"]
  OBVIOUS
<1>3. lending' = [lending EXCEPT ![l] = c] /\ c.at = "done"
  BY <1>2 DEF Calls
<1>4. InFlight' = InFlight \ {l}
  BY <1>1, <1>3 DEF InFlight, MobileTypeOK
<1>5. \A k \in InFlight' : lending'[k] = lending[k] /\ (k \in ghost'.over <=> k \in ghost.over)
  BY <1>3, <1>4 DEF InFlight, MobileTypeOK
<1>6. IsFiniteSet(InFlight') /\ ghost'.over \subseteq InFlight'
  BY <1>4, OneLess DEF Optimism
<1>7. Cardinality(Raised) \in Nat /\ Cardinality(Lowered) \in Nat
  BY MovesAreFinite DEF Optimism
<1>8. Raised' = Raised \ {l} /\ Lowered' = Lowered \ {l}
  BY <1>4, <1>5 DEF Raised, Lowered
<1>9. l \in ghost.over => Raised' = Raised /\ Lowered' = Lowered
  BY <1>8 DEF Raised, Lowered
<1>10. ASSUME l \notin ghost.over
      PROVE  Cardinality(Raised') - Cardinality(Lowered')
                 = Cardinality(Raised) - Cardinality(Lowered) - lending[l].delta
  <2>1. CASE lending[l].delta = 1
    <3>1. l \in Raised /\ Lowered' = Lowered
      BY <1>8, <1>10, <2>1 DEF Raised, Lowered
    <3>2. Cardinality(Raised') = Cardinality(Raised) - 1 /\ Cardinality(Lowered') = Cardinality(Lowered)
      BY <1>8, <3>1, OneLess, MovesAreFinite DEF Optimism
    <3> QED BY <1>7, <2>1, <3>2
  <2>2. CASE lending[l].delta = -1
    <3>1. l \in Lowered /\ Raised' = Raised
      BY <1>8, <1>10, <2>2 DEF Raised, Lowered
    <3>2. Cardinality(Lowered') = Cardinality(Lowered) - 1 /\ Cardinality(Raised') = Cardinality(Raised)
      BY <1>8, <3>1, OneLess, MovesAreFinite DEF Optimism
    <3> QED BY <1>7, <2>2, <3>2
  <2> QED BY <1>1, <2>1, <2>2
<1> QED BY <1>6, <1>9, <1>10

LEMMA MovesLeftAreFinite ==
    ASSUME IsFiniteSet(InFlight')
    PROVE  Cardinality(Raised') \in Nat /\ Cardinality(Lowered') \in Nat
<1>1. Raised' \subseteq InFlight' /\ Lowered' \subseteq InFlight'
  BY DEF Raised, Lowered
<1>2. IsFiniteSet(Raised') /\ IsFiniteSet(Lowered')
  BY <1>1, FS_Subset
<1> QED BY <1>2, FS_CardinalityType

LEMMA OptimisticConfirm ==
    ASSUME MobileTypeOK, Optimism, NEW l \in Lendings, ConfirmLending(l)
    PROVE  Optimism'
<1>1. lending[l] \in Calls /\ l \in InFlight
  BY CallIn DEF ConfirmLending, InFlight
<1>2. /\ lending' = [lending EXCEPT ![l] = [lending[l] EXCEPT !.at = "done"]]
      /\ mem'.balance = mem.balance
  BY DEF ConfirmLending, MobileTypeOK, Memories
<1>3. lending[l].delta \in Int /\ ghost.settled \in Int
  BY <1>1 DEF Calls, MobileTypeOK, Ghosts
<1>4. PICK n \in Int : n = IF l \in ghost.over THEN ghost.settled ELSE ghost.settled + lending[l].delta
  BY <1>3
<1>5. ghost' = [ghost EXCEPT !.settled = n, !.over = @ \ {l}]
  BY <1>4 DEF ConfirmLending
<1>6. ghost'.settled = n /\ ghost'.over = ghost.over \ {l} /\ ghost'.suspect = ghost.suspect
  BY <1>5 DEF MobileTypeOK, Ghosts
<1>7. /\ IsFiniteSet(InFlight') /\ ghost'.over \subseteq InFlight'
      /\ l \in ghost.over => Raised' = Raised /\ Lowered' = Lowered
      /\ l \notin ghost.over =>
             Cardinality(Raised') - Cardinality(Lowered')
                 = Cardinality(Raised) - Cardinality(Lowered) - lending[l].delta
  BY <1>1, <1>2, <1>6, CallLeaves
<1>8. /\ Cardinality(Raised) \in Nat /\ Cardinality(Lowered) \in Nat
      /\ Cardinality(Raised') \in Nat /\ Cardinality(Lowered') \in Nat
  BY <1>7, MovesAreFinite, MovesLeftAreFinite DEF Optimism
<1>9. ~ghost.suspect => mem.balance = n + Cardinality(Raised') - Cardinality(Lowered')
  <2>1. CASE l \in ghost.over
    BY <1>4, <1>7, <2>1 DEF Optimism
  <2>2. CASE l \notin ghost.over
    BY <1>3, <1>4, <1>7, <1>8, <2>2 DEF Optimism
  <2> QED BY <2>1, <2>2
<1> QED BY <1>2, <1>6, <1>7, <1>9 DEF Optimism

LEMMA OptimisticRollBack ==
    ASSUME MobileTypeOK, Optimism, NEW l \in Lendings, RollBackLending(l)
    PROVE  Optimism'
<1>1. lending[l] \in Calls /\ l \in InFlight
  BY CallIn DEF RollBackLending, InFlight
<1>2. lending' = [lending EXCEPT ![l] = [lending[l] EXCEPT !.at = "done"]]
  BY DEF RollBackLending
<1>3. lending[l].delta \in Int /\ ghost.settled \in Int /\ mem.balance \in Int
  BY <1>1 DEF Calls, MobileTypeOK, Ghosts, Memories
<1>4. PICK n \in Int : n = mem.balance - lending[l].delta
  BY <1>3
<1>5. mem' = [mem EXCEPT !.lending = FALSE, !.balance = n]
  BY <1>4 DEF RollBackLending, RolledBack
<1>6. /\ mem'.balance = n /\ ghost'.settled = ghost.settled /\ ghost'.over = ghost.over \ {l}
      /\ ghost'.suspect = (ghost.suspect \/ l \in ghost.over)
  BY <1>5 DEF RollBackLending, MobileTypeOK, Memories, Ghosts
<1>7. /\ IsFiniteSet(InFlight') /\ ghost'.over \subseteq InFlight'
      /\ l \notin ghost.over =>
             Cardinality(Raised') - Cardinality(Lowered')
                 = Cardinality(Raised) - Cardinality(Lowered) - lending[l].delta
  BY <1>1, <1>2, <1>6, CallLeaves
<1>8. /\ Cardinality(Raised) \in Nat /\ Cardinality(Lowered) \in Nat
      /\ Cardinality(Raised') \in Nat /\ Cardinality(Lowered') \in Nat
  BY <1>7, MovesAreFinite, MovesLeftAreFinite DEF Optimism
<1>9. ASSUME ~ghost'.suspect
      PROVE  n = ghost.settled + Cardinality(Raised') - Cardinality(Lowered')
  <2>1. ~ghost.suspect /\ l \notin ghost.over
    BY <1>6, <1>9
  <2>2. mem.balance = ghost.settled + Cardinality(Raised) - Cardinality(Lowered)
    BY <2>1 DEF Optimism
  <2>3. Cardinality(Raised') - Cardinality(Lowered')
            = Cardinality(Raised) - Cardinality(Lowered) - lending[l].delta
    BY <1>7, <2>1
  <2> QED BY <1>3, <1>4, <1>8, <2>2, <2>3
<1> QED BY <1>6, <1>7, <1>9 DEF Optimism

LEMMA OptimisticFetch ==
    ASSUME MobileTypeOK, Optimism, NEW f \in fetches, FetchSucceeds(f)
    PROVE  Optimism'
<1>1. UNCHANGED lending /\ InFlight' = InFlight
  BY DEF FetchSucceeds, InFlight
<1>2. CASE mem' = [mem EXCEPT !.listed = TRUE] /\ UNCHANGED ghost
  <2>1. mem'.balance = mem.balance
    BY <1>2 DEF MobileTypeOK, Memories
  <2> QED BY <1>1, <1>2, <2>1, OptimismKept
<1>3. CASE \E held \in Holdings :
              /\ mem' = [mem EXCEPT !.balance = held, !.shown = TRUE]
              /\ ghost' = [ghost EXCEPT !.settled = held, !.over = InFlight, !.suspect = FALSE]
  <2>1. PICK held \in Int :
              /\ mem' = [mem EXCEPT !.balance = held, !.shown = TRUE]
              /\ ghost' = [ghost EXCEPT !.settled = held, !.over = InFlight, !.suspect = FALSE]
    BY <1>3, MobileAssumption
  <2>2. mem'.balance = held /\ ghost'.settled = held /\ ghost'.over = InFlight
    BY <2>1 DEF MobileTypeOK, Memories, Ghosts
  <2>3. Raised' = {} /\ Lowered' = {}
    BY <1>1, <2>2 DEF Raised, Lowered
  <2>4. Cardinality(Raised') = 0 /\ Cardinality(Lowered') = 0
    BY <2>3, FS_EmptySet
  <2>5. mem'.balance = ghost'.settled + Cardinality(Raised') - Cardinality(Lowered')
    BY <2>2, <2>4
  <2> QED BY <1>1, <2>2, <2>5 DEF Optimism
<1> QED BY <1>2, <1>3 DEF FetchSucceeds

LEMMA OptimisticRelaunch ==
    ASSUME MobileTypeOK, Relaunch
    PROVE  Optimism'
<1>1. \A l \in Lendings : lending'[l].at \in {"idle", "done"}
  <2> SUFFICES ASSUME NEW l \in Lendings PROVE lending'[l].at \in {"idle", "done"}
    OBVIOUS
  <2>1. lending'[l] = IF lending[l].at = "idle" THEN NoLending ELSE [lending[l] EXCEPT !.at = "done"]
    BY DEF Relaunch
  <2>2. CASE lending[l].at = "idle"
    BY <2>1, <2>2 DEF NoLending
  <2>3. CASE lending[l].at # "idle"
    <3>1. lending[l] \in Calls
      BY <2>3, CallIn
    <3> QED BY <2>1, <2>3, <3>1 DEF Calls
  <2> QED BY <2>2, <2>3
<1>2. InFlight' = {}
  BY <1>1 DEF InFlight
<1>3. mem'.balance = 0 /\ ghost'.settled = 0 /\ ghost'.over = {}
  BY DEF Relaunch, FreshMemory, MobileTypeOK, Ghosts
<1>4. Cardinality(Raised') = 0 /\ Cardinality(Lowered') = 0
  BY <1>2, FS_EmptySet DEF Raised, Lowered
<1> QED BY <1>2, <1>3, <1>4, FS_EmptySet DEF Optimism

LEMMA OptimismStep ==
    ASSUME MobileTypeOK, Optimism, MobileNext
    PROVE  Optimism'
<1>1. CASE HandleLogout
  <2>1. PICK g : g = [ghost EXCEPT !.abandoned = @ \/ InFlight # {}]
    OBVIOUS
  <2>2. g \in Ghosts /\ Account(g) = Account(ghost)
    BY <2>1 DEF MobileTypeOK, Ghosts, Account
  <2>3. Logout(fetches, g) /\ UNCHANGED lending
    BY <1>1, <2>1 DEF HandleLogout
  <2>4. mem'.balance = mem.balance /\ Account(ghost') = Account(ghost)
    BY <2>2, <2>3, SignedOut, OverlapOf DEF Logout, MobileTypeOK, Account
  <2> QED BY <2>3, <2>4, OptimismKept
<1>2. CASE \E w \in Wallets : LogoutAnswered(w)
  <2>1. UNCHANGED lending
    BY <1>2 DEF LogoutAnswered
  <2>2. mem'.balance = mem.balance /\ Account(ghost') = Account(ghost)
    BY <1>2, SignedOut, OverlapOf DEF LogoutAnswered, MobileTypeOK, Account
  <2> QED BY <2>1, <2>2, OptimismKept
<1>3. CASE \/ \E w \in Wallets : SessionExpires(w) \/ StartConnect(w)
           \/ \E c \in connect : ConnectStep(c)
           \/ LaunchHydration \/ ReadGateState \/ ReadSecrets \/ \E s \in Sessions : SetSecrets(s)
           \/ \E method \in {"bio", "pin"} : EnrollLock(method)
           \/ DisableLock \/ GoAway \/ ComeBack
  <2>1. UNCHANGED lending
    BY <1>3 DEF SessionExpires, StartConnect, ConnectStep, StoreKey, ReceiveNonce, Verify, ConnectFails, LaunchHydration, ReadGateState,
                ReadSecrets, SetSecrets, EnrollLock, DisableLock, GoAway, ComeBack
  <2>2. mem'.balance = mem.balance
    BY <1>3 DEF SessionExpires, StartConnect, ConnectStep, StoreKey, ReceiveNonce, Verify, ConnectFails, LaunchHydration, ReadGateState,
                ReadSecrets, SetSecrets, EnrollLock, DisableLock, GoAway, ComeBack, WipeHotSecretsFromStore,
                MobileTypeOK, Memories
  <2>3. Account(ghost') = Account(ghost)
    BY <1>3 DEF SessionExpires, StartConnect, ConnectStep, StoreKey, ReceiveNonce, Verify, ConnectFails,
                LaunchHydration, ReadGateState, ReadSecrets, SetSecrets, EnrollLock, DisableLock, GoAway,
                ComeBack, MobileTypeOK, Ghosts, Account
  <2> QED BY <2>1, <2>2, <2>3, OptimismKept
<1>4. CASE TurnToPin \/ UnlockWithBiometrics \/ UnlockWithPin \/ AutoPromptHalfPassed \/ ForgotPin
  <2>1. UNCHANGED <<lending, mem>>
    BY <1>4 DEF TurnToPin, UnlockWithBiometrics, UnlockWithPin, LiftGate, AutoPromptHalfPassed, ForgotPin
  <2>2. CASE ForgotPin
    <3>1. PICK g : g = Overlap(ghost)
      OBVIOUS
    <3>2. g \in Ghosts /\ Account(g) = Account(ghost)
      BY <3>1, OverlapOf DEF MobileTypeOK, Account
    <3>3. ghost' = [g EXCEPT !.overlapped = @ \/ mem.session # NoWallet]
      BY <2>2, <3>1 DEF ForgotPin
    <3>4. Account(ghost') = Account(ghost)
      BY <3>2, <3>3 DEF Ghosts, Account
    <3> QED BY <2>1, <3>4, OptimismKept
  <2>3. CASE ~ForgotPin
    <3>1. Account(ghost') = Account(ghost)
      BY <1>4, <2>3 DEF TurnToPin, UnlockWithBiometrics, UnlockWithPin, LiftGate, AutoPromptHalfPassed,
                        MobileTypeOK, Ghosts, Account
    <3> QED BY <2>1, <3>1, OptimismKept
  <2> QED BY <2>2, <2>3
<1>5. CASE Relaunch
  BY <1>5, OptimisticRelaunch
<1>6. CASE HydrateDashboard \/ RefreshDashboard \/ MountLendingScreen
  <2>1. UNCHANGED <<lending, mem, ghost>>
    BY <1>6 DEF HydrateDashboard, RefreshDashboard, MountLendingScreen, StartFetches
  <2> QED BY <2>1, OptimismKept
<1>7. CASE \E f \in fetches : FetchSucceeds(f)
  BY <1>7, OptimisticFetch
<1>8. CASE \E f \in fetches : FetchRetried(f) \/ FetchGivenUp(f)
  <2>1. UNCHANGED <<lending, mem, ghost>>
    BY <1>8 DEF FetchRetried, FetchGivenUp
  <2> QED BY <2>1, OptimismKept
<1>9. CASE \E f \in fetches : FetchUnauthorized(f)
  <2>1. PICK f \in fetches : FetchUnauthorized(f)
    BY <1>9
  <2>2. UNCHANGED lending
    BY <2>1 DEF FetchUnauthorized
  <2>3. mem'.balance = mem.balance /\ Account(ghost') = Account(ghost)
    BY <2>1, SignedOut, OverlapOf DEF FetchUnauthorized, Logout, MobileTypeOK, Account
  <2> QED BY <2>2, <2>3, OptimismKept
<1>10. CASE \E l \in Lendings : Deposit(l) \/ Borrow(l) \/ Repay(l)
  BY <1>10, OptimisticStart DEF Deposit, Borrow, Repay
<1>11. CASE \E l \in Lendings : \/ LendingStep(l) \/ LendingHangs(l)
                                \/ \E o \in {"SUCCESS", "FAILED"} : LendingLands(l, o)
  BY <1>11, OptimisticCall, OptimisticConfirm, OptimisticRollBack DEF LendingStep
<1> QED BY <1>1, <1>2, <1>3, <1>4, <1>5, <1>6, <1>7, <1>8, <1>9, <1>10, <1>11 DEF MobileNext

(* With no call under way the balance shown is the backend's last answer and    *)
(* what was confirmed since, for any number of calls, failures, rollbacks and  *)
(* refreshes but the failure of a call that a refresh has met (runLending,     *)
(* FailedCallsLeaveNoTrace).                                                   *)
THEOREM FailuresLeaveNoTrace == MobileSpec => []FailedCallsLeaveNoTrace
<1>1. MobileInit => Optimism
  <2> SUFFICES ASSUME MobileInit PROVE Optimism
    OBVIOUS
  <2>1. InFlight = {} /\ mem.balance = 0 /\ ghost.settled = 0 /\ ghost.over = {}
    BY DEF MobileInit, InFlight, NoLending, FreshMemory
  <2>2. Cardinality(Raised) = 0 /\ Cardinality(Lowered) = 0
    BY <2>1, FS_EmptySet DEF Raised, Lowered
  <2> QED BY <2>1, <2>2, FS_EmptySet DEF Optimism
<1>2. MobileTypeOK /\ Optimism /\ UNCHANGED mobileVars => Optimism'
  BY OptimismKept DEF mobileVars
<1>3. MobileTypeOK /\ Optimism => FailedCallsLeaveNoTrace
  <2> SUFFICES ASSUME MobileTypeOK, Optimism, ~ghost.suspect, InFlight = {}
               PROVE  mem.balance = ghost.settled
    BY DEF FailedCallsLeaveNoTrace
  <2>1. Cardinality(Raised) = 0 /\ Cardinality(Lowered) = 0
    BY FS_EmptySet DEF Raised, Lowered
  <2> QED BY <2>1 DEF Optimism, MobileTypeOK, Ghosts
<1> QED BY <1>1, <1>2, <1>3, OptimismStep, MobileTypeHolds, PTL DEF MobileSpec

-----------------------------------------------------------------------------
(* Sessions and their keys.                                                    *)

\* A session that is stored but not in the store is on its way there, or waits
\* for the launch or behind the gate: no sign-in can start next to it. A sign-in
\* is alone, and from the storing of its key on that is the key stored.
OnItsWay ==
    \/ gate.loading /\ disk.lock # {}
    \/ gate.locked
    \/ ~mem.restored
    \/ "reading" \in hydrating
    \/ disk.session \in hydrating

KeyFits ==
    /\ mem.session # NoWallet => disk.key = mem.session
    /\ disk.session # NoWallet => disk.key = disk.session
    /\ \A w \in hydrating \cap Wallets : w = disk.session
    /\ connect # {} => disk.session = NoWallet /\ mem.session = NoWallet
    /\ \A c \in connect : connect = {c} /\ (c.at # "storing" => disk.key = c.who)
    /\ disk.session # NoWallet /\ mem.session = NoWallet => OnItsWay
    /\ ~mem.restored => \A s \in hydrating \cap Sessions : s = disk.session

KeyInv ==
    /\ mem.session # NoWallet \/ connect # {} => mem.restored
    /\ disk.lock # {} /\ ~mem.restored /\ hydrating = {} => gate.loading \/ gate.locked
    /\ ~ghost.overlapped => KeyFits

\* A step that leaves alone all this speaks of.
LEMMA KeyKept ==
    ASSUME KeyInv, UNCHANGED <<disk, hydrating, connect>>, gate'.loading = gate.loading, gate'.locked = gate.locked,
           mem'.session = mem.session, mem'.restored = mem.restored, ghost'.overlapped = ghost.overlapped
    PROVE  KeyInv'
BY DEF KeyInv, KeyFits, OnItsWay

\* The device is cleared; what is under way counts as an overlap.
LEMMA DeviceCleared ==
    ASSUME UNCHANGED <<hydrating, connect>>, mem'.session = NoWallet, mem'.restored,
           disk'.session = NoWallet, ghost'.overlapped = (ghost.overlapped \/ hydrating # {} \/ connect # {})
    PROVE  KeyInv'
BY DEF KeyInv, KeyFits, OnItsWay

LEMMA SignOutFits ==
    ASSUME MobileTypeOK, KeyInv, NEW fs, NEW g \in Ghosts, g.overlapped = ghost.overlapped, Logout(fs, g),
           UNCHANGED <<gate, hydrating, connect>>
    PROVE  KeyInv'
<1>1. CASE mem.session # NoWallet
  BY <1>1, KeyKept DEF Logout
<1>2. CASE mem.session = NoWallet
  <2>1. mem' = Cleared(mem) /\ disk' = Deleted(disk) /\ ghost' = Overlap(g)
    BY <1>2 DEF Logout
  <2> QED BY <2>1, SignedOut, OverlapOf, DeviceCleared DEF MobileTypeOK
<1> QED BY <1>1, <1>2

LEMMA KeyStep ==
    ASSUME MobileTypeOK, GateInv, KeyInv, MobileNext
    PROVE  KeyInv'
<1>1. CASE HandleLogout
  <2>1. PICK g : g = [ghost EXCEPT !.abandoned = @ \/ InFlight # {}]
    OBVIOUS
  <2>2. g \in Ghosts /\ g.overlapped = ghost.overlapped
    BY <2>1 DEF MobileTypeOK, Ghosts
  <2>3. Logout(fetches, g) /\ UNCHANGED <<gate, hydrating, connect>>
    BY <1>1, <2>1 DEF HandleLogout
  <2> QED BY <2>2, <2>3, SignOutFits
<1>2. CASE \E w \in Wallets : LogoutAnswered(w)
  <2>1. mem' = Cleared(mem) /\ disk' = Deleted(disk) /\ ghost' = Overlap(ghost) /\ UNCHANGED <<hydrating, connect>>
    BY <1>2 DEF LogoutAnswered
  <2> QED BY <2>1, SignedOut, OverlapOf, DeviceCleared DEF MobileTypeOK
<1>3. CASE \E w \in Wallets : StartConnect(w)
  <2>1. PICK w \in Wallets : StartConnect(w)
    BY <1>3
  <2>2. ghost'.overlapped = (ghost.overlapped \/ SessionWork)
    BY <2>1 DEF StartConnect, MobileTypeOK, Ghosts
  <2>3. /\ connect' = connect \cup {[at |-> "storing", who |-> w]} /\ UNCHANGED <<disk, mem, gate, hydrating>>
        /\ ~gate.loading /\ ~gate.locked /\ mem.restored /\ mem.session = NoWallet
    BY <2>1 DEF StartConnect, Foreground
  <2>4. ~ghost'.overlapped => hydrating = {} /\ connect = {} /\ ~ghost.overlapped
    BY <2>2 DEF SessionWork
  <2>5. ~ghost'.overlapped => disk.session = NoWallet
    BY <2>3, <2>4 DEF KeyInv, KeyFits, OnItsWay
  <2> QED BY <2>3, <2>4, <2>5 DEF KeyInv, KeyFits
<1>4. CASE \E c \in connect : StoreKey(c) \/ ReceiveNonce(c)
  <2>1. PICK c \in connect : StoreKey(c) \/ ReceiveNonce(c)
    BY <1>4
  <2>2. PICK d : d = [c EXCEPT !.at = IF StoreKey(c) THEN "nonce" ELSE "verify"]
    OBVIOUS
  <2>3. connect' = (connect \ {c}) \cup {d} /\ d.who = c.who
    <3>1. c \in Connects
      BY DEF MobileTypeOK
    <3>2. d.who = c.who
      BY <2>2, <3>1 DEF Connects
    <3> QED BY <2>1, <2>2, <3>2 DEF StoreKey, ReceiveNonce, Onwards
  <2>4. /\ UNCHANGED <<gate, hydrating, ghost>> /\ mem'.session = mem.session /\ mem'.restored = mem.restored
        /\ disk'.session = disk.session /\ disk'.lock = disk.lock
        /\ disk'.key = IF StoreKey(c) THEN c.who ELSE disk.key
    BY <2>1 DEF StoreKey, ReceiveNonce, MobileTypeOK, Memories, Disks
  <2>5. ~StoreKey(c) => c.at = "nonce"
    BY <2>1 DEF ReceiveNonce
  <2>6. ~ghost.overlapped => connect' = {d} /\ disk'.key = d.who
    BY <2>3, <2>4, <2>5 DEF KeyInv, KeyFits
  <2> QED BY <2>4, <2>6 DEF KeyInv, KeyFits, OnItsWay
<1>5. CASE \E c \in connect : Verify(c)
  <2>1. PICK c \in connect : Verify(c)
    BY <1>5
  <2>2. c.at = "verify" /\ connect' = connect \ {c} /\ c.who \in Wallets /\ UNCHANGED <<gate, hydrating, ghost>>
    BY <2>1 DEF Verify, Connects, MobileTypeOK
  <2>3. mem'.session = c.who /\ mem'.restored = mem.restored /\ disk'.session = c.who
        /\ disk'.key = disk.key /\ disk'.lock = disk.lock
    BY <2>1 DEF Verify, MobileTypeOK, Memories, Disks
  <2>4. mem.restored
    BY DEF KeyInv
  <2>5. NoWallet \notin Wallets
    BY MobileAssumption
  <2>6. ~ghost.overlapped => hydrating \cap Wallets = {} /\ disk.key = c.who /\ connect' = {}
    BY <2>2, <2>5 DEF KeyInv, KeyFits
  <2> QED BY <2>2, <2>3, <2>4, <2>5, <2>6 DEF KeyInv, KeyFits
<1>6. CASE \E c \in connect : ConnectFails(c)
  <2>1. connect' \subseteq connect /\ mem'.session = mem.session /\ mem'.restored = mem.restored
        /\ UNCHANGED <<disk, gate, hydrating, ghost>>
    BY <1>6 DEF ConnectFails, MobileTypeOK, Memories
  <2>2. ~ghost.overlapped => connect' = {} \/ connect' = connect
    BY <2>1 DEF KeyInv, KeyFits
  <2> QED BY <2>1, <2>2 DEF KeyInv, KeyFits, OnItsWay
<1>7. CASE LaunchHydration
  <2>1. UNCHANGED <<disk, gate, connect, ghost>> /\ ~mem.restored /\ hydrating = {} /\ mem'.session = mem.session
        /\ mem.session = NoWallet /\ connect = {}
    BY <1>7 DEF LaunchHydration, MobileTypeOK, Memories, KeyInv
  <2>2. CASE disk.lock = {}
    <3>1. hydrating' = {"reading"} /\ UNCHANGED mem
      BY <1>7, <2>2 DEF LaunchHydration, LaunchHydrates
    <3>2. "reading" \notin Sessions
      BY MobileAssumption DEF Sessions
    <3> QED BY <2>1, <2>2, <3>1, <3>2 DEF KeyInv, KeyFits, OnItsWay, Sessions
  <2>3. CASE disk.lock # {}
    <3>1. mem'.restored /\ UNCHANGED hydrating
      BY <1>7, <2>3 DEF LaunchHydration, LaunchHydrates, MobileTypeOK, Memories
    <3> QED BY <2>1, <2>3, <3>1 DEF KeyInv, KeyFits, OnItsWay
  <2> QED BY <2>2, <2>3
<1>8. CASE ReadGateState
  <2>1. UNCHANGED <<disk, mem, hydrating, connect>> /\ gate.loading /\ gate'.locked = (disk.lock # {})
        /\ ghost'.overlapped = ghost.overlapped /\ ~gate.locked
    BY <1>8 DEF ReadGateState, MobileTypeOK, Gates, Ghosts, GateInv
  <2> QED BY <2>1 DEF KeyInv, KeyFits, OnItsWay
<1>9. CASE ReadSecrets
  <2>1. UNCHANGED <<disk, mem, gate, connect, ghost>> /\ hydrating' = (hydrating \ {"reading"}) \cup {disk.session}
    BY <1>9 DEF ReadSecrets
  <2> QED BY <2>1 DEF KeyInv, KeyFits, OnItsWay
<1>10. CASE \E s \in Sessions : SetSecrets(s)
  <2>1. PICK s \in Sessions : SetSecrets(s)
    BY <1>10
  <2>2. UNCHANGED <<disk, gate, connect>> /\ s \in hydrating /\ hydrating' = hydrating \ {s} /\ mem'.restored
        /\ mem'.session = (IF s = NoWallet THEN mem.session ELSE s) /\ UNCHANGED ghost
    BY <2>1 DEF SetSecrets, MobileTypeOK, Memories
  <2>3. s # "reading"
    BY MobileAssumption DEF Sessions
  <2>4. ~ghost.overlapped /\ s # NoWallet => s = disk.session
    BY <2>2 DEF KeyInv, KeyFits, Sessions
  <2>5. CASE s = NoWallet
    <3>1. ~ghost.overlapped /\ disk.session # NoWallet => mem.restored
      BY <2>2, <2>5 DEF KeyInv, KeyFits
    <3> QED BY <2>2, <2>3, <2>5, <3>1 DEF KeyInv, KeyFits, OnItsWay
  <2>6. CASE s # NoWallet
    BY <2>2, <2>3, <2>4, <2>6 DEF KeyInv, KeyFits, OnItsWay
  <2> QED BY <2>5, <2>6
<1>11. CASE (\E method \in {"bio", "pin"} : EnrollLock(method)) \/ DisableLock
  <2>1. mem.session # NoWallet /\ UNCHANGED <<mem, hydrating, connect, ghost>>
        /\ disk'.session = disk.session /\ disk'.key = disk.key
    BY <1>11 DEF EnrollLock, DisableLock, MobileTypeOK, Disks
  <2> QED BY <2>1 DEF KeyInv, KeyFits
<1>12. CASE ComeBack
  <2>1. CASE UNCHANGED <<mem, gate, ghost>>
    BY <1>12, <2>1, KeyKept DEF ComeBack
  <2>2. CASE /\ mem' = WipeHotSecretsFromStore(mem) /\ gate' = [gate EXCEPT !.locked = TRUE]
             /\ ghost' = [ghost EXCEPT !.late = hydrating # {} \/ connect # {}, !.proved = FALSE]
    <3>1. mem'.session = NoWallet /\ mem'.restored = mem.restored /\ gate'.locked /\ ghost'.overlapped = ghost.overlapped
      BY <2>2 DEF WipeHotSecretsFromStore, MobileTypeOK, Memories, Gates, Ghosts
    <3>2. UNCHANGED <<disk, hydrating, connect>>
      BY <1>12 DEF ComeBack
    <3> QED BY <3>1, <3>2 DEF KeyInv, KeyFits, OnItsWay
  <2> QED BY <1>12, <2>1, <2>2 DEF ComeBack
<1>13. CASE TurnToPin
  <2>1. gate'.locked = gate.locked /\ gate'.loading = gate.loading /\ UNCHANGED <<disk, mem, hydrating, connect, ghost>>
    BY <1>13 DEF TurnToPin, MobileTypeOK, Gates
  <2> QED BY <2>1, KeyKept
<1>14. CASE UnlockWithBiometrics \/ UnlockWithPin \/ AutoPromptHalfPassed
  <2>1. UNCHANGED <<disk, mem, connect>> /\ hydrating' = hydrating \cup {"reading"}
    BY <1>14 DEF UnlockWithBiometrics, UnlockWithPin, AutoPromptHalfPassed, LiftGate
  <2>2. ghost'.overlapped = ghost.overlapped
    BY <1>14 DEF UnlockWithBiometrics, UnlockWithPin, AutoPromptHalfPassed, LiftGate, MobileTypeOK, Ghosts
  <2>3. "reading" \notin Sessions
    BY MobileAssumption DEF Sessions
  <2> QED BY <2>1, <2>2, <2>3 DEF KeyInv, KeyFits, OnItsWay, Sessions
<1>15. CASE ForgotPin
  <2>1. PICK g : g = Overlap(ghost)
    OBVIOUS
  <2>2. g \in Ghosts /\ g.overlapped = (ghost.overlapped \/ hydrating # {} \/ connect # {})
    BY <2>1, OverlapOf DEF MobileTypeOK
  <2>3. ghost' = [g EXCEPT !.overlapped = @ \/ mem.session # NoWallet]
    BY <1>15, <2>1 DEF ForgotPin
  <2>4. ghost'.overlapped = (ghost.overlapped \/ hydrating # {} \/ connect # {} \/ mem.session # NoWallet)
    BY <2>2, <2>3 DEF Ghosts
  <2>5. disk'.session = NoWallet /\ disk'.lock = {} /\ UNCHANGED <<mem, hydrating, connect>>
    BY <1>15, SignedOut DEF ForgotPin, MobileTypeOK, Disks
  <2> QED BY <2>4, <2>5 DEF KeyInv, KeyFits, OnItsWay
<1>16. CASE Relaunch
  <2>1. UNCHANGED disk /\ mem'.session = NoWallet /\ ~mem'.restored /\ gate'.loading /\ hydrating' = {} /\ connect' = {}
        /\ ghost'.overlapped = ghost.overlapped
    BY <1>16 DEF Relaunch, FreshMemory, FreshGate, MobileTypeOK, Ghosts
  <2> QED BY <2>1 DEF KeyInv, KeyFits, OnItsWay
<1>17. CASE \E f \in fetches : FetchUnauthorized(f)
  <2>1. PICK f \in fetches : FetchUnauthorized(f)
    BY <1>17
  <2>2. UNCHANGED <<gate, hydrating, connect>> /\ ghost \in Ghosts
    BY <2>1 DEF FetchUnauthorized, MobileTypeOK
  <2>3. CASE SignsOut
    <3>1. Logout(fetches \ {f}, ghost)
      BY <2>1, <2>3 DEF FetchUnauthorized
    <3> QED BY <2>2, <3>1, SignOutFits
  <2>4. CASE ~SignsOut
    <3>1. UNCHANGED <<disk, mem, ghost>>
      BY <2>1, <2>4 DEF FetchUnauthorized
    <3> QED BY <2>2, <3>1, KeyKept
  <2> QED BY <2>3, <2>4
<1>18. CASE \/ HydrateDashboard \/ RefreshDashboard \/ MountLendingScreen \/ GoAway
            \/ \E w \in Wallets : SessionExpires(w)
            \/ \E f \in fetches : FetchSucceeds(f) \/ FetchRetried(f) \/ FetchGivenUp(f)
  <2>1. /\ UNCHANGED <<disk, gate, hydrating, connect>> /\ mem'.session = mem.session
        /\ mem'.restored = mem.restored /\ ghost'.overlapped = ghost.overlapped
    BY <1>18 DEF HydrateDashboard, RefreshDashboard, MountLendingScreen, StartFetches, GoAway, SessionExpires,
                 FetchSucceeds, FetchRetried, FetchGivenUp, MobileTypeOK, Memories, Ghosts
  <2> QED BY <2>1, KeyKept
<1>19. CASE \E l \in Lendings : \/ Deposit(l) \/ Borrow(l) \/ Repay(l) \/ LendingStep(l) \/ LendingHangs(l)
                                \/ \E o \in {"SUCCESS", "FAILED"} : LendingLands(l, o)
  <2>1. mem \in Memories /\ ghost \in Ghosts
    BY DEF MobileTypeOK
  <2>2. ASSUME NEW l, Deposit(l) \/ Borrow(l) \/ Repay(l) PROVE KeyInv'
    <3>1. UNCHANGED <<disk, gate, hydrating, connect>> /\ mem'.session = mem.session
      BY <2>1, <2>2 DEF Deposit, Borrow, Repay, StartLending, Memories
    <3>2. mem'.restored = mem.restored /\ ghost'.overlapped = ghost.overlapped
      BY <2>1, <2>2 DEF Deposit, Borrow, Repay, StartLending, Memories, Ghosts
    <3> QED BY <3>1, <3>2, KeyKept
  <2>3. ASSUME NEW l, SendLending(l) \/ LendingHangs(l) PROVE KeyInv'
    BY <2>3, KeyKept DEF SendLending, LendingHangs
  <2>4. ASSUME NEW l, ConfirmLending(l) \/ RollBackLending(l) PROVE KeyInv'
    <3>1. UNCHANGED <<disk, gate, hydrating, connect>> /\ ghost'.overlapped = ghost.overlapped
      BY <2>1, <2>4 DEF ConfirmLending, RollBackLending, Ghosts
    <3>2. mem'.session = mem.session /\ mem'.restored = mem.restored
      BY <2>1, <2>4 DEF ConfirmLending, RollBackLending, RolledBack, Memories
    <3> QED BY <3>1, <3>2, KeyKept
  <2>5. ASSUME NEW l, NEW o, LendingLands(l, o) PROVE KeyInv'
    <3>1. UNCHANGED <<disk, mem, gate, hydrating, connect, ghost>>
      BY <2>5 DEF LendingLands
    <3> QED BY <3>1, KeyKept
  <2> QED BY <1>19, <2>2, <2>3, <2>4, <2>5 DEF LendingStep
<1> QED BY <1>1, <1>2, <1>3, <1>4, <1>5, <1>6, <1>7, <1>8, <1>9, <1>10, <1>11, <1>12, <1>13, <1>14,
           <1>15, <1>16, <1>17, <1>18, <1>19 DEF MobileNext, ConnectStep

(* A session in the store has its own key stored beside it, over sign-ins,     *)
(* sign-outs, relaunches and unlocks that do not overlap (SessionHasItsKey).   *)
THEOREM SessionsKeepTheirKey == MobileSpec => []SessionHasItsKey
<1>1. MobileInit => KeyInv
  BY DEF MobileInit, FreshMemory, FreshGate, KeyInv, KeyFits
<1>2. MobileInit => GateInv
  BY DEF MobileInit, FreshMemory, FreshGate, GateInv, Quiet
<1>3. KeyInv /\ UNCHANGED mobileVars => KeyInv'
  BY KeyKept DEF mobileVars
<1>4. GateInv /\ UNCHANGED mobileVars => GateInv'
  BY DEF mobileVars, GateInv, Quiet
<1>5. KeyInv => SessionHasItsKey
  BY DEF KeyInv, KeyFits, SessionHasItsKey
<1> QED BY <1>1, <1>2, <1>3, <1>4, <1>5, KeyStep, GateStep, MobileTypeHolds, PTL DEF MobileSpec

-----------------------------------------------------------------------------
(* The stored key: types.                                                      *)

KeysOrNone == Keys \cup {NoKey}
Vaults == [key : KeysOrNone, guarded : BOOLEAN, backup : BOOLEAN, bio : BOOLEAN, pin : BOOLEAN]
Screens == [name : {"connect", "home", "settings"}, needsBackup : BOOLEAN, backedUp : BOOLEAN,
            generated : KeysOrNone, loading : {"none", "generate", "import"}, busy : BOOLEAN,
            wizard : {"none", "choose", "pinSet", "pinConfirm", "disableBio", "disablePin"}]
Joinings == [at : {"storing", "authenticating"}, key : KeysOrNone, guard : BOOLEAN, generated : BOOLEAN,
             here : BOOLEAN]
Jobs == [on : BOOLEAN, at : {"prompt", "read", "write"}, key : KeysOrNone]
Sheets == [open : BOOLEAN, step : {"reveal", "confirm", "success"}, held : KeysOrNone, shown : BOOLEAN,
           timer : BOOLEAN, export : {"warning", "export", "exported"}]
Boards == [has : {"other", "secret"}, wipe : BOOLEAN, paste : BOOLEAN]
Pasts == [raced : BOOLEAN, refused : BOOLEAN, untimed : BOOLEAN, loose : BOOLEAN]

CustodyTypeOK ==
    /\ vault \in Vaults /\ screen \in Screens /\ joining \in SUBSET Joinings /\ jobs \in SUBSET Jobs
    /\ sheet \in Sheets /\ board \in Boards /\ past \in Pasts

LEMMA MountedTyped ==
    ASSUME NEW v \in Vaults, NEW name \in {"connect", "home", "settings"}
    PROVE  Mounted(name, v) \in Screens /\ Mounted(name, v).name = name
BY DEF Mounted, Vaults, Screens, KeysOrNone

LEMMA FreshTyped == HiddenSheet \in Sheets /\ ~HiddenSheet.open
BY DEF HiddenSheet, Sheets, KeysOrNone

\* The screen goes; what it started goes on.
LEMMA OrphansTyped ==
    ASSUME NEW js \in SUBSET Joinings
    PROVE  Orphans(js) \in SUBSET Joinings /\ \A i \in Orphans(js) : \E j \in js : i.guard = j.guard
<1>1. \A j \in Joinings : [j EXCEPT !.here = FALSE] \in Joinings /\ [j EXCEPT !.here = FALSE].guard = j.guard
  BY DEF Joinings
<1> QED BY <1>1 DEF Orphans

LEMMA UnmountedTyped ==
    ASSUME CustodyTypeOK, Unmounted
    PROVE  sheet' \in Sheets /\ board' \in Boards /\ ~sheet'.open /\ ~board'.wipe /\ board'.has = board.has
BY FreshTyped DEF CustodyTypeOK, Unmounted, Boards

LEMMA StoreTyped ==
    ASSUME CustodyTypeOK, NEW k \in KeysOrNone, NEW guard \in BOOLEAN, StoreSecretKey(vault, k, guard)
    PROVE  /\ vault' \in Vaults /\ past' \in Pasts
           /\ past'.raced = past.raced /\ past'.untimed = past.untimed /\ past'.loose = past.loose
           /\ vault'.bio = vault.bio /\ (~past'.refused => vault'.guarded = guard)
<1>1. PICK g \in BOOLEAN : /\ vault' = [vault EXCEPT !.key = k, !.guarded = g]
                           /\ past' = [past EXCEPT !.refused = guard /\ ~g]
                           /\ g => guard
  BY DEF StoreSecretKey
<1> QED BY <1>1 DEF CustodyTypeOK, Vaults, Pasts

LEMMA JobOverTyped ==
    ASSUME CustodyTypeOK, NEW j \in jobs, NEW w \in {"none", "choose", "pinSet", "pinConfirm", "disableBio", "disablePin"},
           JobOver(j, w)
    PROVE  /\ screen' \in Screens /\ screen'.name = screen.name /\ jobs' = jobs \ {j} /\ jobs' \in SUBSET Jobs
BY DEF JobOver, CustodyTypeOK, Screens

LEMMA TurnTyped ==
    ASSUME CustodyTypeOK, NEW s \in Sheets, Turn(s)
    PROVE  CustodyTypeOK'
BY DEF Turn, CustodyTypeOK

LEMMA MaskedTyped ==
    ASSUME NEW s \in Sheets
    PROVE  /\ Masked(s) \in Sheets /\ ~Masked(s).shown /\ Masked(s).open = s.open /\ Masked(s).step = s.step
BY DEF Masked, Sheets, KeysOrNone

LEMMA ToConnectTyped ==
    ASSUME CustodyTypeOK, NEW v \in Vaults, ToConnect(v)
    PROVE  /\ vault' = v /\ screen' \in Screens /\ screen'.name = "connect" /\ sheet' \in Sheets /\ ~sheet'.open
           /\ board' \in Boards /\ board'.has = "other" /\ past' \in Pasts /\ past'.raced = (past.raced \/ jobs # {} \/ joining # {})
BY MountedTyped, FreshTyped DEF ToConnect, CustodyTypeOK, Boards, Pasts

LEMMA WipedTyped ==
    /\ vault \in Vaults => Wiped(vault) \in Vaults /\ Wiped(vault).key = NoKey
    /\ vault \in Vaults => [Wiped(vault) EXCEPT !.bio = FALSE, !.pin = FALSE] \in Vaults
                           /\ [Wiped(vault) EXCEPT !.bio = FALSE, !.pin = FALSE].key = NoKey
BY DEF Wiped, Vaults, KeysOrNone

LEMMA CustodyStepTyped ==
    ASSUME CustodyTypeOK, CustodyNext
    PROVE  CustodyTypeOK'
<1>1. CASE OpenSettings
  BY <1>1, MountedTyped DEF OpenSettings, CustodyTypeOK
<1>2. CASE LeaveSettings
  <2>1. past' \in Pasts
    BY <1>2 DEF LeaveSettings, CustodyTypeOK, Pasts
  <2> QED BY <1>2, <2>1, MountedTyped, UnmountedTyped DEF LeaveSettings, CustodyTypeOK
<1>3. CASE SignOut \/ ForgetPin
  BY <1>3, ToConnectTyped, WipedTyped DEF SignOut, ForgetPin, CustodyTypeOK
<1>4. CASE ProcessDies
  <2>1. past' \in Pasts
    BY <1>4 DEF ProcessDies, CustodyTypeOK, Pasts
  <2> QED BY <1>4, <2>1, MountedTyped, UnmountedTyped, FreshTyped DEF ProcessDies, CustodyTypeOK
<1>5. CASE \E k \in Keys, g \in BOOLEAN : StartWallet(k, g)
  <2>1. past' \in Pasts /\ screen' \in Screens
    BY <1>5 DEF StartWallet, CustodyTypeOK, Pasts, Screens, KeysOrNone
  <2>2. PICK k \in Keys, g \in BOOLEAN : StartWallet(k, g)
    BY <1>5
  <2>3. [at |-> "storing", key |-> k, guard |-> vault.bio, generated |-> g, here |-> TRUE] \in Joinings
    BY DEF CustodyTypeOK, Joinings, Vaults, KeysOrNone
  <2> QED BY <2>1, <2>2, <2>3 DEF StartWallet, CustodyTypeOK
<1>6. CASE \E j \in joining : StoreWallet(j)
  <2>1. PICK j \in joining : StoreWallet(j)
    BY <1>6
  <2>2. j \in Joinings /\ j.key \in KeysOrNone /\ j.guard \in BOOLEAN
    BY DEF CustodyTypeOK, Joinings
  <2>3. [j EXCEPT !.at = "authenticating"] \in Joinings
    BY <2>2 DEF Joinings
  <2>4. joining' \in SUBSET Joinings /\ screen' \in Screens
    BY <2>1, <2>2, <2>3 DEF StoreWallet, CustodyTypeOK, Screens
  <2> QED BY <2>1, <2>2, <2>4, StoreTyped DEF StoreWallet, CustodyTypeOK
<1>7. CASE \E j \in joining : SignedIn(j)
  <2>1. PICK j \in joining : SignedIn(j)
    BY <1>7
  <2>2. past' \in Pasts
    BY <2>1 DEF SignedIn, CustodyTypeOK, Pasts
  <2>3. joining \ {j} \in SUBSET Joinings
    BY DEF CustodyTypeOK
  <2>4. joining' \in SUBSET Joinings
    BY <2>1, <2>3, OrphansTyped DEF SignedIn
  <2> QED BY <2>1, <2>2, <2>4, MountedTyped, UnmountedTyped DEF SignedIn, CustodyTypeOK
<1>8. CASE \E j \in joining : SignInFails(j)
  <2>1. PICK j \in joining : SignInFails(j)
    BY <1>8
  <2>2. sheet' \in Sheets /\ screen' \in Screens
    BY <2>1 DEF SignInFails, CustodyTypeOK, Sheets, Screens
  <2>3. past' \in Pasts
    BY <2>1 DEF SignInFails, CustodyTypeOK, Pasts, Sheets
  <2> QED BY <2>1, <2>2, <2>3 DEF SignInFails, CustodyTypeOK
<1>9. CASE ImportRefused
  <2>1. screen' \in Screens
    BY <1>9 DEF ImportRefused, CustodyTypeOK, Screens, KeysOrNone
  <2> QED BY <1>9, <2>1 DEF ImportRefused, CustodyTypeOK
<1>10. CASE HandlePaste \/ WipeTimer \/ Background
  <2>1. board' \in Boards /\ past' \in Pasts
    BY <1>10 DEF HandlePaste, WipeTimer, Background, Emptied, CustodyTypeOK, Boards, Pasts
  <2> QED BY <1>10, <2>1 DEF HandlePaste, WipeTimer, Background, CustodyTypeOK
<1>11. CASE HandleToggleAppLock \/ CloseWizard \/ BeginPinEnroll \/ PinSetNext
  <2>1. screen' \in Screens
    BY <1>11 DEF HandleToggleAppLock, ToggleStep, CloseWizard, BeginPinEnroll, PinSetNext, Wizard, CustodyTypeOK, Screens
  <2> QED BY <1>11, <2>1 DEF HandleToggleAppLock, CloseWizard, BeginPinEnroll, PinSetNext, Wizard, CustodyTypeOK
<1>12. CASE PinConfirm
  <2>1. screen' \in Screens /\ vault' \in Vaults
    BY <1>12 DEF PinConfirm, CustodyTypeOK, Screens, Vaults
  <2> QED BY <1>12, <2>1 DEF PinConfirm, CustodyTypeOK
<1>13. CASE EnrollBiometrics \/ HandleDisableWithPin
  <2>1. PICK step \in {"choose", "disableBio", "disablePin"}, on \in BOOLEAN : StartJob(step, on)
    BY <1>13 DEF EnrollBiometrics, HandleDisableWithPin
  <2>2. screen' \in Screens /\ past' \in Pasts
    BY <2>1 DEF StartJob, CustodyTypeOK, Screens, Pasts
  <2>3. [on |-> on, at |-> "prompt", key |-> NoKey] \in Jobs
    BY DEF Jobs, KeysOrNone
  <2> QED BY <2>1, <2>2, <2>3 DEF StartJob, CustodyTypeOK
<1>14. CASE \E j \in jobs : PromptAnswered(j)
  <2>1. PICK j \in jobs : PromptAnswered(j)
    BY <1>14
  <2>2. vault' \in Vaults
    BY <2>1 DEF PromptAnswered, CustodyTypeOK, Vaults
  <2>3. [j EXCEPT !.at = "read"] \in Jobs
    BY <2>1 DEF CustodyTypeOK, Jobs
  <2>4. screen.wizard \in {"none", "choose", "pinSet", "pinConfirm", "disableBio", "disablePin"}
    BY DEF CustodyTypeOK, Screens
  <2>5. screen' \in Screens /\ jobs' \in SUBSET Jobs
    <3>1. CASE JobOver(j, screen.wizard)
      BY <2>4, <3>1, JobOverTyped
    <3>2. CASE UNCHANGED screen /\ jobs' = (jobs \ {j}) \cup {[j EXCEPT !.at = "read"]}
      BY <2>3, <3>2 DEF CustodyTypeOK
    <3> QED BY <2>1, <3>1, <3>2 DEF PromptAnswered
  <2> QED BY <2>1, <2>2, <2>5 DEF PromptAnswered, CustodyTypeOK
<1>15. CASE \E j \in jobs : ReadForPolicy(j)
  <2>1. PICK j \in jobs : ReadForPolicy(j)
    BY <1>15
  <2>2. PICK k \in Readable : IF k = NoKey
                              THEN JobOver(j, "none") /\ past' = [past EXCEPT !.refused = @ \/ vault.key # NoKey]
                              ELSE jobs' = (jobs \ {j}) \cup {[j EXCEPT !.at = "write", !.key = k]}
                                   /\ UNCHANGED <<screen, past>>
    BY <2>1 DEF ReadForPolicy
  <2>3. k \in KeysOrNone
    BY DEF Readable, KeysOrNone, CustodyTypeOK, Vaults
  <2>4. [j EXCEPT !.at = "write", !.key = k] \in Jobs
    BY <2>3 DEF CustodyTypeOK, Jobs
  <2>5. past' \in Pasts
    BY <2>2 DEF CustodyTypeOK, Pasts
  <2>6. screen' \in Screens /\ jobs' \in SUBSET Jobs
    BY <2>2, <2>4, JobOverTyped DEF CustodyTypeOK
  <2> QED BY <2>1, <2>5, <2>6 DEF ReadForPolicy, CustodyTypeOK
<1>16. CASE \E j \in jobs : WriteForPolicy(j)
  <2>1. PICK j \in jobs : WriteForPolicy(j)
    BY <1>16
  <2>2. j.key \in KeysOrNone /\ Policy(j) \in BOOLEAN
    BY DEF CustodyTypeOK, Jobs, Policy
  <2> QED BY <2>1, <2>2, StoreTyped, JobOverTyped DEF WriteForPolicy, CustodyTypeOK
<1>17. CASE HandleExportWallet
  <2>1. sheet' \in Sheets /\ past' \in Pasts
    BY <1>17 DEF HandleExportWallet, CustodyTypeOK, Sheets, Pasts
  <2> QED BY <1>17, <2>1 DEF HandleExportWallet, CustodyTypeOK
<1>18. CASE HandleReveal \/ HandleConfirm \/ AskExport
  BY <1>18 DEF HandleReveal, HandleConfirm, AskExport, Ask, CustodyTypeOK
<1>19. CASE AutoHide
  BY <1>19, MaskedTyped DEF AutoHide, CustodyTypeOK
<1>20. CASE SavedIt \/ BackToReveal \/ HandleClose \/ ProceedExport \/ CloseExport
  <2>1. /\ Masked(sheet) \in Sheets /\ sheet \in Sheets
    BY MaskedTyped DEF CustodyTypeOK
  <2>2. /\ [Masked(sheet) EXCEPT !.step = "confirm"] \in Sheets
        /\ [sheet EXCEPT !.step = "reveal", !.shown = FALSE] \in Sheets
        /\ [Masked(sheet) EXCEPT !.open = FALSE, !.step = "reveal"] \in Sheets
        /\ [Masked(sheet) EXCEPT !.open = FALSE] \in Sheets
        /\ [sheet EXCEPT !.export = "export"] \in Sheets /\ [sheet EXCEPT !.export = "warning"] \in Sheets
    BY <2>1 DEF Sheets
  <2> QED BY <1>20, <2>2, TurnTyped DEF SavedIt, BackToReveal, HandleClose, ProceedExport, CloseExport, ExportTurn
<1>21. CASE CopyToClipboard
  <2>1. board' \in Boards /\ past' \in Pasts
    BY <1>21 DEF CopyToClipboard, CustodyTypeOK, Boards, Pasts
  <2> QED BY <1>21, <2>1 DEF CopyToClipboard, CustodyTypeOK
<1>22. CASE \E a \in asks : Reveal(a)
  <2>1. PICK a \in asks : Reveal(a)
    BY <1>22
  <2>2. Secrets(a) \subseteq KeysOrNone
    BY DEF Secrets, Readable, KeysOrNone, CustodyTypeOK, Vaults, Screens
  <2>3. sheet' \in Sheets
    BY <2>1, <2>2 DEF Reveal, CustodyTypeOK, Sheets
  <2>4. past' \in Pasts
    BY <2>1 DEF Reveal, CustodyTypeOK, Pasts
  <2> QED BY <2>1, <2>3, <2>4 DEF Reveal, CustodyTypeOK
<1>23. CASE \E a \in asks : Confirm(a)
  <2>1. PICK a \in asks : Confirm(a)
    BY <1>23
  <2>2. Masked(sheet) \in Sheets /\ sheet \in Sheets
    BY MaskedTyped DEF CustodyTypeOK
  <2>3. ConfirmedSheet(a) \in Sheets
    BY <2>2 DEF ConfirmedSheet, Sheets
  <2>4. vault' \in Vaults /\ screen' \in Screens
    BY <2>1 DEF Confirm, CustodyTypeOK, Vaults, Screens, KeysOrNone
  <2> QED BY <2>1, <2>3, <2>4 DEF Confirm, CustodyTypeOK
<1>24. CASE \E a \in asks : ExportCopied(a)
  <2>1. board' \in Boards /\ past' \in Pasts
    BY <1>24 DEF ExportCopied, CustodyTypeOK, Boards, Pasts
  <2> QED BY <1>24, <2>1 DEF ExportCopied, CustodyTypeOK
<1>25. CASE \E a \in asks : ExportWritten(a)
  <2>1. sheet' \in Sheets
    BY <1>25 DEF ExportWritten, CustodyTypeOK, Sheets
  <2> QED BY <1>25, <2>1 DEF ExportWritten, CustodyTypeOK
<1> QED BY <1>1, <1>2, <1>3, <1>4, <1>5, <1>6, <1>7, <1>8, <1>10, <1>11, <1>12, <1>13, <1>14, <1>15, <1>16, <1>17,
           <1>18, <1>19, <1>20, <1>21, <1>22, <1>23, <1>24, <1>25, <1>9 DEF CustodyNext

LEMMA CustodyTypeHolds == CustodySpec => []CustodyTypeOK
<1>1. CustodyInit => CustodyTypeOK
  <2> SUFFICES ASSUME CustodyInit PROVE CustodyTypeOK
    OBVIOUS
  <2>1. vault \in Vaults
    BY DEF CustodyInit, Vaults, KeysOrNone
  <2>2. screen \in Screens
    BY <2>1, MountedTyped DEF CustodyInit
  <2>3. board \in Boards /\ past \in Pasts /\ jobs \in SUBSET Jobs
    BY DEF CustodyInit, Boards, Pasts
  <2> QED BY <2>1, <2>2, <2>3, FreshTyped DEF CustodyInit, CustodyTypeOK
<1>2. CustodyTypeOK /\ UNCHANGED custodyVars => CustodyTypeOK'
  BY DEF CustodyTypeOK, custodyVars
<1> QED BY <1>1, <1>2, CustodyStepTyped, PTL DEF CustodySpec

-----------------------------------------------------------------------------
(* The key on the screen and on the clipboard.                                 *)

LEMMA TimedKept ==
    ASSUME RevealIsTimed, UNCHANGED sheet, past'.untimed = past.untimed
    PROVE  RevealIsTimed'
BY DEF RevealIsTimed

LEMMA TimedStep ==
    ASSUME CustodyTypeOK, RevealIsTimed, CustodyNext
    PROVE  RevealIsTimed'
<1>1. CASE OpenSettings \/ PinConfirm \/ HandleToggleAppLock \/ CloseWizard \/ BeginPinEnroll \/ PinSetNext
           \/ HandleReveal \/ HandleConfirm \/ AskExport \/ HandlePaste \/ ImportRefused
  BY <1>1, TimedKept DEF OpenSettings, PinConfirm, HandleToggleAppLock, CloseWizard, BeginPinEnroll, PinSetNext, Wizard,
                         HandleReveal, HandleConfirm, AskExport, Ask, HandlePaste, ImportRefused
<1>2. CASE LeaveSettings \/ ProcessDies \/ \E j \in joining : SignedIn(j)
  BY <1>2, UnmountedTyped, TimedKept DEF LeaveSettings, ProcessDies, SignedIn, RevealIsTimed
<1>3. CASE SignOut \/ ForgetPin
  BY <1>3, FreshTyped DEF SignOut, ForgetPin, ToConnect, RevealIsTimed
<1>4. CASE (\E k \in Keys, g \in BOOLEAN : StartWallet(k, g)) \/ EnrollBiometrics \/ HandleDisableWithPin
           \/ WipeTimer \/ Background \/ CopyToClipboard \/ \E a \in asks : ExportCopied(a)
  <2>1. UNCHANGED sheet
    BY <1>4 DEF StartWallet, EnrollBiometrics, HandleDisableWithPin, StartJob, WipeTimer, Background, CopyToClipboard,
                ExportCopied
  <2>2. past'.untimed = past.untimed
    BY <1>4 DEF StartWallet, EnrollBiometrics, HandleDisableWithPin, StartJob, WipeTimer, Background, CopyToClipboard,
                ExportCopied, CustodyTypeOK, Pasts
  <2> QED BY <2>1, <2>2, TimedKept
<1>5. CASE \E j \in joining : StoreWallet(j)
  BY <1>5, StoreTyped, TimedKept DEF StoreWallet, CustodyTypeOK, Joinings
<1>6. CASE \E j \in jobs : WriteForPolicy(j)
  <2>1. PICK j \in jobs : WriteForPolicy(j)
    BY <1>6
  <2>2. j.key \in KeysOrNone /\ Policy(j) \in BOOLEAN
    BY DEF CustodyTypeOK, Jobs, Policy
  <2> QED BY <2>1, <2>2, StoreTyped, TimedKept DEF WriteForPolicy
<1>7. CASE \E j \in jobs : PromptAnswered(j) \/ ReadForPolicy(j)
  <2>1. UNCHANGED sheet
    BY <1>7 DEF PromptAnswered, ReadForPolicy
  <2>2. past'.untimed = past.untimed
    BY <1>7 DEF PromptAnswered, ReadForPolicy, CustodyTypeOK, Pasts
  <2> QED BY <2>1, <2>2, TimedKept
<1>8. CASE (\E j \in joining : SignInFails(j)) \/ HandleExportWallet
  <2>1. CASE UNCHANGED <<sheet, past>>
    BY <2>1, TimedKept
  <2>2. CASE sheet' = [sheet EXCEPT !.open = TRUE, !.timer = FALSE] /\ past' = [past EXCEPT !.untimed = sheet.shown]
    BY <2>2 DEF CustodyTypeOK, Sheets, Pasts, RevealIsTimed
  <2> QED BY <1>8, <2>1, <2>2 DEF SignInFails, HandleExportWallet
<1>9. CASE AutoHide \/ SavedIt \/ BackToReveal \/ HandleClose \/ CloseExport
  <2>1. Masked(sheet) \in Sheets /\ ~Masked(sheet).shown /\ sheet \in Sheets
    BY MaskedTyped DEF CustodyTypeOK
  <2>2. ~sheet'.shown
    BY <1>9, <2>1 DEF AutoHide, SavedIt, BackToReveal, HandleClose, CloseExport, Turn, Sheets
  <2> QED BY <2>2 DEF RevealIsTimed
<1>10. CASE ProceedExport
  <2>1. UNCHANGED past /\ \E to \in {"export", "warning"} : sheet' = [sheet EXCEPT !.export = to]
    BY <1>10 DEF ProceedExport, ExportTurn, Turn
  <2>2. sheet'.open = sheet.open /\ sheet'.step = sheet.step /\ sheet'.shown = sheet.shown /\ sheet'.held = sheet.held
        /\ sheet'.timer = sheet.timer
    BY <2>1 DEF CustodyTypeOK, Sheets
  <2> QED BY <2>1, <2>2 DEF RevealIsTimed
<1>11. CASE \E a \in asks : ExportWritten(a)
  <2>1. UNCHANGED past /\ (sheet' = sheet \/ sheet' = [sheet EXCEPT !.export = "exported"])
    BY <1>11 DEF ExportWritten
  <2>2. sheet'.open = sheet.open /\ sheet'.step = sheet.step /\ sheet'.shown = sheet.shown /\ sheet'.held = sheet.held
        /\ sheet'.timer = sheet.timer
    BY <2>1 DEF CustodyTypeOK, Sheets
  <2> QED BY <2>1, <2>2 DEF RevealIsTimed
<1>12. CASE \E a \in asks : Reveal(a)
  <2>1. PICK a \in asks : Reveal(a)
    BY <1>12
  <2>2. PICK k \in Secrets(a) : /\ sheet' = IF k = NoKey \/ ~a.here THEN sheet
                                            ELSE [sheet EXCEPT !.held = k, !.shown = TRUE, !.timer = TRUE]
                                /\ past' = [past EXCEPT !.untimed = @ /\ sheet' = sheet]
    BY <2>1 DEF Reveal
  <2>3. CASE sheet' = sheet
    BY <2>2, <2>3, TimedKept DEF CustodyTypeOK, Pasts
  <2>4. CASE sheet' # sheet
    <3>1. sheet'.timer
      BY <2>2, <2>4 DEF CustodyTypeOK, Sheets
    <3> QED BY <3>1 DEF RevealIsTimed
  <2> QED BY <2>3, <2>4
<1>13. CASE \E a \in asks : Confirm(a)
  <2>1. PICK a \in asks : Confirm(a)
    BY <1>13
  <2>2. UNCHANGED past /\ (sheet' = sheet \/ sheet' = ConfirmedSheet(a))
    BY <2>1 DEF Confirm
  <2>3. Masked(sheet) \in Sheets /\ sheet \in Sheets
    BY MaskedTyped DEF CustodyTypeOK
  <2>4. sheet' = sheet \/ sheet'.step = "success"
    BY <2>2, <2>3 DEF ConfirmedSheet, Sheets
  <2> QED BY <2>2, <2>4, TimedKept DEF RevealIsTimed
<1> QED BY <1>1, <1>2, <1>3, <1>4, <1>5, <1>6, <1>7, <1>8, <1>9, <1>10, <1>11, <1>12, <1>13 DEF CustodyNext

LEMMA CopyKept ==
    ASSUME CopyIsWiped, UNCHANGED board, past'.loose = past.loose
    PROVE  CopyIsWiped'
BY DEF CopyIsWiped

LEMMA CopyStep ==
    ASSUME CustodyTypeOK, CopyIsWiped, CustodyNext
    PROVE  CopyIsWiped'
<1>1. CASE OpenSettings \/ PinConfirm \/ HandleToggleAppLock \/ CloseWizard \/ BeginPinEnroll \/ PinSetNext
           \/ HandleReveal \/ HandleConfirm \/ AskExport \/ ImportRefused
           \/ \E a \in asks : Confirm(a) \/ ExportWritten(a)
  BY <1>1, CopyKept DEF OpenSettings, PinConfirm, HandleToggleAppLock, CloseWizard, BeginPinEnroll, PinSetNext, Wizard,
                        HandleReveal, HandleConfirm, AskExport, Ask, ImportRefused, Confirm, ExportWritten
<1>2. CASE AutoHide \/ SavedIt \/ BackToReveal \/ HandleClose \/ CloseExport \/ ProceedExport
  BY <1>2, CopyKept DEF AutoHide, SavedIt, BackToReveal, HandleClose, CloseExport, ProceedExport, ExportTurn, Turn
<1>3. CASE LeaveSettings \/ ProcessDies \/ \E j \in joining : SignedIn(j)
  <2>1. CASE UNCHANGED <<board, past>>
    BY <2>1, CopyKept
  <2>2. CASE Unmounted /\ past'.loose = (past.loose \/ board.has = "secret")
    BY <2>2, UnmountedTyped DEF CopyIsWiped
  <2> QED BY <1>3, <2>1, <2>2 DEF LeaveSettings, ProcessDies, SignedIn, CustodyTypeOK, Pasts
<1>4. CASE SignOut \/ ForgetPin
  BY <1>4 DEF SignOut, ForgetPin, ToConnect, CopyIsWiped
<1>5. CASE \/ \E k \in Keys, g \in BOOLEAN : StartWallet(k, g)
           \/ EnrollBiometrics \/ HandleDisableWithPin \/ HandleExportWallet
           \/ \E j \in joining : SignInFails(j)
           \/ \E a \in asks : Reveal(a)
  <2>1. UNCHANGED board
    BY <1>5 DEF StartWallet, EnrollBiometrics, HandleDisableWithPin, StartJob, SignInFails, HandleExportWallet, Reveal
  <2>2. past'.loose = past.loose
    BY <1>5 DEF StartWallet, EnrollBiometrics, HandleDisableWithPin, StartJob, SignInFails, HandleExportWallet, Reveal,
                CustodyTypeOK, Pasts
  <2> QED BY <2>1, <2>2, CopyKept
<1>6. CASE \E j \in joining : StoreWallet(j)
  BY <1>6, StoreTyped, CopyKept DEF StoreWallet, CustodyTypeOK, Joinings
<1>7. CASE \E j \in jobs : WriteForPolicy(j)
  <2>1. PICK j \in jobs : WriteForPolicy(j)
    BY <1>7
  <2>2. j.key \in KeysOrNone /\ Policy(j) \in BOOLEAN
    BY DEF CustodyTypeOK, Jobs, Policy
  <2> QED BY <2>1, <2>2, StoreTyped, CopyKept DEF WriteForPolicy
<1>8. CASE \E j \in jobs : PromptAnswered(j) \/ ReadForPolicy(j)
  <2>1. UNCHANGED board
    BY <1>8 DEF PromptAnswered, ReadForPolicy
  <2>2. past'.loose = past.loose
    BY <1>8 DEF PromptAnswered, ReadForPolicy, CustodyTypeOK, Pasts
  <2> QED BY <2>1, <2>2, CopyKept
<1>9. CASE HandlePaste
  <2>1. UNCHANGED past /\ board'.has = board.has /\ board'.wipe = board.wipe
    BY <1>9 DEF HandlePaste, CustodyTypeOK, Boards
  <2> QED BY <2>1 DEF CopyIsWiped
<1>10. CASE WipeTimer \/ Background
  <2>1. board'.has = "other"
    BY <1>10 DEF WipeTimer, Background, Emptied, CustodyTypeOK, Boards
  <2> QED BY <2>1 DEF CopyIsWiped
<1>11. CASE CopyToClipboard
  <2>1. board'.wipe
    BY <1>11 DEF CopyToClipboard, CustodyTypeOK, Boards
  <2> QED BY <2>1 DEF CopyIsWiped
<1>12. CASE \E a \in asks : ExportCopied(a)
  <2>1. past'.loose \/ UNCHANGED <<board, past>>
    BY <1>12 DEF ExportCopied, CustodyTypeOK, Pasts
  <2> QED BY <2>1, CopyKept DEF CopyIsWiped
<1> QED BY <1>1, <1>2, <1>3, <1>4, <1>5, <1>6, <1>7, <1>8, <1>9, <1>10, <1>11, <1>12 DEF CustodyNext

-----------------------------------------------------------------------------
(* The key under the device's protection.                                      *)

\* Alone, a job knows the lock it set, and new wallets the one they read.
Settled == past.refused \/ vault.key = NoKey \/ vault.guarded = vault.bio

OneAtATime ==
    /\ \A i, j \in jobs : i = j
    /\ jobs # {} => joining = {}
    /\ \A j \in joining : j.guard = vault.bio
    /\ \A j \in jobs : j.at # "prompt" => vault.bio = j.on
    /\ (\A j \in jobs : j.at = "prompt") => Settled

FollowInv == ~past.raced => OneAtATime

LEMMA FollowKept ==
    ASSUME FollowInv, UNCHANGED <<vault, joining, jobs>>, past'.raced = past.raced, past'.refused = past.refused
    PROVE  FollowInv'
BY DEF FollowInv, OneAtATime, Settled

LEMMA FollowStep ==
    ASSUME CustodyTypeOK, FollowInv, CustodyNext
    PROVE  FollowInv'
<1>1. CASE HandleReveal \/ HandleConfirm \/ AskExport \/ HandlePaste \/ \E a \in asks : ExportWritten(a)
  BY <1>1, FollowKept DEF HandleReveal, HandleConfirm, AskExport, Ask, HandlePaste, ExportWritten
<1>2. CASE AutoHide \/ SavedIt \/ BackToReveal \/ HandleClose \/ CloseExport \/ ProceedExport
  BY <1>2, FollowKept DEF AutoHide, SavedIt, BackToReveal, HandleClose, CloseExport, ProceedExport, ExportTurn, Turn
<1>3. CASE HandleToggleAppLock \/ CloseWizard \/ BeginPinEnroll \/ PinSetNext \/ OpenSettings \/ ImportRefused
  BY <1>3, FollowKept DEF HandleToggleAppLock, CloseWizard, BeginPinEnroll, PinSetNext, Wizard, OpenSettings,
                          ImportRefused
<1>4. CASE LeaveSettings
  <2>1. past'.raced = past.raced /\ past'.refused = past.refused
    BY <1>4 DEF LeaveSettings, CustodyTypeOK, Pasts
  <2> QED BY <1>4, <2>1, FollowKept DEF LeaveSettings
<1>5. CASE SignOut \/ ForgetPin
  <2>1. UNCHANGED <<joining, jobs>>
    BY <1>5 DEF SignOut, ForgetPin
  <2>2. vault'.key = NoKey /\ past'.raced = (past.raced \/ jobs # {} \/ joining # {})
    BY <1>5, ToConnectTyped, WipedTyped DEF SignOut, ForgetPin, CustodyTypeOK
  <2> QED BY <2>1, <2>2 DEF FollowInv, OneAtATime, Settled
<1>6. CASE ProcessDies
  <2>1. past'.raced = (past.raced \/ jobs # {}) /\ past'.refused = past.refused
    BY <1>6 DEF ProcessDies, CustodyTypeOK, Pasts
  <2>2. jobs' = {} /\ joining' = {} /\ UNCHANGED vault
    BY <1>6 DEF ProcessDies
  <2> QED BY <2>1, <2>2 DEF FollowInv, OneAtATime, Settled
<1>7. CASE \E k \in Keys, g \in BOOLEAN : StartWallet(k, g)
  <2>1. PICK k \in Keys, g \in BOOLEAN : StartWallet(k, g)
    BY <1>7
  <2>2. past'.raced = (past.raced \/ jobs # {}) /\ past'.refused = past.refused
    BY <2>1 DEF StartWallet, CustodyTypeOK, Pasts
  <2>3. PICK j : j = [at |-> "storing", key |-> k, guard |-> vault.bio, generated |-> g, here |-> TRUE]
    OBVIOUS
  <2>4. joining' = joining \cup {j} /\ j.guard = vault.bio /\ UNCHANGED <<vault, jobs>>
    BY <2>1, <2>3 DEF StartWallet
  <2> QED BY <2>2, <2>4 DEF FollowInv, OneAtATime, Settled
<1>8. CASE \E j \in joining : StoreWallet(j)
  <2>1. PICK j \in joining : StoreWallet(j)
    BY <1>8
  <2>2. j \in Joinings /\ j.key \in KeysOrNone /\ j.guard \in BOOLEAN
    BY DEF CustodyTypeOK, Joinings
  <2>3. past'.raced = past.raced /\ vault'.bio = vault.bio /\ (~past'.refused => vault'.guarded = j.guard)
    BY <2>1, <2>2, StoreTyped DEF StoreWallet
  <2>4. PICK i : i = [j EXCEPT !.at = "authenticating"]
    OBVIOUS
  <2>5. joining' = (joining \ {j}) \cup {i} /\ i.guard = j.guard /\ UNCHANGED jobs
    BY <2>1, <2>2, <2>4 DEF StoreWallet, Joinings
  <2> QED BY <2>3, <2>5 DEF FollowInv, OneAtATime, Settled
<1>9. CASE \E j \in joining : SignedIn(j) \/ SignInFails(j)
  <2>1. PICK j \in joining : SignedIn(j) \/ SignInFails(j)
    BY <1>9
  <2>2. past'.raced = past.raced /\ past'.refused = past.refused /\ UNCHANGED <<vault, jobs>>
    BY <2>1 DEF SignedIn, SignInFails, CustodyTypeOK, Pasts
  <2>3. joining \ {j} \in SUBSET Joinings
    BY DEF CustodyTypeOK
  <2>4. \A i \in joining' : \E k \in joining : i.guard = k.guard
    BY <2>1, <2>3, OrphansTyped DEF SignedIn, SignInFails
  <2> QED BY <2>2, <2>4 DEF FollowInv, OneAtATime, Settled
<1>10. CASE PinConfirm
  <2>1. vault'.key = vault.key /\ vault'.bio = vault.bio /\ vault'.guarded = vault.guarded
    BY <1>10 DEF PinConfirm, CustodyTypeOK, Vaults
  <2>2. UNCHANGED <<joining, jobs, past>>
    BY <1>10 DEF PinConfirm
  <2> QED BY <2>1, <2>2 DEF FollowInv, OneAtATime, Settled
<1>11. CASE EnrollBiometrics \/ HandleDisableWithPin
  <2>1. PICK step \in {"choose", "disableBio", "disablePin"}, on \in BOOLEAN : StartJob(step, on)
    BY <1>11 DEF EnrollBiometrics, HandleDisableWithPin
  <2>2. past'.raced = (past.raced \/ jobs # {} \/ joining # {}) /\ past'.refused = past.refused
    BY <2>1 DEF StartJob, CustodyTypeOK, Pasts
  <2>3. PICK j : j = [on |-> on, at |-> "prompt", key |-> NoKey]
    OBVIOUS
  <2>4. jobs' = jobs \cup {j} /\ j.at = "prompt" /\ UNCHANGED <<vault, joining>>
    BY <2>1, <2>3 DEF StartJob
  <2> QED BY <2>2, <2>4 DEF FollowInv, OneAtATime, Settled
<1>12. CASE \E j \in jobs : PromptAnswered(j)
  <2>1. PICK j \in jobs : PromptAnswered(j)
    BY <1>12
  <2>2. UNCHANGED <<joining, past>>
    BY <2>1 DEF PromptAnswered
  <2>3. screen.wizard \in {"none", "choose", "pinSet", "pinConfirm", "disableBio", "disablePin"}
    BY DEF CustodyTypeOK, Screens
  <2>4. CASE JobOver(j, screen.wizard) /\ UNCHANGED vault
    <3>1. jobs' = jobs \ {j}
      BY <2>3, <2>4, JobOverTyped
    <3>2. j.at = "prompt"
      BY <2>1 DEF PromptAnswered
    <3> QED BY <2>2, <2>4, <3>1, <3>2 DEF FollowInv, OneAtATime, Settled
  <2>5. CASE /\ vault' = IF j.on THEN [vault EXCEPT !.bio = TRUE]
                         ELSE [vault EXCEPT !.bio = FALSE, !.pin = FALSE]
             /\ jobs' = (jobs \ {j}) \cup {[j EXCEPT !.at = "read"]}
             /\ UNCHANGED screen
    <3>1. PICK i : i = [j EXCEPT !.at = "read"]
      OBVIOUS
    <3>2. jobs' = (jobs \ {j}) \cup {i}
      BY <2>5, <3>1
    <3>3. i.at = "read" /\ i.on = j.on
      BY <3>1 DEF CustodyTypeOK, Jobs
    <3>4. vault'.bio = j.on
      BY <2>5 DEF CustodyTypeOK, Jobs, Vaults
    <3>5. ~past.raced => jobs' = {i} /\ joining = {}
      BY <3>2 DEF FollowInv, OneAtATime
    <3> QED BY <2>2, <2>5, <3>3, <3>4, <3>5 DEF FollowInv, OneAtATime, Settled
  <2> QED BY <2>1, <2>4, <2>5 DEF PromptAnswered
<1>13. CASE \E j \in jobs : ReadForPolicy(j)
  <2>1. PICK j \in jobs : ReadForPolicy(j)
    BY <1>13
  <2>2. UNCHANGED <<joining, vault>> /\ j.at = "read"
    BY <2>1 DEF ReadForPolicy
  <2>3. PICK k \in Readable : IF k = NoKey
                              THEN JobOver(j, "none") /\ past' = [past EXCEPT !.refused = @ \/ vault.key # NoKey]
                              ELSE jobs' = (jobs \ {j}) \cup {[j EXCEPT !.at = "write", !.key = k]}
                                   /\ UNCHANGED <<screen, past>>
    BY <2>1 DEF ReadForPolicy
  <2>4. CASE k = NoKey
    <3>1. jobs' = jobs \ {j}
      BY <2>3, <2>4, JobOverTyped
    <3>2. past'.raced = past.raced /\ past'.refused = (past.refused \/ vault.key # NoKey)
      BY <2>3, <2>4 DEF CustodyTypeOK, Pasts
    <3> QED BY <2>2, <3>1, <3>2 DEF FollowInv, OneAtATime, Settled
  <2>5. CASE k # NoKey
    <3>1. PICK i : i = [j EXCEPT !.at = "write", !.key = k]
      OBVIOUS
    <3>2. jobs' = (jobs \ {j}) \cup {i} /\ UNCHANGED <<screen, past>>
      BY <2>3, <2>5, <3>1
    <3>3. i.at = "write" /\ i.on = j.on
      BY <3>1 DEF CustodyTypeOK, Jobs
    <3>4. ~past.raced => jobs' = {i} /\ joining = {} /\ vault.bio = j.on
      BY <2>2, <3>2 DEF FollowInv, OneAtATime
    <3> QED BY <2>2, <3>2, <3>3, <3>4 DEF FollowInv, OneAtATime, Settled
  <2> QED BY <2>4, <2>5
<1>14. CASE \E j \in jobs : WriteForPolicy(j)
  <2>1. PICK j \in jobs : WriteForPolicy(j)
    BY <1>14
  <2>2. j.key \in KeysOrNone /\ Policy(j) \in BOOLEAN /\ Policy(j) = j.on
    BY DEF CustodyTypeOK, Jobs, Policy
  <2>3. past'.raced = past.raced /\ vault'.bio = vault.bio /\ (~past'.refused => vault'.guarded = j.on)
    BY <2>1, <2>2, StoreTyped DEF WriteForPolicy
  <2>4. jobs' = jobs \ {j} /\ UNCHANGED joining /\ j.at = "write"
    BY <2>1, JobOverTyped DEF WriteForPolicy
  <2>5. ~past.raced => jobs' = {} /\ joining = {} /\ vault.bio = j.on
    BY <2>4 DEF FollowInv, OneAtATime
  <2> QED BY <2>3, <2>4, <2>5 DEF FollowInv, OneAtATime, Settled
<1>15. CASE HandleExportWallet \/ CopyToClipboard \/ WipeTimer \/ Background
            \/ \E a \in asks : Reveal(a) \/ ExportCopied(a)
  <2>1. UNCHANGED <<vault, joining, jobs, screen>>
    BY <1>15 DEF HandleExportWallet, CopyToClipboard, WipeTimer, Background, Reveal, ExportCopied
  <2>2. past'.raced = past.raced /\ past'.refused = past.refused
    BY <1>15 DEF HandleExportWallet, CopyToClipboard, WipeTimer, Background, Reveal, ExportCopied, CustodyTypeOK, Pasts
  <2> QED BY <2>1, <2>2, FollowKept
<1>16. CASE \E a \in asks : Confirm(a)
  <2>1. PICK a \in asks : Confirm(a)
    BY <1>16
  <2>2. vault'.key = vault.key /\ vault'.bio = vault.bio /\ vault'.guarded = vault.guarded
    BY <2>1 DEF Confirm, CustodyTypeOK, Vaults
  <2>3. UNCHANGED <<joining, jobs, past>>
    BY <2>1 DEF Confirm
  <2> QED BY <2>2, <2>3 DEF FollowInv, OneAtATime, Settled
<1> QED BY <1>1, <1>2, <1>3, <1>4, <1>5, <1>6, <1>7, <1>8, <1>9, <1>10, <1>11, <1>12, <1>13, <1>14,
           <1>15, <1>16 DEF CustodyNext

(* The key's protection follows the biometric lock, a key shown is timed and a *)
(* copy is wiped (CustodyHolds), over every screen's steps.                    *)
THEOREM KeysAreKept == CustodySpec => []CustodyHolds
<1>1. CustodyInit => FollowInv /\ RevealIsTimed /\ CopyIsWiped
  <2> SUFFICES ASSUME CustodyInit PROVE FollowInv /\ RevealIsTimed /\ CopyIsWiped
    OBVIOUS
  <2>1. ~sheet.open /\ board.has = "other" /\ joining = {} /\ jobs = {} /\ vault.guarded = vault.bio
    BY FreshTyped DEF CustodyInit
  <2> QED BY <2>1 DEF FollowInv, OneAtATime, Settled, RevealIsTimed, CopyIsWiped
<1>2. FollowInv /\ RevealIsTimed /\ CopyIsWiped /\ UNCHANGED custodyVars => (FollowInv /\ RevealIsTimed /\ CopyIsWiped)'
  BY DEF FollowInv, OneAtATime, Settled, RevealIsTimed, CopyIsWiped, custodyVars
<1>3. FollowInv /\ RevealIsTimed /\ CopyIsWiped => CustodyHolds
  BY DEF FollowInv, OneAtATime, Settled, CustodyHolds, KeyFollowsLock
<1> QED BY <1>1, <1>2, <1>3, CustodyTypeHolds, FollowStep, TimedStep, CopyStep, PTL DEF CustodySpec

(* On any device the store's session and the stored key stay guarded together  *)
(* (SecretsAreGuarded), in whatever order the two halves take their steps.     *)
THEOREM DevicesGuardSecrets == MobileSpec /\ CustodySpec => []SecretsAreGuarded
BY GateStaysShut, SessionsKeepTheirKey, KeysAreKept, PTL DEF SecretsAreGuarded

-----------------------------------------------------------------------------
(* The dashboard's tray.  What the store shows is replayed from the actions    *)
(* that were reported successful, in their order.                              *)

Factors == {"infinity", "number", "null"}
Portfolios == [balance : Int, deposited : Nat, borrowed : Nat, healthFactor : Factors,
               lent : [Assets -> Nat], owed : [Assets -> Nat]]
Actions == [kind : Kinds, asset : Assets, amount : Amounts]
Outcome(done) == FoldLeft(Applied, NoPortfolio, done)
FactorOf(debt) == IF debt = 0 THEN "infinity" ELSE "number"

\* The portfolio an action leaves, field by field: none of them comes from the
\* health factor before it.
LEMMA AppliedForm ==
    ASSUME NEW p \in Portfolios, NEW act \in Actions
    PROVE  /\ act.kind = "DEPOSIT" =>
                 Applied(p, act) = [balance |-> p.balance + act.amount, deposited |-> p.deposited + act.amount,
                                    borrowed |-> p.borrowed, healthFactor |-> FactorOf(p.borrowed),
                                    lent |-> [p.lent EXCEPT ![act.asset] = @ + act.amount], owed |-> p.owed]
           /\ act.kind = "WITHDRAW" =>
                 Applied(p, act) = [balance |-> p.balance - act.amount, deposited |-> Less(p.deposited, act.amount),
                                    borrowed |-> p.borrowed, healthFactor |-> FactorOf(p.borrowed),
                                    lent |-> [p.lent EXCEPT ![act.asset] = Less(@, act.amount)], owed |-> p.owed]
           /\ act.kind = "BORROW" =>
                 Applied(p, act) = [balance |-> p.balance - act.amount, deposited |-> p.deposited,
                                    borrowed |-> p.borrowed + act.amount,
                                    healthFactor |-> FactorOf(p.borrowed + act.amount),
                                    lent |-> p.lent, owed |-> [p.owed EXCEPT ![act.asset] = @ + act.amount]]
           /\ act.kind = "REPAY" =>
                 Applied(p, act) = [balance |-> p.balance + act.amount, deposited |-> p.deposited,
                                    borrowed |-> Less(p.borrowed, act.amount),
                                    healthFactor |-> FactorOf(Less(p.borrowed, act.amount)),
                                    lent |-> p.lent, owed |-> [p.owed EXCEPT ![act.asset] = Less(@, act.amount)]]
<1>1. p = [balance |-> p.balance, deposited |-> p.deposited, borrowed |-> p.borrowed,
           healthFactor |-> p.healthFactor, lent |-> p.lent, owed |-> p.owed]
  BY DEF Portfolios
<1>2. CASE act.kind = "DEPOSIT"
  <2>1. Moved(p, act) = [balance |-> p.balance + act.amount, deposited |-> p.deposited + act.amount,
                         borrowed |-> p.borrowed, healthFactor |-> p.healthFactor,
                         lent |-> [p.lent EXCEPT ![act.asset] = @ + act.amount], owed |-> p.owed]
    BY <1>1, <1>2 DEF Moved
  <2> QED BY <1>2, <2>1 DEF Applied, HealthFactor, FactorOf
<1>3. CASE act.kind = "WITHDRAW"
  <2>1. Moved(p, act) = [balance |-> p.balance - act.amount, deposited |-> Less(p.deposited, act.amount),
                         borrowed |-> p.borrowed, healthFactor |-> p.healthFactor,
                         lent |-> [p.lent EXCEPT ![act.asset] = Less(@, act.amount)], owed |-> p.owed]
    BY <1>1, <1>3 DEF Moved
  <2> QED BY <1>3, <2>1 DEF Applied, HealthFactor, FactorOf
<1>4. CASE act.kind = "BORROW"
  <2>1. Moved(p, act) = [balance |-> p.balance - act.amount, deposited |-> p.deposited,
                         borrowed |-> p.borrowed + act.amount, healthFactor |-> p.healthFactor,
                         lent |-> p.lent, owed |-> [p.owed EXCEPT ![act.asset] = @ + act.amount]]
    BY <1>1, <1>4 DEF Moved
  <2> QED BY <1>4, <2>1 DEF Applied, HealthFactor, FactorOf
<1>5. CASE act.kind = "REPAY"
  <2>1. Moved(p, act) = [balance |-> p.balance + act.amount, deposited |-> p.deposited,
                         borrowed |-> Less(p.borrowed, act.amount), healthFactor |-> p.healthFactor,
                         lent |-> p.lent, owed |-> [p.owed EXCEPT ![act.asset] = Less(@, act.amount)]]
    BY <1>1, <1>5 DEF Moved
  <2> QED BY <1>5, <2>1 DEF Applied, HealthFactor, FactorOf
<1> QED BY <1>2, <1>3, <1>4, <1>5

LEMMA AppliedTyped ==
    ASSUME NEW p \in Portfolios, NEW act \in Actions
    PROVE  Applied(p, act) \in Portfolios
<1>1. /\ p.balance \in Int /\ p.deposited \in Nat /\ p.borrowed \in Nat
      /\ p.lent \in [Assets -> Nat] /\ p.owed \in [Assets -> Nat]
  BY DEF Portfolios
<1>2. act.kind \in Kinds /\ act.asset \in Assets /\ act.amount \in Nat
  BY ContextsAssumption DEF Actions
<1>3. \A n \in Nat : n + act.amount \in Nat /\ Less(n, act.amount) \in Nat
  BY <1>2 DEF Less
<1>4. p.balance + act.amount \in Int /\ p.balance - act.amount \in Int
  BY <1>1, <1>2
<1>5. \A f \in [Assets -> Nat] : /\ [f EXCEPT ![act.asset] = @ + act.amount] \in [Assets -> Nat]
                                 /\ [f EXCEPT ![act.asset] = Less(@, act.amount)] \in [Assets -> Nat]
  BY <1>2, <1>3
<1>6. \A n \in Nat : FactorOf(n) \in Factors
  BY DEF FactorOf, Factors
<1>7. CASE act.kind = "DEPOSIT"
  BY <1>1, <1>3, <1>4, <1>5, <1>6, <1>7, AppliedForm DEF Portfolios
<1>8. CASE act.kind = "WITHDRAW"
  BY <1>1, <1>3, <1>4, <1>5, <1>6, <1>8, AppliedForm DEF Portfolios
<1>9. CASE act.kind = "BORROW"
  BY <1>1, <1>3, <1>4, <1>5, <1>6, <1>9, AppliedForm DEF Portfolios
<1>10. CASE act.kind = "REPAY"
  BY <1>1, <1>3, <1>4, <1>5, <1>6, <1>10, AppliedForm DEF Portfolios
<1> QED BY <1>2, <1>7, <1>8, <1>9, <1>10 DEF Kinds

\* What the JSON copy loses is computed anew by the next action.
LEMMA CopyForgotten ==
    ASSUME NEW p \in Portfolios
    PROVE  /\ JsonCopy(p) \in Portfolios /\ JsonCopy(JsonCopy(p)) = JsonCopy(p)
           /\ \A act \in Actions : Applied(JsonCopy(p), act) = Applied(p, act)
<1> DEFINE q == JsonCopy(p)
<1>1. /\ q = [balance |-> p.balance, deposited |-> p.deposited, borrowed |-> p.borrowed,
              healthFactor |-> IF p.healthFactor = "infinity" THEN "null" ELSE p.healthFactor,
              lent |-> p.lent, owed |-> p.owed]
      /\ q \in Portfolios
  BY DEF JsonCopy, Portfolios, Factors
<1>2. q.healthFactor # "infinity"
  BY <1>1
<1>3. JsonCopy(q) = q
  <2>1. q = [q EXCEPT !.healthFactor = q.healthFactor]
    BY <1>1 DEF Portfolios
  <2> HIDE DEF q
  <2> QED BY <1>2, <2>1 DEF JsonCopy
<1>4. ASSUME NEW act \in Actions PROVE Applied(q, act) = Applied(p, act)
  <2>1. act.kind \in Kinds
    BY DEF Actions
  <2>2. /\ q.balance = p.balance /\ q.deposited = p.deposited /\ q.borrowed = p.borrowed
        /\ q.lent = p.lent /\ q.owed = p.owed
    BY <1>1
  <2> HIDE DEF q
  <2>3. CASE act.kind = "DEPOSIT"
    BY <1>1, <2>2, <2>3, AppliedForm
  <2>4. CASE act.kind = "WITHDRAW"
    BY <1>1, <2>2, <2>4, AppliedForm
  <2>5. CASE act.kind = "BORROW"
    BY <1>1, <2>2, <2>5, AppliedForm
  <2>6. CASE act.kind = "REPAY"
    BY <1>1, <2>2, <2>6, AppliedForm
  <2> QED BY <2>1, <2>3, <2>4, <2>5, <2>6 DEF Kinds
<1> QED BY <1>1, <1>3, <1>4

LEMMA NothingApplied == NoPortfolio \in Portfolios
BY DEF NoPortfolio, Portfolios, Factors

\* What the action at a place of the list does.
Effect(done) == [x \in Portfolios \X (1 .. Len(done)) |-> Applied(x[1], done[x[2]])]

LEMMA PlacesFinite == ASSUME NEW n \in Nat PROVE 1 .. n \in FiniteSubsetsOf(Int)
BY FS_Interval DEF FiniteSubsetsOf

LEMMA EffectTyped ==
    ASSUME NEW done \in Seq(Actions)
    PROVE  /\ Effect(done) \in [Portfolios \X (1 .. Len(done)) -> Portfolios]
           /\ \A p \in Portfolios, i \in 1 .. Len(done) : Effect(done)[<<p, i>>] = Applied(p, done[i])
<1>1. \A i \in 1 .. Len(done) : done[i] \in Actions
  OBVIOUS
<1>2. \A x \in Portfolios \X (1 .. Len(done)) : Applied(x[1], done[x[2]]) \in Portfolios
  BY <1>1, AppliedTyped
<1> QED BY <1>2 DEF Effect

\* The portfolio after each set of places, and the last of them is the fold.
LEMMA OutcomeFolds ==
    ASSUME NEW done \in Seq(Actions)
    PROVE  \E g \in [SUBSET (1 .. Len(done)) -> Portfolios] :
              FoldsUp(g, Effect(done), NoPortfolio, 1 .. Len(done)) /\ Outcome(done) = g[1 .. Len(done)]
<1> DEFINE B == DOMAIN done
<1>1. B = 1 .. Len(done) /\ Len(done) \in Nat /\ B \in FiniteSubsetsOf(Int)
  BY PlacesFinite
<1>2. PICK h \in [SUBSET B -> Portfolios] : FoldsUp(h, Effect(done), NoPortfolio, B)
  BY <1>1, EffectTyped, NothingApplied, FoldExists
<1> DEFINE Is(g) == g = [s \in SUBSET B |-> IF s = {} THEN NoPortfolio
                            ELSE LET x == Top(s) IN Applied(g[s \ {x}], done[x])]
<1>3. \A s \in SUBSET B : s # {} => Top(s) \in s
  BY <1>1, SubsetFinite, TopIsGreatest
<1>4. Is(h)
  <2>1. ASSUME NEW s \in SUBSET B
        PROVE  h[s] = IF s = {} THEN NoPortfolio ELSE Applied(h[s \ {Top(s)}], done[Top(s)])
    <3>1. h[s] = IF s = {} THEN NoPortfolio ELSE Effect(done)[<<h[s \ {Top(s)}], Top(s)>>]
      BY <1>2 DEF FoldsUp
    <3>2. s # {} => Effect(done)[<<h[s \ {Top(s)}], Top(s)>>] = Applied(h[s \ {Top(s)}], done[Top(s)])
      <4> SUFFICES ASSUME s # {} PROVE Effect(done)[<<h[s \ {Top(s)}], Top(s)>>] = Applied(h[s \ {Top(s)}], done[Top(s)])
        OBVIOUS
      <4>1. h[s \ {Top(s)}] \in Portfolios /\ Top(s) \in 1 .. Len(done)
        BY <1>1, <1>2, <1>3
      <4> QED BY <4>1, EffectTyped
    <3> QED BY <3>1, <3>2
  <2> QED BY <2>1, <1>2
<1> DEFINE g == CHOOSE k : Is(k)
<1>5. Is(g)
  <2> HIDE DEF Is
  <2> QED BY <1>4
<1>6. Outcome(done) = g[B]
  BY DEF Outcome, FoldLeft, MapThenFoldSet, Max, Top
<1> HIDE DEF g
<1>7. \A s \in SUBSET B : g[s] = IF s = {} THEN NoPortfolio ELSE Applied(g[s \ {Top(s)}], done[Top(s)])
  BY <1>5
<1>8. g[B] = h[B]
  <2> DEFINE Bad == {s \in SUBSET B : g[s] # h[s]}
  <2> SUFFICES ASSUME Bad # {} PROVE FALSE
    OBVIOUS
  <2>1. PICK s \in Bad : \A t \in Bad : t \subseteq s => t = s
    <3>1. Bad \in SUBSET (SUBSET B) /\ IsFiniteSet(B)
      BY <1>1 DEF FiniteSubsetsOf
    <3> HIDE DEF Bad
    <3> QED BY <3>1, SmallestSet
  <2>2. h[s] = IF s = {} THEN NoPortfolio ELSE Applied(h[s \ {Top(s)}], done[Top(s)])
    BY <1>4
  <2>3. CASE s # {}
    <3>1. Top(s) \in s
      BY <1>3, <2>3
    <3>2. s \ {Top(s)} \notin Bad
      BY <2>1, <3>1
    <3>3. g[s \ {Top(s)}] = h[s \ {Top(s)}]
      BY <3>2
    <3> QED BY <1>7, <2>2, <2>3, <3>3
  <2>4. CASE s = {}
    BY <1>7, <2>2, <2>4
  <2> QED BY <2>3, <2>4
<1> QED BY <1>1, <1>2, <1>6, <1>8

LEMMA OutcomeTyped == ASSUME NEW done \in Seq(Actions) PROVE Outcome(done) \in Portfolios
<1>1. PICK g \in [SUBSET (1 .. Len(done)) -> Portfolios] : Outcome(done) = g[1 .. Len(done)]
  BY OutcomeFolds
<1> QED BY <1>1

LEMMA NothingDone == Outcome(<<>>) = NoPortfolio
<1>1. <<>> \in Seq(Actions) /\ Len(<<>>) = 0 /\ 1 .. 0 = {}
  OBVIOUS
<1> DEFINE none == <<>>
<1>2. PICK g \in [SUBSET (1 .. Len(none)) -> Portfolios] :
         FoldsUp(g, Effect(none), NoPortfolio, 1 .. Len(none)) /\ Outcome(none) = g[1 .. Len(none)]
  BY <1>1, OutcomeFolds
<1> QED BY <1>1, <1>2 DEF FoldsUp

\* An action that is done last is applied last.
LEMMA OneMoreDone ==
    ASSUME NEW done \in Seq(Actions), NEW act \in Actions
    PROVE  Outcome(Append(done, act)) = Applied(Outcome(done), act)
<1> DEFINE more == Append(done, act)
           n == Len(done)
           A == 1 .. n
           B == 1 .. n + 1
<1>1. /\ n \in Nat /\ more \in Seq(Actions) /\ Len(more) = n + 1
      /\ more[n + 1] = act /\ \A i \in A : more[i] = done[i]
  OBVIOUS
<1> HIDE DEF more
<1>2. PICK h \in [SUBSET A -> Portfolios] : FoldsUp(h, Effect(done), NoPortfolio, A) /\ Outcome(done) = h[A]
  BY OutcomeFolds
<1>3. PICK g \in [SUBSET B -> Portfolios] : FoldsUp(g, Effect(more), NoPortfolio, B) /\ Outcome(more) = g[B]
  BY <1>1, OutcomeFolds
<1>4. A \in FiniteSubsetsOf(Int) /\ B \in FiniteSubsetsOf(Int) /\ A \in SUBSET A /\ A \subseteq B
  BY <1>1, PlacesFinite
<1>5. FoldsUp(h, Effect(more), NoPortfolio, A)
  <2>1. ASSUME NEW s \in SUBSET A, s # {}
        PROVE  Effect(done)[<<h[s \ {Top(s)}], Top(s)>>] = Effect(more)[<<h[s \ {Top(s)}], Top(s)>>]
    <3>1. Top(s) \in A /\ Top(s) \in B /\ h[s \ {Top(s)}] \in Portfolios
      BY <1>2, <1>4, <2>1, SubsetFinite, TopIsGreatest
    <3>2. Effect(done)[<<h[s \ {Top(s)}], Top(s)>>] = Applied(h[s \ {Top(s)}], done[Top(s)])
      BY <3>1, EffectTyped
    <3>3. Effect(more)[<<h[s \ {Top(s)}], Top(s)>>] = Applied(h[s \ {Top(s)}], more[Top(s)])
      BY <1>1, <3>1, EffectTyped
    <3> QED BY <1>1, <3>1, <3>2, <3>3
  <2> HIDE DEF A
  <2> QED BY <1>2, <2>1 DEF FoldsUp
<1>6. h[A] = g[A]
  <2>1. FoldsUp(g, Effect(more), NoPortfolio, B)
    BY <1>3
  <2> HIDE DEF A, B
  <2> QED BY <1>4, <1>5, <2>1, FoldsAgree
<1>7. Top(B) = n + 1 /\ B \ {n + 1} = A /\ B # {} /\ B \in SUBSET B
  <2>1. B # {} /\ n + 1 \in B
    BY <1>1
  <2>2. Top(B) \in B /\ \A y \in B : y <= Top(B)
    BY <1>4, <2>1, TopIsGreatest
  <2>3. Top(B) = n + 1
    BY <1>1, <2>1, <2>2
  <2> QED BY <1>1, <2>1, <2>3
<1>8. g[B] = Effect(more)[<<g[A], n + 1>>]
  <2> HIDE DEF A, B
  <2> QED BY <1>3, <1>7 DEF FoldsUp
<1>9. Effect(more)[<<g[A], n + 1>>] = Applied(g[A], more[n + 1])
  <2>1. g[A] \in Portfolios /\ n + 1 \in 1 .. Len(more)
    BY <1>1, <1>3, <1>4
  <2> QED BY <1>1, <2>1, EffectTyped
<1> QED BY <1>1, <1>2, <1>3, <1>6, <1>8, <1>9 DEF more

-----------------------------------------------------------------------------
(* One submission at a time: the snapshot it goes back to holds what was       *)
(* reported successful, and the store that and the action under way.           *)

Entries == [id : 1 .. MaxSubmits, act : Actions, status : {"PENDING", "COMPLETED"}]
Stores == [portfolio : Portfolios, activity : Seq(Entries)]
Stages == {"VALIDATING", "SIMULATING", "SIGNING", "SUBMITTING", "POLLING", "CONFIRMED", "FAILED"}

TrayTypeOK ==
    /\ pipelines \in [1 .. MaxSubmits -> {[step |-> "none"]} \cup [step : Stages, act : Actions]]
    /\ pending \in [1 .. MaxSubmits -> {<<>>} \cup Stores]
    /\ store \in Stores
    /\ settled \in Seq(Actions)

\* A store shows just the actions that are done, all of them completed.
Shows(st, done) ==
    /\ st.portfolio \in {Outcome(done), JsonCopy(Outcome(done))}
    /\ Len(st.activity) = Len(done)
    /\ \A n \in 1 .. Len(done) : /\ st.activity[n].act = done[Len(done) - n + 1]
                                 /\ st.activity[n].status = "COMPLETED"

\* Submission i runs on top of the snapshot it took.
OnTop(i) ==
    /\ pending[i] \in Stores /\ Shows(pending[i], settled)
    /\ store.portfolio = Applied(pending[i].portfolio, pipelines[i].act)
    /\ store.activity = <<[id |-> i, act |-> pipelines[i].act, status |-> "PENDING"]>> \o pending[i].activity

TrayInv ==
    /\ TrayTypeOK
    /\ \A i, j \in 1 .. MaxSubmits : Running(i) /\ Running(j) => i = j
    /\ (\A i \in 1 .. MaxSubmits : ~Running(i)) => Shows(store, settled)
    /\ \A i \in 1 .. MaxSubmits : Running(i) => OnTop(i)

LEMMA SubmitSound ==
    ASSUME TrayInv, NEW i \in 1 .. MaxSubmits, NEW act \in Actions, HandleSubmitAction(i, act)
    PROVE  TrayInv'
<1> DEFINE copy == [store EXCEPT !.portfolio = JsonCopy(@)]
<1>1. /\ pending' = [pending EXCEPT ![i] = copy]
      /\ pipelines' = [pipelines EXCEPT ![i] = [step |-> "VALIDATING", act |-> act]]
      /\ settled' = settled
      /\ store' = [portfolio |-> Applied(store.portfolio, act),
                   activity |-> <<[id |-> i, act |-> act, status |-> "PENDING"]>> \o store.activity]
      /\ \A j \in 1 .. MaxSubmits : ~Running(j)
  BY DEF HandleSubmitAction, Submittable
<1>2. TrayTypeOK
  BY DEF TrayInv
<1>3. store \in Stores /\ store.portfolio \in Portfolios /\ store.activity \in Seq(Entries)
  BY <1>2 DEF TrayTypeOK, Stores
<1>4. store' \in Stores
  <2> DEFINE top == [id |-> i, act |-> act, status |-> "PENDING"]
  <2>1. top \in Entries
    BY DEF Entries
  <2> HIDE DEF top
  <2>2. <<top>> \o store.activity \in Seq(Entries)
    BY <1>3, <2>1
  <2>3. Applied(store.portfolio, act) \in Portfolios
    BY <1>3, AppliedTyped
  <2> QED BY <1>1, <2>2, <2>3 DEF Stores, top
<1>5. /\ copy = [portfolio |-> JsonCopy(store.portfolio), activity |-> store.activity]
      /\ copy \in Stores
  <2>1. copy = [portfolio |-> JsonCopy(store.portfolio), activity |-> store.activity]
    BY <1>3 DEF Stores
  <2>2. JsonCopy(store.portfolio) \in Portfolios
    BY <1>3, CopyForgotten
  <2> HIDE DEF copy
  <2> QED BY <1>3, <2>1, <2>2 DEF Stores
<1> HIDE DEF copy
<1>6. TrayTypeOK'
  BY <1>1, <1>2, <1>3, <1>4, <1>5 DEF TrayTypeOK, Stages
<1>7. /\ pipelines'[i] = [step |-> "VALIDATING", act |-> act] /\ pending'[i] = copy
      /\ \A j \in 1 .. MaxSubmits : j # i => pipelines'[j] = pipelines[j]
  BY <1>1, <1>2 DEF TrayTypeOK
<1>8. Running(i)' /\ \A j \in 1 .. MaxSubmits : j # i => ~Running(j)'
  BY <1>1, <1>7 DEF Running
<1>9. Shows(store, settled)
  BY <1>1 DEF TrayInv
<1>10. OnTop(i)'
  <2>1. Shows(copy, settled)
    <3>1. Outcome(settled) \in Portfolios
      BY <1>2, OutcomeTyped DEF TrayTypeOK
    <3>2. copy.portfolio = JsonCopy(store.portfolio) /\ copy.activity = store.activity
      BY <1>5
    <3>3. copy.portfolio = JsonCopy(Outcome(settled))
      BY <1>9, <3>1, <3>2, CopyForgotten DEF Shows
    <3> QED BY <1>9, <3>2, <3>3 DEF Shows
  <2>2. Shows(pending[i], settled)'
    BY <1>1, <1>7, <2>1 DEF Shows
  <2>3. Applied(copy.portfolio, act) = Applied(store.portfolio, act) /\ copy.activity = store.activity
    BY <1>3, <1>5, CopyForgotten
  <2> QED BY <1>1, <1>7, <1>5, <2>2, <2>3 DEF OnTop
<1> QED BY <1>6, <1>8, <1>10 DEF TrayInv

\* A pipeline that goes on to another stage.
LEMMA StageSound ==
    ASSUME TrayInv, NEW i \in 1 .. MaxSubmits, Running(i),
           NEW step \in Stages \ {"CONFIRMED", "FAILED"}, To(i, step)
    PROVE  TrayInv'
<1>1. TrayTypeOK
  BY DEF TrayInv
<1>2. /\ pipelines[i] \in [step : Stages, act : Actions]
      /\ pipelines' = [pipelines EXCEPT ![i].step = step]
      /\ UNCHANGED <<pending, store, settled>>
  BY <1>1 DEF To, TrayTypeOK, Running
<1>3. /\ pipelines'[i] = [step |-> step, act |-> pipelines[i].act]
      /\ \A j \in 1 .. MaxSubmits : j # i => pipelines'[j] = pipelines[j]
  BY <1>1, <1>2 DEF TrayTypeOK
<1>4. TrayTypeOK'
  BY <1>1, <1>2 DEF TrayTypeOK
<1>5. \A j \in 1 .. MaxSubmits : Running(j)' <=> Running(j)
  BY <1>3 DEF Running, Stages
<1>6. OnTop(i)'
  <2>1. OnTop(i)
    BY DEF TrayInv
  <2>2. pipelines'[i].act = pipelines[i].act
    BY <1>3
  <2>3. Shows(pending[i], settled) => Shows(pending[i], settled)'
    BY <1>2 DEF Shows
  <2> QED BY <1>2, <2>1, <2>2, <2>3 DEF OnTop
<1> QED BY <1>4, <1>5, <1>6 DEF TrayInv

LEMMA RollbackSound ==
    ASSUME TrayInv, NEW i \in 1 .. MaxSubmits, Running(i), RollbackAction(i)
    PROVE  TrayInv'
<1>1. TrayTypeOK /\ OnTop(i)
  BY DEF TrayInv
<1>2. /\ pipelines[i] \in [step : Stages, act : Actions]
      /\ pipelines' = [pipelines EXCEPT ![i].step = "FAILED"]
      /\ pending' = [pending EXCEPT ![i] = <<>>]
      /\ store' = pending[i] /\ settled' = settled
  BY <1>1 DEF RollbackAction, TrayTypeOK, Running
<1>3. /\ pipelines'[i].step = "FAILED"
      /\ \A j \in 1 .. MaxSubmits : j # i => pipelines'[j] = pipelines[j]
  BY <1>1, <1>2 DEF TrayTypeOK
<1>4. TrayTypeOK'
  BY <1>1, <1>2 DEF TrayTypeOK, OnTop, Stages
<1>5. \A j \in 1 .. MaxSubmits : ~Running(j)'
  BY <1>3 DEF Running, TrayInv
<1>6. Shows(store, settled)'
  BY <1>1, <1>2 DEF OnTop, Shows
<1> QED BY <1>4, <1>5, <1>6 DEF TrayInv

LEMMA ConfirmSound ==
    ASSUME TrayInv, NEW i \in 1 .. MaxSubmits, Running(i), ConfirmAction(i)
    PROVE  TrayInv'
<1> DEFINE act == pipelines[i].act
           older == pending[i].activity
           list == store.activity
           seen == [n \in DOMAIN list |->
                       IF list[n].id = i THEN [list[n] EXCEPT !.status = "COMPLETED"] ELSE list[n]]
<1>1. TrayTypeOK /\ OnTop(i)
  BY DEF TrayInv
<1>2. Applied(pending[i].portfolio, act) = Applied(Outcome(settled), act)
  <2>1. act \in Actions /\ settled \in Seq(Actions)
    BY <1>1 DEF TrayTypeOK, Running
  <2>2. Outcome(settled) \in Portfolios
    BY <2>1, OutcomeTyped
  <2> HIDE DEF act
  <2> QED BY <1>1, <2>1, <2>2, CopyForgotten DEF OnTop, Shows
<1>3. /\ pipelines[i] \in [step : Stages, act : Actions] /\ act \in Actions
      /\ pipelines' = [pipelines EXCEPT ![i].step = "CONFIRMED"]
      /\ pending' = [pending EXCEPT ![i] = <<>>]
      /\ store' = [store EXCEPT !.activity = seen]
      /\ settled' = Append(settled, act)
      /\ settled \in Seq(Actions)
  BY <1>1 DEF ConfirmAction, TrayTypeOK, Running
<1>4. /\ store \in Stores /\ list \in Seq(Entries) /\ older \in Seq(Entries)
      /\ store.portfolio \in Portfolios
  BY <1>1 DEF TrayTypeOK, OnTop, Stores
<1>5. /\ pipelines'[i].step = "CONFIRMED"
      /\ \A j \in 1 .. MaxSubmits : j # i => pipelines'[j] = pipelines[j]
  BY <1>1, <1>3 DEF TrayTypeOK
<1>6. \A j \in 1 .. MaxSubmits : ~Running(j)'
  BY <1>5 DEF Running, TrayInv
<1>7. /\ Len(settled) \in Nat /\ Len(older) = Len(settled) /\ DOMAIN older = 1 .. Len(settled)
      /\ \A n \in 1 .. Len(settled) : /\ older[n].act = settled[Len(settled) - n + 1]
                                      /\ older[n].status = "COMPLETED"
  BY <1>1, <1>3, <1>4 DEF OnTop, Shows
<1>8. /\ Len(list) = Len(settled) + 1 /\ DOMAIN list = 1 .. Len(settled) + 1
      /\ list[1] = [id |-> i, act |-> act, status |-> "PENDING"]
      /\ \A n \in 2 .. Len(settled) + 1 : list[n] = older[n - 1]
  <2> DEFINE top == [id |-> i, act |-> act, status |-> "PENDING"]
  <2>1. list = <<top>> \o older
    BY <1>1 DEF OnTop
  <2> HIDE DEF top, list, older
  <2>2. /\ Len(list) = Len(older) + 1 /\ list[1] = top /\ DOMAIN list = 1 .. Len(older) + 1
        /\ \A n \in 2 .. Len(older) + 1 : list[n] = older[n - 1]
    BY <1>4, <2>1
  <2> QED BY <1>7, <2>2 DEF top
<1>9. \A n \in 1 .. Len(settled) + 1 : list[n] \in Entries
  BY <1>4, <1>8
<1>10. \A n \in 1 .. Len(settled) + 1 :
         /\ seen[n] \in Entries /\ seen[n].act = list[n].act
         /\ list[n].id = i \/ list[n].status = "COMPLETED" => seen[n].status = "COMPLETED"
  <2> TAKE n \in 1 .. Len(settled) + 1
  <2>1. list[n] \in Entries
    BY <1>9
  <2>2. seen[n] = IF list[n].id = i THEN [list[n] EXCEPT !.status = "COMPLETED"] ELSE list[n]
    BY <1>8
  <2> HIDE DEF seen, list
  <2> QED BY <2>1, <2>2 DEF Entries
<1>11. seen \in Seq(Entries) /\ Len(seen) = Len(settled) + 1
  <2>1. seen \in [1 .. Len(settled) + 1 -> Entries]
    BY <1>8, <1>10
  <2> HIDE DEF seen
  <2>2. Len(settled) + 1 \in Nat
    BY <1>7
  <2> QED BY <2>1, <2>2
<1>12. store' = [portfolio |-> store.portfolio, activity |-> seen]
  <2> HIDE DEF seen
  <2> QED BY <1>3, <1>4 DEF Stores
<1>13. TrayTypeOK'
  <2>1. store' \in Stores
    BY <1>4, <1>11, <1>12 DEF Stores
  <2>2. settled' \in Seq(Actions)
    BY <1>3
  <2> QED BY <1>1, <1>3, <2>1, <2>2 DEF TrayTypeOK, Stages
<1>14. Shows(store, settled)'
  <2>1. store'.portfolio = Outcome(settled')
    BY <1>2, <1>1, <1>3, <1>12, OneMoreDone DEF OnTop
  <2>2. /\ Len(settled') = Len(settled) + 1 /\ settled'[Len(settled) + 1] = act
        /\ \A n \in 1 .. Len(settled) : settled'[n] = settled[n]
    BY <1>3
  <2>3. ASSUME NEW n \in 1 .. Len(settled) + 1
        PROVE  seen[n].act = settled'[Len(settled) + 1 - n + 1] /\ seen[n].status = "COMPLETED"
    <3>1. CASE n = 1
      <4>1. Len(settled) + 1 - n + 1 = Len(settled) + 1
        BY <1>7, <3>1
      <4>2. list[n].act = act /\ list[n].id = i
        BY <1>8, <3>1
      <4> HIDE DEF seen, list, act
      <4> QED BY <1>10, <2>2, <4>1, <4>2
    <3>2. CASE n # 1
      <4>1. n \in 2 .. Len(settled) + 1 /\ n - 1 \in 1 .. Len(settled)
            /\ Len(settled) + 1 - n + 1 = Len(settled) - (n - 1) + 1
            /\ Len(settled) - (n - 1) + 1 \in 1 .. Len(settled)
        BY <1>7, <3>2
      <4>2. list[n].act = settled[Len(settled) - (n - 1) + 1] /\ list[n].status = "COMPLETED"
        <5> HIDE DEF list, older
        <5> QED BY <1>7, <1>8, <4>1
      <4> HIDE DEF seen, list, act
      <4> QED BY <1>10, <2>2, <4>1, <4>2
    <3> QED BY <3>1, <3>2
  <2>4. store'.activity = seen
    BY <1>12
  <2> HIDE DEF seen
  <2>5. \A n \in 1 .. Len(settled') : /\ seen[n].act = settled'[Len(settled') - n + 1]
                                      /\ seen[n].status = "COMPLETED"
    BY <2>2, <2>3
  <2> QED BY <1>11, <2>1, <2>2, <2>4, <2>5 DEF Shows
<1> QED BY <1>6, <1>13, <1>14 DEF TrayInv

LEMMA PipelineSound ==
    ASSUME TrayInv, NEW i \in 1 .. MaxSubmits, NEW kind \in Kinds, Pipeline(i, kind)
    PROVE  TrayInv'
<1>1. Running(i)
  BY DEF Pipeline, Running
<1>2. \/ \E step \in Stages \ {"CONFIRMED", "FAILED"} : To(i, step)
      \/ RollbackAction(i) \/ ConfirmAction(i)
  <2>1. {"SIMULATING", "SIGNING", "SUBMITTING", "POLLING"} \subseteq Stages \ {"CONFIRMED", "FAILED"}
    BY DEF Stages
  <2> QED BY <2>1 DEF Pipeline, SimulateSorobanTransaction
<1> QED BY <1>1, <1>2, StageSound, RollbackSound, ConfirmSound

LEMMA TrayInvariant == TraySpec => []TrayInv
<1>1. TrayInit => TrayInv
  <2> SUFFICES ASSUME TrayInit PROVE TrayInv
    OBVIOUS
  <2>1. /\ pipelines = [i \in 1 .. MaxSubmits |-> [step |-> "none"]]
        /\ pending = [i \in 1 .. MaxSubmits |-> <<>>]
        /\ settled = <<>> /\ store = [portfolio |-> NoPortfolio, activity |-> <<>>]
    BY DEF TrayInit
  <2>2. TrayTypeOK
    <3>1. <<>> \in Seq(Entries) /\ <<>> \in Seq(Actions)
      OBVIOUS
    <3> QED BY <2>1, <3>1, NothingApplied DEF TrayTypeOK, Stores
  <2>3. \A i \in 1 .. MaxSubmits : ~Running(i)
    BY <2>1 DEF Running
  <2>4. Shows(store, settled)
    BY <2>1, NothingDone DEF Shows
  <2> QED BY <2>2, <2>3, <2>4 DEF TrayInv
<1>2. TrayInv /\ [TrayStep]_tray => TrayInv'
  <2> SUFFICES ASSUME TrayInv, [TrayStep]_tray PROVE TrayInv'
    OBVIOUS
  <2>1. CASE SelectAsset \/ UNCHANGED tray
    <3>1. UNCHANGED <<pipelines, pending, store, settled>>
      BY <2>1 DEF SelectAsset, tray
    <3>2. TrayTypeOK' /\ (Shows(store, settled) => Shows(store, settled)')
      BY <3>1 DEF TrayInv, TrayTypeOK, Shows
    <3>3. \A i \in 1 .. MaxSubmits : Running(i)' = Running(i) /\ (OnTop(i) => OnTop(i)')
      BY <3>1 DEF Running, OnTop, Shows
    <3> QED BY <3>2, <3>3 DEF TrayInv
  <2>2. ASSUME NEW i \in 1 .. MaxSubmits,
               \/ \E act \in [kind : Kinds, asset : Assets, amount : Amounts] : HandleSubmitAction(i, act)
               \/ ExecuteDeposit(i) \/ ExecuteWithdraw(i) \/ ExecuteBorrow(i) \/ ExecuteRepay(i)
        PROVE  TrayInv'
    <3>1. CASE \E act \in Actions : HandleSubmitAction(i, act)
      BY <3>1, SubmitSound
    <3>2. CASE \E kind \in Kinds : Pipeline(i, kind)
      BY <3>2, PipelineSound
    <3> QED BY <2>2, <3>1, <3>2
        DEF Actions, Kinds, ExecuteDeposit, ExecuteWithdraw, ExecuteBorrow, ExecuteRepay
  <2> QED BY <2>1, <2>2 DEF TrayStep
<1> QED BY <1>1, <1>2, PTL DEF TraySpec

\* With no submission running the dashboard's store holds exactly the actions
\* that were reported successful, in their order, whatever fails at which stage:
\* a rollback leaves no trace but a health factor of Infinity that became null
\* (useDashboardStore, ActionTray).
THEOREM StoresShowOutcomes == TraySpec => []StoreMatchesOutcomes
<1>1. TrayInv => StoreMatchesOutcomes
  <2> SUFFICES ASSUME TrayInv, \A i \in 1 .. MaxSubmits : ~Running(i)
               PROVE  /\ LET outcome == FoldLeft(Applied, NoPortfolio, settled)
                         IN store.portfolio \in {outcome, JsonCopy(outcome)}
                      /\ [n \in DOMAIN store.activity |-> store.activity[n].act] = Reverse(settled)
                      /\ \A n \in DOMAIN store.activity : store.activity[n].status = "COMPLETED"
    BY DEF StoreMatchesOutcomes
  <2>1. Shows(store, settled) /\ store.activity \in Seq(Entries)
    BY DEF TrayInv, TrayTypeOK, Stores
  <2>2. DOMAIN store.activity = 1 .. Len(settled)
    BY <2>1 DEF Shows
  <2>3. LET outcome == FoldLeft(Applied, NoPortfolio, settled)
        IN store.portfolio \in {outcome, JsonCopy(outcome)}
    BY <2>1 DEF Shows, Outcome
  <2>4. [n \in DOMAIN store.activity |-> store.activity[n].act] = Reverse(settled)
    BY <2>1, <2>2 DEF Shows, Reverse
  <2> QED BY <2>1, <2>2, <2>3, <2>4 DEF Shows
<1> QED BY <1>1, TrayInvariant, PTL
=============================================================================
