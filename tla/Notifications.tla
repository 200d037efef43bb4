--------------------------- MODULE Notifications ----------------------------
(* Push notifications (notifications.service.ts, expo-push.service.ts,        *)
(* users.service.ts): notifyUser keeps what it read across the calls to the   *)
(* database and to Expo, while tokens change hands and keys are set.          *)
EXTENDS Naturals, Sequences, FiniteSets, SequencesExt

CONSTANTS
    NUsers, Tokens,
    Notified,        \* users notifications are sent to; the others only take over tokens
    Kinds,           \* [sensitive, liquidation]
    Notifies,        \* notifyUser calls in flight, as slots
    ChunkSize,       \* messages per request to Expo
    MaxPushes        \* bound on messages delivered

ASSUME NotificationsAssumption ==
    NUsers \in Nat /\ Notified \subseteq 1 .. NUsers /\ ChunkSize \in Nat \ {0} /\ MaxPushes \in Nat

VARIABLES
    owner,           \* PushToken.userId, or NoUser
    registered,      \* tokens whose device still accepts messages
    enabled,         \* users whose channel is on
    hasKey,          \* users with an E2EE key
    cooling,         \* users with a liquidation push less than an hour ago
    notify,          \* calls between two awaits
    pushed           \* history: messages delivered, with the reader they are for

pushVars == <<owner, registered, enabled, hasKey, cooling, notify, pushed>>

Users == 1 .. NUsers
NoUser == 0
NoNotify == [at |-> "idle"]

PushInit ==
    /\ owner = [t \in Tokens |-> NoUser]
    /\ registered = Tokens
    /\ enabled = Notified /\ hasKey = {} /\ cooling = {}
    /\ notify = [n \in Notifies |-> NoNotify]
    /\ pushed = {}

----------------------------------------------------------------------------
(* users.service: a token is unique and moves to the user who registers it.    *)
UpsertPushToken(u, t) ==
    /\ owner[t] # u
    /\ owner' = [owner EXCEPT ![t] = u]
    /\ UNCHANGED <<registered, enabled, hasKey, cooling, notify, pushed>>
DeletePushToken(t) ==
    /\ owner[t] # NoUser
    /\ owner' = [owner EXCEPT ![t] = NoUser]
    /\ UNCHANGED <<registered, enabled, hasKey, cooling, notify, pushed>>
UpdateSettings(u) ==
    /\ enabled' = IF u \in enabled THEN enabled \ {u} ELSE enabled \cup {u}
    /\ UNCHANGED <<owner, registered, hasKey, cooling, notify, pushed>>
SetE2eeKey(u) ==
    /\ u \notin hasKey /\ hasKey' = hasKey \cup {u}
    /\ UNCHANGED <<owner, registered, enabled, cooling, notify, pushed>>

(* The device of a token unregisters; the cooldown of an hour passes.          *)
Unregister(t) ==
    /\ t \in registered /\ registered' = registered \ {t}
    /\ UNCHANGED <<owner, enabled, hasKey, cooling, notify, pushed>>
CooldownPasses(u) ==
    /\ u \in cooling /\ cooling' = cooling \ {u}
    /\ UNCHANGED <<owner, registered, enabled, hasKey, notify, pushed>>

----------------------------------------------------------------------------
(* notifyUser: settings first, the row always, then channel and cooldown as    *)
(* they were read.                                                             *)
ReadSettings(n, u, k) ==
    /\ notify[n] = NoNotify
    /\ u \in enabled /\ ~(k.liquidation /\ u \in cooling)
    /\ notify' = [notify EXCEPT ![n] = [at |-> "tokens", u |-> u, kind |-> k]]
    /\ UNCHANGED <<owner, registered, enabled, hasKey, cooling, pushed>>

ReadTokens(n) ==
    LET mine == {t \in Tokens : owner[t] = notify[n].u} IN
    /\ notify[n].at = "tokens"
    /\ notify' = [notify EXCEPT ![n] =
                    IF mine = {} THEN NoNotify
                    ELSE [at |-> "message", u |-> @.u, kind |-> @.kind,
                          tokens |-> SetToSeq(mine)]]
    /\ UNCHANGED <<owner, registered, enabled, hasKey, cooling, pushed>>

(* buildExpoMessage: a sensitive kind is sealed with the user's key, and       *)
(* without one it is not sent.                                                 *)
\* Mutant: without a key the message goes out as it is.
SendableInClear(k, u) == TRUE
Sendable(k, u) == k.sensitive => u \in hasKey
Sealed(k, u) == k.sensitive /\ u \in hasKey
BuildMessage(n) ==
    LET q == notify[n] IN
    /\ q.at = "message"
    /\ notify' = [notify EXCEPT ![n] =
                    IF Sendable(q.kind, q.u)
                      THEN [at |-> "send", u |-> q.u, kind |-> q.kind, tokens |-> q.tokens,
                            sealed |-> Sealed(q.kind, q.u), rest |-> q.tokens, tickets |-> <<>>]
                      ELSE NoNotify]
    /\ UNCHANGED <<owner, registered, enabled, hasKey, cooling, pushed>>

(* ExpoPushService.send: chunk by chunk; a chunk whose request fails leaves no *)
(* tickets.                                                                    *)
ChunkOf(s) == SubSeq(s, 1, IF Len(s) < ChunkSize THEN Len(s) ELSE ChunkSize)
Ticket(t) == IF t \in registered THEN "ok" ELSE "DeviceNotRegistered"
SendChunk(n, delivered) ==
    LET q == notify[n]
        chunk == ChunkOf(q.rest)
        got == {t \in ToSet(chunk) : t \in registered}
    IN  /\ q.at = "send" /\ q.rest # <<>>
        /\ delivered => Cardinality(pushed) < MaxPushes
        /\ notify' = [notify EXCEPT
             ![n].rest = SubSeq(@, Len(chunk) + 1, Len(@)),
             ![n].tickets = IF delivered THEN @ \o [i \in DOMAIN chunk |-> Ticket(chunk[i])] ELSE @]
        /\ pushed' = IF delivered
                       THEN pushed \cup {[u |-> q.u, kind |-> q.kind, sealed |-> q.sealed, at |-> owner[t]]
                                         : t \in got}
                       ELSE pushed
        /\ UNCHANGED <<owner, registered, enabled, hasKey, cooling>>

(* The tickets are matched with the tokens by their index, counted over the    *)
(* chunks that were answered; the tokens so named are deleted, and a delivery  *)
(* starts the cooldown.                                                        *)
StaleTokens(tokens, tickets) ==
    {tokens[i] : i \in {j \in DOMAIN tickets : tickets[j] = "DeviceNotRegistered"}}
Settle(n) ==
    LET q == notify[n]
        stale == StaleTokens(q.tokens, q.tickets)
    IN  /\ q.at = "send" /\ q.rest = <<>>
        /\ owner' = [t \in Tokens |-> IF t \in stale THEN NoUser ELSE owner[t]]
        /\ cooling' = IF q.kind.liquidation /\ \E i \in DOMAIN q.tickets : q.tickets[i] = "ok"
                        THEN cooling \cup {q.u} ELSE cooling
        /\ notify' = [notify EXCEPT ![n] = NoNotify]
        /\ UNCHANGED <<registered, enabled, hasKey, pushed>>

PushNext ==
    \/ \E u \in Users, t \in Tokens : UpsertPushToken(u, t)
    \/ \E t \in Tokens : DeletePushToken(t) \/ Unregister(t)
    \/ \E u \in Notified : UpdateSettings(u) \/ SetE2eeKey(u) \/ CooldownPasses(u)
    \/ \E n \in Notifies :
         \/ \E u \in Notified, k \in Kinds : ReadSettings(n, u, k)
         \/ ReadTokens(n) \/ BuildMessage(n) \/ Settle(n)
         \/ \E delivered \in BOOLEAN : SendChunk(n, delivered)

PushSpec == PushInit /\ [][PushNext]_pushVars

----------------------------------------------------------------------------
(* A device that passed to another user while a message was being prepared     *)
(* may receive it, but never a sensitive one it could read.                    *)
NobodyElseReads ==
    \A m \in pushed : (m.at # m.u /\ m.kind.sensitive) => m.sealed
=============================================================================
