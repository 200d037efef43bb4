------------------------------ MODULE KeyCustody ------------------------------
(* Who gets to see the mobile application's secret key: the wallet screen that *)
(* stores it, the settings screen that puts it under the device's protection,  *)
(* and the backup and export modals that show it, copy it and write it to a    *)
(* file. Each screen has its own useWalletSecurity, whose state is read once,   *)
(* when the screen is mounted. A request for the secret, or an enrolment,       *)
(* outlives the screen that made it.                                           *)
EXTENDS Integers, FiniteSets

CONSTANTS Keys,      \* the secret keys, numbered
          NoKey,
          Budgets    \* how often a behaviour may take each kind of step, per scenario

ASSUME KeysAssumption == NoKey \notin Keys

VARIABLES vault,     \* SecureStore: the key, whether reading it prompts, the flags
          screen,    \* what is mounted, and what it knew when it was
          joining,   \* generateWallet and importWallet in flight
          jobs,      \* enrolments and removals of the lock in flight
          sheet,     \* the backup modal and, on the settings screen, the export modal
          asks,      \* requests for the secret in flight
          board,     \* the clipboard and the timers that will empty it
          budget,
          past       \* history the properties speak of

custodyVars == <<vault, screen, joining, jobs, sheet, asks, board, budget, past>>

Spends(kind) == budget[kind] > 0 /\ budget' = [budget EXCEPT ![kind] = @ - 1]

HiddenSheet == [open |-> FALSE, step |-> "reveal", held |-> NoKey, shown |-> FALSE, timer |-> FALSE,
                export |-> "warning"]

-----------------------------------------------------------------------------
(* Storage *)

(* setSecretKeyWithLockPolicy: a device that refuses to guard the key is given *)
(* it unguarded, and nobody is told.                                           *)
StoreSecretKey(v, k, guard) ==
    \E g \in IF guard THEN BOOLEAN ELSE {FALSE} :
        /\ vault' = [v EXCEPT !.key = k, !.guarded = g]
        /\ past' = [past EXCEPT !.refused = guard /\ ~g]

\* What a read yields: a guarded key only if the user passes the device's prompt.
Readable == {vault.key} \cup (IF vault.guarded THEN {NoKey} ELSE {})

-----------------------------------------------------------------------------
(* Screens *)

\* The hook's first read; the screen is as good as empty before it.
Mounted(name, v) ==
    [name |-> name, needsBackup |-> v.key # NoKey /\ ~v.backup, backedUp |-> v.backup,
     generated |-> NoKey, loading |-> "none", wizard |-> "none", busy |-> FALSE]

(* Unmounting clears every timer; what is on the clipboard stays there, and    *)
(* what was asked for or started goes on without a screen.                     *)
Orphans(calls) == {[c EXCEPT !.here = FALSE] : c \in calls}
Unmounted ==
    /\ sheet' = HiddenSheet
    /\ board' = [board EXCEPT !.wipe = FALSE, !.paste = FALSE]

OpenSettings ==
    /\ screen.name = "home" /\ Spends("visit")
    /\ screen' = Mounted("settings", vault)
    /\ UNCHANGED <<vault, joining, jobs, sheet, asks, board, past>>

\* Going back, or the lock screen taking the application's place.
LeaveSettings ==
    /\ screen.name = "settings"
    /\ screen' = Mounted("home", vault) /\ Unmounted
    /\ past' = [past EXCEPT !.loose = @ \/ board.has = "secret"] /\ asks' = Orphans(asks)
    /\ UNCHANGED <<vault, joining, jobs, budget>>

(* logout drops the session first and does not wait for the deletions: the     *)
(* wallet screen may still read what is about to go.                           *)
Wiped(v) == [v EXCEPT !.key = NoKey, !.guarded = FALSE, !.backup = FALSE]
ToConnect(v) ==
    /\ \E seen \in {vault, v} : screen' = Mounted("connect", seen)
    /\ vault' = v /\ sheet' = HiddenSheet /\ asks' = Orphans(asks)
    /\ board' = [has |-> "other", wipe |-> FALSE, paste |-> FALSE]
    /\ past' = [past EXCEPT !.loose = FALSE, !.refused = FALSE, !.raced = @ \/ jobs # {} \/ joining # {}]

SignOut ==
    /\ screen.name # "connect" /\ Spends("leave")
    /\ ToConnect(Wiped(vault))
    /\ UNCHANGED <<joining, jobs>>

\* wipeAllSecureItems lists every key of the storage, the lock's too.
ForgetPin ==
    /\ screen.name = "home" /\ (vault.bio \/ vault.pin) /\ Spends("leave")
    /\ ToConnect([Wiped(vault) EXCEPT !.bio = FALSE, !.pin = FALSE])
    /\ UNCHANGED <<joining, jobs>>

(* The process dies: its timers, requests and jobs do; storage and clipboard   *)
(* stay.                                                                       *)
ProcessDies ==
    /\ Spends("leave")
    /\ screen' = Mounted(IF screen.name = "connect" THEN "connect" ELSE "home", vault) /\ Unmounted
    /\ joining' = {} /\ jobs' = {} /\ asks' = {}
    /\ past' = [past EXCEPT !.loose = @ \/ board.has = "secret", !.raced = @ \/ jobs # {}]
    /\ UNCHANGED vault

-----------------------------------------------------------------------------
(* ConnectWalletScreen and useStellarAuth *)

(* The flag is read by itself, before the key is written. While one is under   *)
(* way the buttons are disabled, but not the "done" key of the import's field; *)
(* the first to end enables them again.                                        *)
StartWallet(k, generated) ==
    /\ screen.name = "connect" /\ ~sheet.open
    /\ screen.loading \in {"none"} \cup (IF generated THEN {} ELSE {"import"})
    /\ Spends("join")
    /\ joining' = joining \cup {[at |-> "storing", key |-> k, guard |-> vault.bio, generated |-> generated, here |-> TRUE]}
    /\ screen' = [screen EXCEPT !.generated = NoKey, !.loading = IF generated THEN "generate" ELSE "import"]
    /\ past' = [past EXCEPT !.raced = @ \/ jobs # {}]
    /\ UNCHANGED <<vault, jobs, sheet, asks, board>>

\* What was typed is no key: importWallet is over before it has started.
ImportRefused ==
    /\ screen.name = "connect" /\ ~sheet.open /\ screen.loading = "import"
    /\ screen' = [screen EXCEPT !.generated = NoKey, !.loading = "none"]
    /\ UNCHANGED <<vault, joining, jobs, sheet, asks, board, budget, past>>

StoreWallet(j) ==
    /\ j.at = "storing"
    /\ StoreSecretKey(vault, j.key, j.guard)
    /\ joining' = (joining \ {j}) \cup {[j EXCEPT !.at = "authenticating"]}
    /\ screen' = [screen EXCEPT !.generated = IF j.generated /\ j.here THEN j.key ELSE @]
    /\ UNCHANGED <<jobs, sheet, asks, board, budget>>

\* The session takes the wallet screen away, whichever sign-in opened it.
SignedIn(j) ==
    /\ j.at = "authenticating"
    /\ IF screen.name = "connect"
       THEN /\ screen' = Mounted("home", vault) /\ Unmounted
            /\ joining' = Orphans(joining \ {j}) /\ asks' = Orphans(asks)
            /\ past' = [past EXCEPT !.loose = @ \/ board.has = "secret"]
       ELSE joining' = joining \ {j} /\ UNCHANGED <<screen, sheet, asks, board, past>>
    /\ UNCHANGED <<vault, jobs, budget>>

(* A key that was stored stays. A generated one is shown for backup only if    *)
(* the screen knew of an earlier one when it was mounted; opening the modal    *)
(* clears the timers of a secret that arrived while it was closed.             *)
SignInFails(j) ==
    /\ joining' = joining \ {j}
    /\ screen' = [screen EXCEPT !.loading = IF j.here THEN "none" ELSE @]
    /\ IF j.here /\ j.generated /\ screen.needsBackup /\ ~sheet.open
       THEN /\ sheet' = [sheet EXCEPT !.open = TRUE, !.timer = FALSE]
            /\ past' = [past EXCEPT !.untimed = sheet.shown]
       ELSE UNCHANGED <<sheet, past>>
    /\ UNCHANGED <<vault, jobs, asks, board, budget>>

HandlePaste ==
    /\ screen.name = "connect" /\ screen.loading # "generate" /\ ~sheet.open /\ ~board.paste
    /\ board' = [board EXCEPT !.paste = TRUE]
    /\ UNCHANGED <<vault, screen, joining, jobs, sheet, asks, budget, past>>

-----------------------------------------------------------------------------
(* The lock wizard of SettingsScreen; nothing else is shown above it *)

Wizard(from, to) ==
    /\ screen.name = "settings" /\ ~sheet.open /\ screen.wizard \in from
    /\ screen' = [screen EXCEPT !.wizard = to, !.busy = FALSE]
    /\ UNCHANGED <<vault, joining, jobs, sheet, asks, board, past>>

(* handleToggleAppLock: the switch turns the lock on or off; it never adds a   *)
(* second method to a first.                                                   *)
ToggleStep == IF vault.bio THEN "disableBio" ELSE IF vault.pin THEN "disablePin" ELSE "choose"
HandleToggleAppLock == Spends("lock") /\ Wizard({"none"}, ToggleStep)
CloseWizard == Wizard({"choose", "pinSet", "disableBio", "disablePin"}, "none") /\ UNCHANGED budget
BeginPinEnroll == ~screen.busy /\ Wizard({"choose", "pinConfirm"}, "pinSet") /\ UNCHANGED budget
PinSetNext == Wizard({"pinSet"}, "pinConfirm") /\ UNCHANGED budget

PinConfirm ==
    /\ screen.name = "settings" /\ screen.wizard = "pinConfirm"
    /\ vault' = [vault EXCEPT !.pin = TRUE]
    /\ screen' = [screen EXCEPT !.wizard = "none"]
    /\ UNCHANGED <<joining, jobs, sheet, asks, board, budget, past>>

(* Biometrics are enrolled, or the lock is removed, in three awaits: the       *)
(* prompt, the read of the key and its write. Cancelling the wizard forgets    *)
(* that it is busy, so two can be under way.                                   *)
StartJob(step, on) ==
    /\ screen.name = "settings" /\ screen.wizard = step /\ ~screen.busy
    /\ screen' = [screen EXCEPT !.busy = TRUE]
    /\ jobs' = jobs \cup {[on |-> on, at |-> "prompt", key |-> NoKey]}
    /\ past' = [past EXCEPT !.raced = @ \/ jobs # {} \/ joining # {}]
    /\ UNCHANGED <<vault, joining, sheet, asks, board, budget>>
EnrollBiometrics == StartJob("choose", TRUE)
HandleDisableWithPin == \E step \in {"disableBio", "disablePin"} : StartJob(step, FALSE)

\* The end of a job closes whatever wizard is open.
JobOver(j, wizard) ==
    /\ jobs' = jobs \ {j}
    /\ screen' = [screen EXCEPT !.wizard = wizard, !.busy = FALSE]

PromptAnswered(j) ==
    /\ j.at = "prompt"
    /\ \/ /\ vault' = IF j.on THEN [vault EXCEPT !.bio = TRUE]
                      ELSE [vault EXCEPT !.bio = FALSE, !.pin = FALSE]
          /\ jobs' = (jobs \ {j}) \cup {[j EXCEPT !.at = "read"]}
          /\ UNCHANGED screen
       \/ JobOver(j, screen.wizard) /\ UNCHANGED vault
    /\ UNCHANGED <<joining, sheet, asks, board, budget, past>>

\* applySecretKeyLockPolicy, best effort.
ReadForPolicy(j) ==
    /\ j.at = "read"
    /\ \E k \in Readable :
          IF k = NoKey
          THEN JobOver(j, "none") /\ past' = [past EXCEPT !.refused = @ \/ vault.key # NoKey]
          ELSE jobs' = (jobs \ {j}) \cup {[j EXCEPT !.at = "write", !.key = k]} /\ UNCHANGED <<screen, past>>
    /\ UNCHANGED <<vault, joining, sheet, asks, board, budget>>

\* Mutant: the protection of the key is left as it was.
PolicyForgotten(j) == vault.guarded
Policy(j) == j.on

WriteForPolicy(j) ==
    /\ j.at = "write"
    /\ StoreSecretKey(vault, j.key, Policy(j))
    /\ JobOver(j, "none")
    /\ UNCHANGED <<joining, sheet, asks, board, budget>>

-----------------------------------------------------------------------------
(* WalletBackupModal *)

Masked(s) == [s EXCEPT !.held = NoKey, !.shown = FALSE, !.timer = FALSE]

\* What an answer may bring: the wallet screen remembers what it generated.
Secrets(a) == IF a.here /\ screen.name = "connect" THEN {screen.generated} ELSE Readable

(* The settings screen opens backup and export together, and only for a wallet *)
(* that it took for backed up when it was mounted. Opening clears the timers   *)
(* of a secret that arrived while the modal was closed, but not the secret.    *)
HandleExportWallet ==
    /\ screen.name = "settings" /\ screen.wizard = "none" /\ ~sheet.open /\ screen.backedUp
    /\ Spends("open")
    /\ sheet' = [sheet EXCEPT !.open = TRUE, !.timer = FALSE]
    /\ past' = [past EXCEPT !.untimed = sheet.shown]
    /\ UNCHANGED <<vault, screen, joining, jobs, asks, board>>

Ask(what) ==
    /\ sheet.open /\ Spends("ask")
    /\ asks' = asks \cup {[what |-> what, here |-> TRUE]}
    /\ UNCHANGED <<vault, screen, joining, jobs, sheet, board, past>>
HandleReveal == sheet.step = "reveal" /\ Ask("reveal")
HandleConfirm == sheet.step = "confirm" /\ Ask("confirm")

Answered(a, what) == a.what = what /\ asks' = asks \ {a}

(* The answer to a reveal is shown whether or not the modal is still open. *)
Reveal(a) ==
    /\ Answered(a, "reveal")
    /\ \E k \in Secrets(a) :
          sheet' = IF k = NoKey \/ ~a.here THEN sheet
                   ELSE [sheet EXCEPT !.held = k, !.shown = TRUE, !.timer = TRUE]
    /\ past' = [past EXCEPT !.untimed = @ /\ sheet' = sheet]
    /\ UNCHANGED <<vault, screen, joining, jobs, board, budget>>

AutoHide ==
    /\ sheet.timer /\ sheet' = Masked(sheet)
    /\ UNCHANGED <<vault, screen, joining, jobs, asks, board, budget, past>>

Turn(s) == sheet.open /\ sheet' = s /\ UNCHANGED <<vault, screen, joining, jobs, asks, board, budget, past>>
SavedIt == sheet.step = "reveal" /\ sheet.shown /\ Turn([Masked(sheet) EXCEPT !.step = "confirm"])
BackToReveal == sheet.step = "confirm" /\ Turn([sheet EXCEPT !.step = "reveal", !.shown = FALSE])

CopyToClipboard ==
    /\ sheet.open /\ sheet.step = "reveal" /\ sheet.shown /\ sheet.held # NoKey
    /\ board' = [board EXCEPT !.has = "secret", !.wipe = TRUE]
    /\ past' = [past EXCEPT !.loose = FALSE]
    /\ UNCHANGED <<vault, screen, joining, jobs, sheet, asks, budget>>

(* The key typed in is the key: the flag is written, on the wallet screen by   *)
(* two hooks, and that screen closes the modal.                                *)
OnConnect(a) == a.here /\ screen.name = "connect"
ConfirmedSheet(a) ==
    IF OnConnect(a) THEN [Masked(sheet) EXCEPT !.open = FALSE, !.step = "success"]
    ELSE IF a.here THEN [sheet EXCEPT !.step = "success"] ELSE sheet

Confirm(a) ==
    /\ Answered(a, "confirm")
    /\ \/ /\ \E k \in Secrets(a) : k # NoKey
          /\ vault' = [vault EXCEPT !.backup = TRUE] /\ sheet' = ConfirmedSheet(a)
          /\ screen' = IF OnConnect(a) THEN [screen EXCEPT !.generated = NoKey, !.needsBackup = FALSE] ELSE screen
       \/ UNCHANGED <<vault, sheet, screen>>
    /\ UNCHANGED <<joining, jobs, board, budget, past>>

HandleClose == Turn([Masked(sheet) EXCEPT !.open = FALSE, !.step = "reveal"])

-----------------------------------------------------------------------------
(* WalletExportModal: closing it leaves its step, and the backup modal's *)

ExportTurn(from, to) == screen.name = "settings" /\ sheet.export = from /\ Turn([sheet EXCEPT !.export = to])
ProceedExport == ExportTurn("warning", "export") \/ ExportTurn("export", "warning")
CloseExport == screen.name = "settings" /\ Turn([Masked(sheet) EXCEPT !.open = FALSE])
AskExport == screen.name = "settings" /\ sheet.export = "export" /\ \E what \in {"copy", "file"} : Ask(what)

\* No timer, whatever its button says.
ExportCopied(a) ==
    /\ Answered(a, "copy")
    /\ \E k \in Readable : IF k = NoKey THEN UNCHANGED <<board, past>>
                           ELSE board' = [board EXCEPT !.has = "secret"] /\ past' = [past EXCEPT !.loose = TRUE]
    /\ UNCHANGED <<vault, screen, joining, jobs, sheet, budget>>

\* The file stays even if it cannot be shared.
ExportWritten(a) ==
    /\ Answered(a, "file")
    /\ \E k \in Readable :
          sheet' = IF k = NoKey \/ ~a.here THEN sheet ELSE [sheet EXCEPT !.export = "exported"]
    /\ UNCHANGED <<vault, screen, joining, jobs, board, budget, past>>

-----------------------------------------------------------------------------
(* The clipboard *)

Emptied == [board EXCEPT !.has = "other", !.wipe = FALSE]
WipeTimer ==
    /\ board.wipe \/ board.paste
    /\ board' = IF board.wipe THEN Emptied ELSE [board EXCEPT !.has = "other", !.paste = FALSE]
    /\ past' = [past EXCEPT !.loose = FALSE]
    /\ UNCHANGED <<vault, screen, joining, jobs, sheet, asks, budget>>

\* Every mounted hook empties it when the application goes to the background.
Background ==
    /\ screen.name # "home" /\ board' = Emptied /\ past' = [past EXCEPT !.loose = FALSE]
    /\ UNCHANGED <<vault, screen, joining, jobs, sheet, asks, budget>>

CustodyNext ==
    \/ OpenSettings \/ LeaveSettings \/ SignOut \/ ForgetPin \/ ProcessDies
    \/ \E k \in Keys, g \in BOOLEAN : StartWallet(k, g)
    \/ ImportRefused \/ HandlePaste
    \/ \E j \in joining : StoreWallet(j) \/ SignedIn(j) \/ SignInFails(j)
    \/ HandleToggleAppLock \/ CloseWizard \/ BeginPinEnroll \/ PinSetNext \/ PinConfirm
    \/ EnrollBiometrics \/ HandleDisableWithPin
    \/ \E j \in jobs : PromptAnswered(j) \/ ReadForPolicy(j) \/ WriteForPolicy(j)
    \/ HandleExportWallet \/ HandleReveal \/ HandleConfirm \/ AutoHide
    \/ SavedIt \/ BackToReveal \/ CopyToClipboard \/ HandleClose
    \/ ProceedExport \/ CloseExport \/ AskExport
    \/ \E a \in asks : Reveal(a) \/ Confirm(a) \/ ExportCopied(a) \/ ExportWritten(a)
    \/ WipeTimer \/ Background

\* A new installation, or a device signed in with a wallet that was backed up.
CustodyInit ==
    /\ vault \in [key : Keys \cup {NoKey}, guarded : {FALSE}, backup : BOOLEAN, bio : {FALSE}, pin : {FALSE}]
    /\ vault.backup <=> vault.key # NoKey
    /\ screen = Mounted(IF vault.key = NoKey THEN "connect" ELSE "home", vault)
    /\ joining = {} /\ jobs = {} /\ sheet = HiddenSheet /\ asks = {}
    /\ board = [has |-> "other", wipe |-> FALSE, paste |-> FALSE]
    /\ budget \in Budgets
    /\ past = [raced |-> FALSE, refused |-> FALSE, untimed |-> FALSE, loose |-> FALSE]

CustodySpec == CustodyInit /\ [][CustodyNext]_custodyVars

-----------------------------------------------------------------------------
(* The stored key asks for the device's owner exactly while biometrics lock    *)
(* the application, over enrolments, removals, new wallets and sign-outs,      *)
(* unless two of these overlapped or the device refused one of the writes      *)
(* (applySecretKeyLockPolicy, isBiometricsEnabled).                            *)
KeyFollowsLock ==
    jobs = {} /\ joining = {} /\ ~past.raced /\ ~past.refused /\ vault.key # NoKey
        => vault.guarded = vault.bio

(* A key on the screen goes by itself, except after it arrived while its modal *)
(* was closed (WalletBackupModal, "reveal with 30 s auto-hide").               *)
RevealIsTimed ==
    sheet.open /\ sheet.step = "reveal" /\ sheet.shown /\ sheet.held # NoKey /\ ~past.untimed => sheet.timer

(* A key that the backup modal put on the clipboard will be wiped as long as    *)
(* its screen lives ("Clipboard will clear in 30s").                           *)
CopyIsWiped == board.has = "secret" /\ ~past.loose => board.wipe

CustodyHolds == KeyFollowsLock /\ RevealIsTimed /\ CopyIsWiped
=============================================================================
