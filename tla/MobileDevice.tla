---------------------------- MODULE MobileDevice ----------------------------
(* The mobile application as a whole: its store, gate and lending (MobileApp)  *)
(* and its handling of the stored secret key (KeyCustody).  They are   *)
(* two views of one secure storage, each with variables of its own.           *)
EXTENDS MobileApp, KeyCustody

(* What a device shows and signs with: behind a closed gate the store holds    *)
(* no session, a session in the store has its own key beside it, the key is    *)
(* protected while biometrics lock the application, and hides and leaves the   *)
(* clipboard by itself (useAppLock, AppLockProvider, the store's sign-in,      *)
(* sign-out and launch, useWalletSecurity and the backup modal).               *)
SecretsAreGuarded == GateHolds /\ SessionHasItsKey /\ CustodyHolds
=============================================================================
