-------------------------- MODULE MCWalletProvisioning --------------------------
(* Small instances of WalletProvisioning for TLC: one key store that all   *)
(* relays share and that survives them, as KmsSecretStore promises.        *)
EXTENDS WalletProvisioning, TLC

CONSTANTS kms

OneStore == [p \in Relay |-> kms]

\* Behaviours that meet every kind of fault, and those that meet one.
AllKinds == { {"kms"}, Kind }
OnlyCrashes == { {"crash"} }
===============================================================================
