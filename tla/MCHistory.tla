------------------------------ MODULE MCHistory ------------------------------
(***************************************************************************)
(* Small instances of the wallet with its history for TLC.                  *)
(***************************************************************************)
EXTENDS MCWallet, WalletHistory
=============================================================================
