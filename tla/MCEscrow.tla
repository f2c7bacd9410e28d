------------------------------ MODULE MCEscrow ------------------------------
(* Instances of Escrow for TLC: small widths so that the ledger sequence   *)
(* and the id counter reach their limits.                                  *)
EXTENDS Escrow

CONSTANTS alice, bob

MCAccounts == {alice, bob}
MCAuthSets == {{}, {alice}, {bob}}
MCAmounts == {-1, 0, 1, 2}
MCTimeouts == {1, 3}
=============================================================================
