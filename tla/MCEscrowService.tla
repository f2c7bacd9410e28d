-------------------------- MODULE MCEscrowService --------------------------
(* Instances of EscrowService for TLC: alice's account is the service's,   *)
(* bob uses the contract by himself and is the payee.                      *)
EXTENDS EscrowService, TLC

CONSTANTS alice, bob

MCAccounts == {alice, bob}
MCCustomers == {alice}
MCAuthSets == {{}, {alice}, {bob}}
MCSymmetry == Permutations(Calls) \cup Permutations(Keys) \cup Permutations(Askers)

(* A request for the account touches nothing of the escrows, and nothing   *)
(* but the account's row is read from it, which never changes: every       *)
(* behaviour has the same escrow states as one in which the requests for   *)
(* the account all end before the escrows move.                            *)
AskersFirst ==
  \/ UNCHANGED <<vars, serviceVars>>
  \/ \A p \in Askers : asking[p].pc \in {"answered", "failed"}
=============================================================================
