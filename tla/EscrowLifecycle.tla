-------------------------- MODULE EscrowLifecycle --------------------------
(***************************************************************************)
(* What the escrow contract promises to a payer and a payee, without       *)
(* balances, counters or tokens: an escrow id is locked at most once, is   *)
(* closed at most once, and is closed only with the payer's authorization  *)
(* unless it is a refund at or after the deadline fixed when it was locked *)
(* (contracts/escrow/README.md, "Contract interface" and "Trust and        *)
(* custody model").                                                        *)
(***************************************************************************)
EXTENDS Naturals

CONSTANTS Ids, Parties

VARIABLES
  now,       \* ledger sequence
  auth,      \* parties that authorised the latest transaction
  phase,     \* Ids -> "Absent", "Locked", "Released" or "Refunded"
  payer,     \* Ids -> who funds the escrow (meaningless while "Absent")
  deadline   \* Ids -> first ledger at which a refund needs no authorization

vars == <<now, auth, phase, payer, deadline>>

Init ==
  /\ now \in Nat
  /\ auth = {}
  /\ phase = [id \in Ids |-> "Absent"]
  /\ payer \in [Ids -> Parties]
  /\ deadline \in [Ids -> Nat]

(* Time passes and transactions that touch no escrow run. *)
Elapse ==
  /\ now' \in Nat /\ now' >= now
  /\ auth' \in SUBSET Parties
  /\ UNCHANGED <<phase, payer, deadline>>

(* A payer locks a fresh id, choosing its deadline. *)
Lock(id) ==
  /\ phase[id] = "Absent"
  /\ auth' \in SUBSET Parties
  /\ phase' = [phase EXCEPT ![id] = "Locked"]
  /\ payer' = [payer EXCEPT ![id] = payer'[id]] /\ payer'[id] \in auth'
  /\ deadline' = [deadline EXCEPT ![id] = deadline'[id]] /\ deadline'[id] >= now
  /\ UNCHANGED now

(* A locked escrow is closed, by its payer or by the passing of its deadline. *)
Close(id, to) ==
  /\ phase[id] = "Locked"
  /\ auth' \in SUBSET Parties
  /\ payer[id] \in auth' \/ (to = "Refunded" /\ now >= deadline[id])
  /\ phase' = [phase EXCEPT ![id] = to]
  /\ UNCHANGED <<now, payer, deadline>>

Next ==
  \/ Elapse
  \/ \E id \in Ids : Lock(id) \/ \E to \in {"Released", "Refunded"} : Close(id, to)

Spec == Init /\ [][Next]_vars
=============================================================================
