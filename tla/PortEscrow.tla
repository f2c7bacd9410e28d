----------------------------- MODULE PortEscrow -----------------------------
(***************************************************************************)
(* Escrows of the FastAPI port (apps/api-py), which keeps the escrows      *)
(* table without calling the contract: hashes and on-chain ids are made    *)
(* up.  A call decides on the row as its session has loaded it, and its    *)
(* commit writes what it has changed of that, whatever the row has become. *)
(***************************************************************************)
EXTENDS Integers

CONSTANTS
  Keys,   \* idempotency keys; also names the row of the key
  Calls,  \* bound: calls
  None,   \* no row, no call, no hash
  Over    \* a call that is over

VARIABLES
  escrows,  \* escrows, by idempotency key
  calls     \* calls under way

escrowVars == <<escrows, calls>>

Status == {"PENDING", "LOCKED", "RELEASED", "REFUNDED"}
(* onChain: it has an on-chain id.  final: which call made the finalize    *)
(* hash.                                                                   *)
Row == [status : Status, deposited : BOOLEAN, onChain : BOOLEAN, final : {None, "RELEASED", "REFUNDED"}]
Call == [pc : {"insert", "refresh", "lock", "release", "refund", "reconcile"}, key : Keys,
         read : Status]

TypeOK ==
  /\ escrows \in [Keys -> Row \cup {None}]
  /\ calls \in [Calls -> Call \cup {None, Over}]

Init ==
  /\ escrows = [k \in Keys |-> None]
  /\ calls = [c \in Calls |-> None]

New == [status |-> "PENDING", deposited |-> FALSE, onChain |-> FALSE, final |-> None]

Begin(c, pc, k, read) ==
  /\ calls[c] = None
  /\ calls' = [calls EXCEPT ![c] = [pc |-> pc, key |-> k, read |-> read]]
  /\ UNCHANGED escrows
At(c, pc) == calls[c] \notin {None, Over} /\ calls[c].pc = pc
Return(c) == calls' = [calls EXCEPT ![c] = Over]

(* deposit_for_user: look up the key, insert the row, set it LOCKED.  An   *)
(* insert of a key that is taken by then fails.                            *)
LookUp(c, k) ==
  /\ escrows[k] = None
  /\ Begin(c, "insert", k, "PENDING")

Insert(c) ==
  /\ At(c, "insert")
  /\ LET k == calls[c].key
     IN IF escrows[k] = None
        THEN /\ escrows' = [escrows EXCEPT ![k] = New]
             /\ calls' = [calls EXCEPT ![c].pc = "refresh"]
        ELSE Return(c) /\ UNCHANGED escrows

(* The call reads back the row it inserted, and others may have taken up.  *)
Refresh(c) ==
  /\ At(c, "refresh")
  /\ calls' = [calls EXCEPT ![c].pc = "lock", ![c].read = escrows[calls[c].key].status]
  /\ UNCHANGED escrows

(* A status that was LOCKED already is not written.                        *)
Lock(c) ==
  /\ At(c, "lock")
  /\ LET k == calls[c].key
         status == IF calls[c].read = "LOCKED" THEN escrows[k].status ELSE "LOCKED"
     IN escrows' = [escrows EXCEPT ![k].status = status, ![k].deposited = TRUE, ![k].onChain = TRUE]
  /\ Return(c)

\* Mutant: the status is not looked at.
ReadAnyway(c, pc, k) ==
  /\ escrows[k] # None
  /\ Begin(c, pc, k, escrows[k].status)

(* release_for_user and refund_for_user go on with a LOCKED row,           *)
(* reconcile_for_user with a PENDING one; its cooldown never applies, as   *)
(* the cache belongs to the request.                                       *)
Read(c, pc, k) ==
  /\ escrows[k] # None
  /\ escrows[k].status = (IF pc = "reconcile" THEN "PENDING" ELSE "LOCKED")
  /\ Begin(c, pc, k, escrows[k].status)

\* Mutant: a finalize hash that is there is kept.
CloseKeepingHash(k, to) ==
  escrows' = [escrows EXCEPT ![k].status = to, ![k].final = IF @ = None THEN to ELSE @]

Close(k, to) == escrows' = [escrows EXCEPT ![k].status = to, ![k].final = to]

Release(c) == At(c, "release") /\ Close(calls[c].key, "RELEASED") /\ Return(c)
Refund(c) == At(c, "refund") /\ Close(calls[c].key, "REFUNDED") /\ Return(c)

(* reconcile_for_user makes up a deposit hash, but no on-chain id.         *)
Reconcile(c) ==
  /\ At(c, "reconcile")
  /\ LET k == calls[c].key
     IN escrows' = [escrows EXCEPT ![k].status = "LOCKED", ![k].deposited = TRUE]
  /\ Return(c)

(* The database fails before the commit.                                   *)
Abandon(c) ==
  /\ calls[c] \notin {None, Over}
  /\ Return(c)
  /\ UNCHANGED escrows

(* The process is restarted.                                               *)
Restart ==
  /\ calls' = [c \in Calls |-> IF calls[c] = None THEN None ELSE Over]
  /\ UNCHANGED escrows

Next ==
  \E c \in Calls :
    \/ \E k \in Keys : LookUp(c, k) \/ \E pc \in {"release", "refund", "reconcile"} : Read(c, pc, k)
    \/ Insert(c)
    \/ Refresh(c)
    \/ Lock(c)
    \/ Release(c)
    \/ Refund(c)
    \/ Reconcile(c)
    \/ Abandon(c)

-----------------------------------------------------------------------------
(* A row that is RELEASED or REFUNDED was deposited, and its finalize hash *)
(* is of the call that closed it last, although release and refund of one  *)
(* escrow may both have read it LOCKED and write one after the other       *)
(* (release_for_user, refund_for_user).                                    *)
ClosedAsWritten ==
  \A k \in Keys : escrows[k] # None /\ escrows[k].status \in {"RELEASED", "REFUNDED"} =>
    escrows[k].deposited /\ escrows[k].final = escrows[k].status

(* A closed row may be LOCKED once more by its own deposit, or by a        *)
(* reconcile that has held it since it was PENDING.  When no such call is  *)
(* left, it is closed for good (deposit_for_user, reconcile_for_user). *)
ClosedForGood(k) ==
  /\ escrows[k] # None
  /\ escrows[k].status \in {"RELEASED", "REFUNDED"}
  /\ ~\E c \in Calls : calls[c] \notin {None, Over} /\ calls[c].pc \in {"refresh", "lock", "reconcile"} /\ calls[c].key = k
=============================================================================
