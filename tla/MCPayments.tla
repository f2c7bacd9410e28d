----------------------------- MODULE MCPayments -----------------------------
(* Values of the constants for model checking Payments.                    *)
EXTENDS Payments, TLC

MCSameMemo == [r \in Requests |-> "rent"]

(* Payees elsewhere, or all of them accounts of the first user.            *)
MCNobodys == [to \in Payees |-> "elsewhere"]
MCAlices == [to \in Payees |-> "alice"]

(* What is asked for: lunch; or food, by a strict send that is quoted 20,  *)
(* or by a strict receive of 19, which that strict send may come to.       *)
MCLunch == {[to |-> "lunch", mode |-> "plain", amount |-> 5, bps |-> 0]}
MCFood == {[to |-> "food", mode |-> "strictSend", amount |-> 10, bps |-> 50],
           [to |-> "food", mode |-> "strictReceive", amount |-> 19, bps |-> 50]}
MCOffers == {{}, {10, 20}}

(* Alice buys herself food by a strict receive, and the other user sends   *)
(* her some by a strict send.  That may deliver its quote, or as much as   *)
(* her own payment, and so does a stranger's: then it can stand for hers.  *)
MCToAlice ==
  /\ {[user |-> handlers[r].user, mode |-> handlers[r].shape.mode] : r \in Requests} =
       {[user |-> "alice", mode |-> "strictReceive"], [user |-> "bob", mode |-> "strictSend"]}
  /\ \A p \in incoming : p.shape.dest = 19
MCSymmetry == Permutations(Requests) \cup Permutations(Keys)
=============================================================================
