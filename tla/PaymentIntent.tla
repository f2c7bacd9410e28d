---------------------------- MODULE PaymentIntent ----------------------------
(***************************************************************************)
(* What POST /payments promises of an idempotency key, whoever asks and    *)
(* however often: the key is bound once, for good, to one account and one  *)
(* payment, and the network pays it at most once, never before it is       *)
(* bound.                                                                  *)
(***************************************************************************)
CONSTANTS Keys, Users, Shapes, Unbound

VARIABLES
  intent,   \* what each key is bound to
  paid      \* payments made, each with the identity the network gives it

Terms == [user : Users, shape : Shapes]

Init ==
  /\ intent = [k \in Keys |-> Unbound]
  /\ paid = {}

Bind(k) ==
  /\ intent[k] = Unbound
  /\ \E terms \in Terms : intent' = [intent EXCEPT ![k] = terms]
  /\ UNCHANGED paid

Pay(k) ==
  /\ intent[k] # Unbound
  /\ ~\E p \in paid : p.key = k
  /\ \E p \in paid' : /\ p.key = k
                      /\ p.terms = intent[k]
                      /\ paid' = paid \cup {p}
  /\ UNCHANGED intent

Next == \E k \in Keys : Bind(k) \/ Pay(k)

Spec == Init /\ [][Next]_<<intent, paid>>
=============================================================================
