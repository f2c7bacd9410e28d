------------------------------ MODULE Accounts ------------------------------
(***************************************************************************)
(* PaymentsService.getOrCreateStellarAccount of apps/api for one user: the *)
(* account row, unique per user, and the calls that find none and each     *)
(* make a key, have it funded and try to insert it.  GET /payments/account,*)
(* a first anchor transfer and a first escrow deposit all come here.       *)
(***************************************************************************)
CONSTANTS
  Calls,     \* bound: the requests that ask for the account; also names the key each makes
  Testnet    \* whether the configured network is testnet, where Friendbot funds keys

VARIABLES
  account,   \* the key in the user's stellar_accounts row
  asking,    \* where each call is
  funded     \* keys Friendbot has created on the network

accountVars == <<account, asking, funded>>

NoKey == <<"no key">>

AccountsTypeOK ==
  /\ account \in Calls \cup {NoKey}
  /\ asking \in [Calls -> [pc : {"idle", "make", "insert", "answered", "failed"},
                           answer : Calls \cup {NoKey}]]
  /\ funded \subseteq Calls

AccountsInit ==
  /\ account = NoKey
  /\ asking = [c \in Calls |-> [pc |-> "idle", answer |-> NoKey]]
  /\ funded = {}

At(c, pc) == asking[c].pc = pc
GoTo(c, pc) == asking' = [asking EXCEPT ![c].pc = pc]
Answer(c, key) == asking' = [asking EXCEPT ![c] = [pc |-> "answered", answer |-> key]]

Find(c) ==
  /\ At(c, "idle")
  /\ IF account = NoKey THEN GoTo(c, "make") ELSE Answer(c, account)
  /\ UNCHANGED <<account, funded>>

(* createAccountSigner, then on testnet Friendbot, which funds the key     *)
(* although its answer may be lost.                                        *)
MakeKey(c) ==
  /\ At(c, "make")
  /\ funded' = IF Testnet THEN funded \cup {c} ELSE funded
  /\ \E pc \in {"insert", "failed"} : GoTo(c, pc)
  /\ UNCHANGED account

\* Mutant: the insert resolves the conflict by overwriting the row.
InsertOver(c) ==
  /\ At(c, "insert")
  /\ account' = c
  /\ Answer(c, c)
  /\ UNCHANGED funded

(* user_id is unique and nobody handles the violation: the call that comes *)
(* second fails, and the key it made belongs to no row.                    *)
Insert(c) ==
  /\ At(c, "insert")
  /\ \/ account = NoKey /\ account' = c /\ Answer(c, c)
     \/ account # NoKey /\ GoTo(c, "failed") /\ UNCHANGED account
  /\ UNCHANGED funded

(* Vault, Friendbot or the database throws, or the process dies.           *)
AskFails(c) ==
  /\ asking[c].pc \in {"idle", "make", "insert"}
  /\ GoTo(c, "failed")
  /\ UNCHANGED <<account, funded>>

AccountsNext ==
  \E c \in Calls : Find(c) \/ MakeKey(c) \/ Insert(c) \/ AskFails(c)

(* Whoever was told a key was told the one the row keeps, and on testnet   *)
(* that key has been funded.                                               *)
OneAccount ==
  /\ \A c \in Calls : At(c, "answered") => asking[c].answer = account
  /\ Testnet /\ account # NoKey => account \in funded
=============================================================================
