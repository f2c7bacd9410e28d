--------------------------- MODULE PaymentsProofs ---------------------------
(***************************************************************************)
(* Proofs about Payments for any requests, keys, users, terms, windows and *)
(* numbers of attempts and readers.  Liveness is left to TLC.              *)
(***************************************************************************)
EXTENDS Payments, TLAPS

(* Requests that went past the insert, and those with a transaction about. *)
Live(r) == handlers[r].pc \in {"created", "sent", "paid", "failing"}
Traced(r) == (\E t \in network : t.req = r) \/ (\E p \in payments : p.req = r)
Involved(r) == Live(r) \/ Traced(r)
Definite == {"refused", "sequence_conflict"}
RefusedRow(k) == rows[k].status = "FAILED" /\ rows[k].code \in Definite

(* A request involved has its row, of its terms. *)
RowsFirst ==
  \A r \in Requests : Involved(r) =>
    /\ rows[handlers[r].key] # NoRow
    /\ rows[handlers[r].key].user = handlers[r].user
    /\ rows[handlers[r].key].shape = handlers[r].shape
(* A transaction has the terms of the request that built it. *)
HashesAgree ==
  /\ \A t \in network : t.hash.user = handlers[t.req].user /\ t.hash.shape = handlers[t.req].shape
  /\ \A p \in payments : p.hash.user = handlers[p.req].user /\ p.hash.shape = handlers[p.req].shape
(* Workers are busy with rows there are. *)
WorkersBehind ==
  \A w \in Workers :
    /\ \A k \in workers[w].todo : rows[k] # NoRow
    /\ workers[w].write # NoWrite => rows[workers[w].write.key] # NoRow
(* Of the requests for a key, only the one whose insert went through is involved. *)
OneOwner ==
  \A r, s \in Requests :
    Involved(r) /\ Involved(s) /\ handlers[r].key = handlers[s].key => r = s
(* A request about to build a transaction has none about. *)
NoneBefore == \A r \in Requests : handlers[r].pc \in {"new", "created"} => ~Traced(r)
(* One attempt is left at least to a request about to build a transaction. *)
AttemptsLeft ==
  \A r \in Requests : handlers[r].pc \in {"new", "created"} => handlers[r].attempt < MaxAttempts
(* A request has one transaction about at most. *)
OneTransaction ==
  /\ \A t, u \in network : t.req = u.req => t = u
  /\ \A p, q \in payments : p.req = q.req => p = q
  /\ \A t \in network, p \in payments : t.req # p.req
(* A refusal leaves none about, and its row has nobody left to change that. *)
RefusedClear ==
  /\ \A r \in Requests :
       handlers[r].pc = "failing" /\ handlers[r].code \in Definite => ~Traced(r)
  /\ \A r \in Requests : RefusedRow(handlers[r].key) => ~Involved(r)

IInv == /\ TypeOK /\ AttemptsLeft /\ RowsFirst /\ HashesAgree /\ WorkersBehind
        /\ OneOwner /\ NoneBefore /\ OneTransaction /\ RefusedClear

-----------------------------------------------------------------------------
(* Quotes *)

(* A product of naturals is one (the provers know it of literals only).    *)
LEMMA ProductNat ==
  ASSUME NEW m \in Nat, NEW n \in Nat
  PROVE  m * n \in Nat
OBVIOUS

(* The amounts of terms are numbers, and so is the slippage.               *)
LEMMA TermsTypes ==
  ASSUME NEW quote \in Terms
  PROVE  /\ quote.dest \in Nat /\ quote.source \in Nat /\ quote.bps \in Nat
         /\ FloatError \in Nat /\ Amounts \subseteq Nat /\ quote.mode \in Modes
<1>1. Amounts \subseteq Nat /\ FloatError \in Nat
  BY QuoteAssumption
<1>2. /\ quote.dest \in Amounts /\ quote.source \in Amounts
      /\ quote.bps \in Slippages /\ quote.mode \in Modes
  BY DEF Terms
<1>3. Slippages \subseteq Nat
  BY DEF Slippages, MAX_SLIPPAGE_BPS
<1> QED BY <1>1, <1>2, <1>3

(* What the receiver is promised holds of the quote's own amount, and the  *)
(* sender's promise likewise: slippage only ever loosens them.             *)
LEMMA QuoteKeepsItself ==
  ASSUME NEW quote \in Terms, NEW paid \in Terms
  PROVE  /\ paid.dest = quote.dest => NotShort(quote, paid)
         /\ paid.source = quote.source => NotOvercharged(quote, paid)
<1>1. quote.dest \in Nat /\ quote.source \in Nat /\ quote.bps \in Nat /\ FloatError \in Nat
  BY TermsTypes
<1>2. quote.dest * quote.bps \in Nat /\ quote.source * quote.bps \in Nat
  BY <1>1, ProductNat
<1>3. quote.dest * (BPS_DENOMINATOR - quote.bps) = quote.dest * BPS_DENOMINATOR - quote.dest * quote.bps
  BY <1>1 DEF BPS_DENOMINATOR
<1>4. quote.source * (BPS_DENOMINATOR + quote.bps) = quote.source * BPS_DENOMINATOR + quote.source * quote.bps
  BY <1>1 DEF BPS_DENOMINATOR
<1>5. ASSUME paid.dest = quote.dest PROVE NotShort(quote, paid)
  BY <1>1, <1>2, <1>3, <1>5 DEF NotShort, BPS_DENOMINATOR
<1>6. ASSUME paid.source = quote.source PROVE NotOvercharged(quote, paid)
  BY <1>1, <1>2, <1>4, <1>6 DEF NotOvercharged, BPS_DENOMINATOR
<1> QED BY <1>5, <1>6

(* Quotes are terms, whatever page they come from.                         *)
LEMMA ShapesAreTerms == Shapes \subseteq Terms
<1>1. ASSUME NEW ask \in Asks, NEW page \in Offers
      PROVE  ResolvePathQuote(ask, page) \subseteq Terms
  <2>1. /\ ask \in [to : Payees, mode : Modes, amount : Amounts, bps : Slippages]
        /\ page \subseteq Amounts
    BY QuoteAssumption
  <2>2. \A source, dest \in Amounts : Priced(ask, source, dest) \in Terms
    BY <2>1 DEF Priced, Terms
  <2>3. MostReceived(page) \subseteq Amounts /\ LeastSent(page) \subseteq Amounts
    BY <2>1 DEF MostReceived, LeastSent
  <2>4. ask.amount \in Amounts /\ ask.mode \in Modes
    BY <2>1
  <2> QED
    BY <2>2, <2>3, <2>4 DEF ResolvePathQuote, FindStrictSendPath, FindStrictReceivePath, Modes
<1> QED BY <1>1 DEF Shapes

(* Whatever the market does to a payment before it is applied, it keeps    *)
(* payee and asset, and both promises of its quote (reduceByBps and        *)
(* increaseByBps, with every rounding they may make).                      *)
LEMMA OutcomesKeepQuote ==
  ASSUME NEW quote \in Terms, NEW paid \in Outcomes(quote)
  PROVE  /\ paid \in Terms /\ paid.to = quote.to
         /\ NotShort(quote, paid) /\ NotOvercharged(quote, paid)
<1>1. /\ quote.dest \in Nat /\ quote.source \in Nat /\ quote.bps \in Nat
      /\ FloatError \in Nat /\ Amounts \subseteq Nat /\ quote.mode \in Modes
  BY TermsTypes
<1>2. CASE quote.mode = "plain"
  <2>1. paid = quote
    BY <1>2 DEF Outcomes
  <2> QED BY <2>1, QuoteKeepsItself
<1>3. CASE quote.mode = "strictSend"
  <2>1. PICK d \in Amounts :
          /\ \E destMin \in 0..d : ReducedByBps(destMin, quote.dest, quote.bps)
          /\ paid = [quote EXCEPT !.dest = d]
    BY <1>3 DEF Outcomes
  <2>2. PICK destMin \in 0..d : ReducedByBps(destMin, quote.dest, quote.bps)
    BY <2>1
  <2>3. paid \in Terms /\ paid.to = quote.to /\ paid.source = quote.source /\ paid.dest = d
    BY <2>1 DEF Terms
  <2>4. PICK reduced \in Int : reduced = quote.dest * (BPS_DENOMINATOR - quote.bps)
    BY <1>1 DEF BPS_DENOMINATOR
  <2>5. NotShort(quote, paid)
    BY <1>1, <2>2, <2>3, <2>4 DEF ReducedByBps, NotShort, BPS_DENOMINATOR
  <2> QED BY <2>3, <2>5, QuoteKeepsItself
<1>4. CASE quote.mode = "strictReceive"
  <2>1. PICK s \in Amounts :
          /\ \E sendMax \in s..(2 * quote.source + FloatError + 1) :
                IncreasedByBps(sendMax, quote.source, quote.bps)
          /\ paid = [quote EXCEPT !.source = s]
    BY <1>4 DEF Outcomes
  <2>2. PICK sendMax \in s..(2 * quote.source + FloatError + 1) :
          IncreasedByBps(sendMax, quote.source, quote.bps)
    BY <2>1
  <2>3. paid \in Terms /\ paid.to = quote.to /\ paid.dest = quote.dest /\ paid.source = s
    BY <2>1 DEF Terms
  <2>4. PICK increased \in Int : increased = quote.source * (BPS_DENOMINATOR + quote.bps)
    BY <1>1 DEF BPS_DENOMINATOR
  <2>5. NotOvercharged(quote, paid)
    BY <1>1, <2>2, <2>3, <2>4 DEF IncreasedByBps, NotOvercharged, BPS_DENOMINATOR
  <2> QED BY <2>3, <2>5, QuoteKeepsItself
<1> QED BY <1>1, <1>2, <1>3, <1>4 DEF Modes

-----------------------------------------------------------------------------
(* Types *)

(* Marking a row that is there leaves a well-typed table. *)
LEMMA MarkType ==
  ASSUME TypeOK, NEW k \in Keys, rows[k] # NoRow,
         NEW hash \in OnLedger \cup {NoHash}, NEW code \in Codes,
         MarkSuccess(k, hash) \/ MarkFailed(k, code) \/ MarkNeedsReview(k)
  PROVE  rows' \in [Keys -> Row \cup {NoRow}]
<1>1. rows[k] \in Row
  BY DEF TypeOK
<1>2. /\ [rows[k] EXCEPT !.status = "SUCCESS", !.hash = hash] \in Row
      /\ [rows[k] EXCEPT !.status = "FAILED", !.code = code] \in Row
      /\ [rows[k] EXCEPT !.status = "NEEDS_REVIEW", !.code = "reconciliation_escalated"] \in Row
  BY <1>1 DEF Row, Codes
<1> QED
  BY <1>2 DEF TypeOK, MarkSuccess, MarkFailed, MarkNeedsReview

(* A request's step leaves well-typed handlers of unchanged terms. *)
HandlersKeep ==
  /\ handlers' \in [Requests -> Handler]
  /\ \A r \in Requests : /\ handlers'[r].key = handlers[r].key
                         /\ handlers'[r].user = handlers[r].user
                         /\ handlers'[r].shape = handlers[r].shape

(* Every way a call goes on keeps what it was asked to do: no step of a   *)
(* sendPayment changes its key, account or payment.                        *)
LEMMA HandlerMoves ==
  ASSUME TypeOK, NEW r \in Requests, NEW code \in Codes,
         NEW pc \in {"new", "created", "sent", "paid", "failing", "done"},
         Goto(r, pc) \/ FailWith(r, code) \/ Finish(r) \/ SubmitFails(r, code)
  PROVE  HandlersKeep
<1>1. handlers[r] \in Handler /\ handlers \in [Requests -> Handler]
  BY DEF TypeOK
<1>2. ASSUME NEW p \in {"new", "created", "sent", "paid", "failing", "done"}, Goto(r, p)
      PROVE  HandlersKeep
  BY <1>1, <1>2 DEF Goto, HandlersKeep, Handler
<1>3. CASE FailWith(r, code)
  <2>1. 0 \in 0 .. MaxAttempts
    BY ClockAssumption
  <2>2. [handlers[r] EXCEPT !.pc = "failing", !.attempt = 0, !.hash = NoHash, !.code = code]
          \in Handler
    BY <1>1, <2>1 DEF Handler
  <2> QED
    BY <1>1, <1>3, <2>2 DEF FailWith, HandlersKeep, Handler
<1>4. CASE Finish(r)
  <2>1. 0 \in 0 .. MaxAttempts /\ "none" \in Codes
    BY ClockAssumption DEF Codes
  <2>2. [handlers[r] EXCEPT !.pc = "done", !.attempt = 0, !.hash = NoHash, !.code = "none"]
          \in Handler
    BY <1>1, <2>1 DEF Handler
  <2> QED
    BY <1>1, <1>4, <2>2 DEF Finish, HandlersKeep, Handler
<1> QED
  BY <1>2, <1>3, <1>4 DEF SubmitFails

(* The terms of a row never change, and no row is taken away. *)
RowsKeep ==
  \A k \in Keys : rows[k] # NoRow =>
    /\ rows'[k] # NoRow
    /\ rows'[k].user = rows[k].user /\ rows'[k].shape = rows[k].shape

(* updateStatus sets a status and a hash or code, and nothing else.        *)
LEMMA MarkKeeps ==
  ASSUME TypeOK, NEW k \in Keys, rows[k] # NoRow,
         NEW hash \in OnLedger \cup {NoHash}, NEW code \in Codes,
         MarkSuccess(k, hash) \/ MarkFailed(k, code) \/ MarkNeedsReview(k)
  PROVE  RowsKeep
<1>1. rows[k] \in Row
  BY DEF TypeOK
<1> DEFINE success == [rows[k] EXCEPT !.status = "SUCCESS", !.hash = hash]
           failed == [rows[k] EXCEPT !.status = "FAILED", !.code = code]
           review == [rows[k] EXCEPT !.status = "NEEDS_REVIEW",
                                     !.code = "reconciliation_escalated"]
<1>2. \A row \in {success, failed, review} :
        row # NoRow /\ row.user = rows[k].user /\ row.shape = rows[k].shape
  BY <1>1 DEF Row, NoRow
<1>3. \E row \in {success, failed, review} : rows' = [rows EXCEPT ![k] = row]
  BY DEF MarkSuccess, MarkFailed, MarkNeedsReview
<1> QED
  BY <1>2, <1>3 DEF TypeOK, RowsKeep

(* What workers are busy with stays there while rows do. *)
LEMMA WorkersStay ==
  ASSUME TypeOK, WorkersBehind, RowsKeep, UNCHANGED workers
  PROVE  WorkersBehind'
<1> SUFFICES ASSUME NEW w \in Workers
             PROVE  /\ \A k \in workers[w].todo : rows'[k] # NoRow
                    /\ workers[w].write # NoWrite => rows'[workers[w].write.key] # NoRow
  BY DEF WorkersBehind
<1>1. /\ workers[w].todo \subseteq Keys
      /\ workers[w].write # NoWrite => workers[w].write.key \in Keys
  BY DEF TypeOK, Write
<1> QED
  BY <1>1 DEF WorkersBehind, RowsKeep

(* Every step of a request, of the network or of a worker is well typed,   *)
(* keeps the terms of handlers and rows, and leaves workers with rows.     *)
Keeps == TypeOK' /\ HandlersKeep /\ RowsKeep /\ WorkersBehind'

(* So does every step of sendPayment.                                      *)
LEMMA HandlerStepKeeps ==
  ASSUME TypeOK, RowsFirst, AttemptsLeft, WorkersBehind, NEW r \in Requests, HandlerStep(r)
  PROVE  Keeps
<1>1. handlers[r] \in Handler /\ handlers[r].key \in Keys
  BY DEF TypeOK, Handler
<1>2. {"none", "refused", "unknown"} \subseteq Codes
  BY DEF Codes
<1>3. ASSUME UNCHANGED <<now, rows, workers, chainVars>>, HandlersKeep
      PROVE  Keeps
  <2>1. RowsKeep
    BY <1>3 DEF RowsKeep
  <2>2. TypeOK'
    BY <1>3 DEF chainVars, TypeOK, HandlersKeep
  <2> QED
    BY <1>3, <2>1, <2>2, WorkersStay DEF Keeps
<1>4. CASE CreateTransaction(r)
  <2>1. HandlersKeep
    BY <1>2, <1>4, HandlerMoves DEF CreateTransaction
  <2> DEFINE row == [user |-> handlers[r].user, shape |-> handlers[r].shape, at |-> now,
                     status |-> "PENDING", hash |-> NoHash, code |-> "none"]
  <2>2. row \in Row /\ row # NoRow
    BY <1>1, <1>2 DEF TypeOK, Row, Handler, NoRow
  <2>3. rows' = [rows EXCEPT ![handlers[r].key] = row]
    BY <1>4 DEF CreateTransaction, InsertRow
  <2>4. RowsKeep
    BY <1>1, <1>4, <2>2, <2>3 DEF RowsKeep, TypeOK, CreateTransaction, KeyUnused
  <2>5. TypeOK'
    BY <1>1, <1>4, <2>1, <2>2, <2>3 DEF CreateTransaction, TypeOK, chainVars, HandlersKeep
  <2> QED
    BY <1>4, <2>1, <2>4, <2>5, WorkersStay DEF Keeps, CreateTransaction
<1>5. CASE BuildAndSubmit(r)
  <2> DEFINE hash == [user |-> handlers[r].user, seq |-> seq[handlers[r].user] + 1,
                      shape |-> handlers[r].shape, memo |-> MemoOf[r], at |-> now]
             h == [handlers[r] EXCEPT !.pc = "sent", !.hash = hash,
                                      !.attempt = handlers[r].attempt + 1]
  <2>1. hash \in Hashes
    BY <1>1 DEF Hashes, Memos, TypeOK, Handler
  <2>2. handlers[r].attempt + 1 \in 0 .. MaxAttempts
    BY <1>1, <1>5, ClockAssumption DEF BuildAndSubmit, AttemptsLeft, Handler
  <2>3. h \in Handler
    BY <1>1, <2>1, <2>2 DEF Handler
  <2>4. handlers' = [handlers EXCEPT ![r] = h]
    BY <1>5 DEF BuildAndSubmit
  <2>5. HandlersKeep
    BY <1>1, <2>3, <2>4 DEF HandlersKeep, TypeOK, Handler
  <2>6. network' \subseteq Tx
    BY <1>5, <2>1 DEF BuildAndSubmit, TypeOK, Tx
  <2>7. UNCHANGED <<now, rows, payments, incoming, seq, workers>>
    BY <1>5 DEF BuildAndSubmit
  <2> QED
    BY <2>5, <2>6, <2>7, WorkersStay DEF Keeps, TypeOK, RowsKeep, HandlersKeep
<1>6. ASSUME HandlersKeep, UNCHANGED <<now, workers, chainVars>>,
             NEW hash \in OnLedger \cup {NoHash}, NEW code \in Codes, Live(r),
             MarkSuccess(handlers[r].key, hash) \/ MarkFailed(handlers[r].key, code)
      PROVE  Keeps
  <2>1. rows[handlers[r].key] # NoRow
    BY <1>6 DEF RowsFirst, Involved
  <2>2. rows' \in [Keys -> Row \cup {NoRow}] /\ RowsKeep
    BY <1>1, <1>6, <2>1, MarkType, MarkKeeps
  <2> QED
    BY <1>6, <2>2, WorkersStay DEF chainVars, Keeps, TypeOK, HandlersKeep
<1>7. CASE RecordSuccess(r)
  <2>1. HandlersKeep
    BY <1>2, <1>7, HandlerMoves DEF RecordSuccess
  <2> QED
    BY <1>1, <1>2, <1>6, <1>7, <2>1 DEF RecordSuccess, Live, Handler, OnLedger
<1>8. CASE RecordFailure(r)
  <2>1. HandlersKeep
    BY <1>2, <1>8, HandlerMoves DEF RecordFailure
  <2> QED
    BY <1>1, <1>2, <1>6, <1>8, <2>1 DEF RecordFailure, Live, Handler, OnLedger
<1>9. CASE QuoteFails(r) \/ ReturnExisting(r) \/ BuildFails(r) \/ ReplyOk(r) \/ ReplyLost(r)
           \/ SuccessWriteFails(r) \/ Abandon(r)
  <2>1. HandlersKeep
    BY <1>2, <1>9, HandlerMoves
       DEF QuoteFails, ReturnExisting, BuildFails, ReplyOk, ReplyLost, SuccessWriteFails, Abandon
  <2> QED
    BY <1>3, <1>9, <2>1
       DEF QuoteFails, ReturnExisting, BuildFails, ReplyOk, ReplyLost, SuccessWriteFails, Abandon
<1> QED
  BY <1>4, <1>5, <1>7, <1>8, <1>9 DEF HandlerStep

(* So does a ledger's inclusion or refusal of a transaction.               *)
LEMMA NetworkStepKeeps ==
  ASSUME TypeOK, WorkersBehind, NEW tx \in network, Land(tx) \/ Refuse(tx)
  PROVE  Keeps
<1>1. tx \in Tx /\ tx.req \in Requests /\ tx.hash \in Hashes
  BY DEF TypeOK, Tx
<1>2. UNCHANGED <<now, rows, workers>> /\ RowsKeep /\ WorkersBehind'
  BY WorkersStay DEF Land, Refuse, RowsKeep
<1>3. UseSequence(tx) \in [Users -> Nat]
  BY <1>1 DEF UseSequence, TypeOK, Hashes
<1>4. CASE Land(tx)
  <2>1. HandlersKeep
    BY <1>4 DEF Land, HandlersKeep, TypeOK
  <2>2. PICK shape \in Outcomes(tx.hash.shape) :
          payments' = payments \cup
            {[hash |-> tx.hash, req |-> tx.req, shape |-> shape, at |-> now]}
    BY <1>4 DEF Land
  <2>3. shape \in Terms
    BY <1>1, ShapesAreTerms, OutcomesKeepQuote DEF Hashes
  <2>4. payments' \subseteq Payment
    BY <1>1, <2>2, <2>3 DEF TypeOK, Payment
  <2> QED
    BY <1>2, <1>3, <1>4, <2>1, <2>4 DEF Keeps, TypeOK, Land, HandlersKeep
<1>5. CASE Refuse(tx)
  <2>1. {"refused", "sequence_conflict"} \subseteq Codes
    BY DEF Codes
  <2>2. CASE UNCHANGED handlers
    BY <1>2, <1>3, <1>5, <2>2 DEF Keeps, TypeOK, Refuse, HandlersKeep
  <2>3. CASE \E code \in {"refused", "sequence_conflict"} : SubmitFails(tx.req, code)
    <3>1. HandlersKeep
      BY <1>1, <2>1, <2>3, HandlerMoves
    <3> QED
      BY <1>2, <1>3, <1>5, <3>1 DEF Keeps, TypeOK, Refuse, HandlersKeep
  <2> QED
    BY <1>5, <2>2, <2>3 DEF Refuse
<1> QED
  BY <1>4, <1>5

(* And so does somebody else's payment to a user.                          *)
LEMMA StrangerStepKeeps ==
  ASSUME TypeOK, WorkersBehind, NEW s \in Strangers, PaidByStranger(s)
  PROVE  Keeps /\ UNCHANGED <<handlers, network, payments, rows>>
<1>1. PICK to \in Payees, amount \in Amounts :
        incoming' = incoming \cup
          {[hash |-> s, at |-> now, shape |-> [to |-> to, mode |-> "plain", source |-> amount,
                                               dest |-> amount, bps |-> 0]]}
  BY DEF PaidByStranger
<1>2. [to |-> to, mode |-> "plain", source |-> amount, dest |-> amount, bps |-> 0] \in Terms
  BY DEF Terms, Modes, Slippages, MAX_SLIPPAGE_BPS
<1>3. incoming' \subseteq Incoming
  BY <1>1, <1>2 DEF TypeOK, Incoming
<1>4. /\ UNCHANGED <<now, rows, handlers, network, payments, seq, workers>>
      /\ HandlersKeep /\ RowsKeep
  BY DEF PaidByStranger, HandlersKeep, RowsKeep, TypeOK
<1> QED BY <1>3, <1>4, WorkersStay DEF Keeps, TypeOK

(* What an account's page of payments has is on the ledger.                *)
LEMMA PageOnLedger ==
  ASSUME TypeOK, NEW user, NEW p \in ForAccount(user)
  PROVE  p \in payments \cup incoming /\ p.hash \in OnLedger /\ p.at \in Nat
BY DEF ForAccount, TypeOK, Payment, Incoming, OnLedger

(* So does every step of a reconciliation pass, a status request or a      *)
(* stream subscription, none of which touches handlers or the network.     *)
LEMMA ReaderStepKeeps ==
  ASSUME TypeOK, WorkersBehind,
         \/ StartPass
         \/ \E v \in Viewers : ViewerStep(v)
         \/ \E w \in Workers : WorkerStep(w)
         \/ Tick
  PROVE  Keeps /\ UNCHANGED <<handlers, chainVars>>
<1>1. UNCHANGED <<handlers, chainVars>> /\ HandlersKeep
  BY DEF StartPass, ViewerStep, WorkerStep, StartCheck, OnEvent, Query, WriteBack, Abort, Tick,
         HandlersKeep, TypeOK
<1>2. \A k \in Keys : Pending(k) => rows[k] # NoRow
  BY DEF Pending, NoRow
<1>3. ASSUME UNCHANGED <<now, rows>>, NEW w \in Workers, NEW todo \in SUBSET Keys,
             NEW write \in Write \cup {NoWrite},
             \A k \in todo : rows[k] # NoRow,
             write # NoWrite => rows[write.key] # NoRow,
             Become(w, todo, write)
      PROVE  Keeps
  <2>1. RowsKeep
    BY <1>3 DEF RowsKeep
  <2>2. TypeOK'
    BY <1>1, <1>3 DEF chainVars, TypeOK, Become
  <2>3. workers'[w] = [todo |-> todo, write |-> write]
        /\ \A v \in Workers \ {w} : workers'[v] = workers[v]
    BY <1>3 DEF TypeOK, Become
  <2>4. WorkersBehind'
    BY <1>3, <2>3 DEF WorkersBehind
  <2> QED
    BY <1>1, <2>1, <2>2, <2>4 DEF Keeps
<1>4. \A w \in Workers : workers[w] = [todo |-> workers[w].todo, write |-> workers[w].write]
                         /\ workers[w].todo \in SUBSET Keys
                         /\ workers[w].write \in Write \cup {NoWrite}
  BY DEF TypeOK
<1>5. Job \in Workers /\ Viewers \subseteq Workers
  BY DEF Workers
<1>6. \A k \in Keys : \A p \in ForAccount(rows[k].user) :
        SuccessWrite(k, p) \in Write /\ SuccessWrite(k, p).key = k
  BY PageOnLedger DEF SuccessWrite, Write
<1>7. \A k \in Keys : ReviewWrite(k) \in Write /\ ReviewWrite(k).key = k
  BY DEF ReviewWrite, Write
<1>8. CASE StartPass
  <2> DEFINE stale == {k \in Keys : Pending(k) /\ IsStale(k)}
  <2>1. Become(Job, stale, NoWrite) /\ UNCHANGED <<now, rows>>
    BY <1>8 DEF StartPass
  <2>2. stale \in SUBSET Keys /\ \A k \in stale : rows[k] # NoRow
    BY <1>2
  <2> HIDE DEF stale
  <2> QED
    BY <1>1, <1>3, <1>5, <2>1, <2>2
<1>9. ASSUME NEW v \in Viewers, NEW k \in Keys, StartCheck(v, k)
      PROVE  Keeps
  <2>1. Become(v, {k}, NoWrite) /\ UNCHANGED <<now, rows>> /\ rows[k] # NoRow
    BY <1>2, <1>9 DEF StartCheck
  <2> QED
    BY <1>3, <1>5, <2>1
<1>10. ASSUME NEW v \in Viewers, NEW k \in Keys, OnEvent(v, k)
       PROVE  Keeps
  <2>1. PICK p \in ForAccount(rows[k].user) : Pending(k) /\ Become(v, {}, SuccessWrite(k, p))
    BY <1>10 DEF OnEvent
  <2>2. UNCHANGED <<now, rows>>
    BY <1>10 DEF OnEvent
  <2> QED
    BY <1>2, <1>3, <1>5, <1>6, <2>1, <2>2
<1>11. ASSUME NEW w \in Workers, NEW k \in Keys, Query(w, k)
       PROVE  Keeps
  <2>1. PICK write \in {SuccessWrite(k, p) : p \in {p \in ForAccount(rows[k].user) : Matches(k, p)}}
                       \cup {IF IsPastEscalationWindow(k) THEN ReviewWrite(k) ELSE NoWrite} :
          Become(w, workers[w].todo \ {k}, write)
    BY <1>11 DEF Query
  <2>2. rows[k] # NoRow /\ \A j \in workers[w].todo \ {k} : rows[j] # NoRow
    BY <1>11 DEF Query, WorkersBehind
  <2>3. write \in Write \cup {NoWrite} /\ (write # NoWrite => write.key = k)
    BY <1>6, <1>7, <2>2
  <2> QED
    BY <1>3, <1>4, <1>11, <2>1, <2>2, <2>3 DEF Query
<1>12. ASSUME NEW w \in Workers, Abort(w)
       PROVE  Keeps
  <2>1. Become(w, {}, NoWrite) /\ UNCHANGED <<now, rows>>
    BY <1>12 DEF Abort
  <2> QED
    BY <1>3, <2>1
<1>13. ASSUME NEW w \in Workers, WriteBack(w)
       PROVE  Keeps
  <2> DEFINE write == workers[w].write
  <2>1. write \in Write /\ write.key \in Keys /\ rows[write.key] # NoRow
    BY <1>4, <1>13 DEF WriteBack, WorkersBehind, Write
  <2>2. \/ \E hash \in OnLedger : MarkSuccess(write.key, hash)
        \/ MarkNeedsReview(write.key)
    BY <1>13, <2>1 DEF WriteBack, Write
  <2>3. "none" \in Codes /\ NoHash \in OnLedger \cup {NoHash}
    BY DEF Codes
  <2>4. rows' \in [Keys -> Row \cup {NoRow}] /\ RowsKeep
    BY <2>1, <2>2, <2>3, MarkType, MarkKeeps
  <2>5. workers' = [workers EXCEPT ![w] = [todo |-> workers[w].todo, write |-> NoWrite]]
    BY <1>13 DEF WriteBack, Become
  <2>6. TypeOK'
    BY <1>1, <1>4, <1>13, <2>4, <2>5 DEF WriteBack, TypeOK, chainVars
  <2>7. workers'[w] = [todo |-> workers[w].todo, write |-> NoWrite]
        /\ \A v \in Workers \ {w} : workers'[v] = workers[v]
    BY <2>5 DEF TypeOK
  <2>8. ASSUME NEW v \in Workers
        PROVE  /\ \A k \in workers'[v].todo : rows'[k] # NoRow
               /\ workers'[v].write # NoWrite => rows'[workers'[v].write.key] # NoRow
    <3>1. workers'[v].todo = workers[v].todo
          /\ (workers'[v].write # NoWrite => workers'[v].write = workers[v].write)
      BY <2>7
    <3>2. workers[v].todo \subseteq Keys
          /\ (workers[v].write # NoWrite => workers[v].write.key \in Keys)
      BY <1>4 DEF Write
    <3> QED
      BY <2>4, <3>1, <3>2 DEF RowsKeep, WorkersBehind
  <2> QED
    BY <1>1, <2>4, <2>6, <2>8 DEF Keeps, WorkersBehind
<1>14. CASE Tick
  <2>1. RowsKeep /\ TypeOK'
    BY <1>14 DEF Tick, RowsKeep, TypeOK, chainVars
  <2> QED
    BY <1>1, <1>14, <2>1, WorkersStay DEF Keeps, Tick
<1> QED
  BY <1>1, <1>8, <1>9, <1>10, <1>11, <1>12, <1>13, <1>14 DEF ViewerStep, WorkerStep

-----------------------------------------------------------------------------
(* The invariant *)

(* Where nobody gets involved, rows stay first and owners single. *)
LEMMA NobodyJoins ==
  ASSUME IInv, Keeps, \A r \in Requests : Involved(r)' => Involved(r)
  PROVE  RowsFirst' /\ OneOwner'
<1>1. \A r \in Requests : handlers[r].key \in Keys
  BY DEF IInv, TypeOK, Handler
<1>2. RowsFirst'
  BY <1>1 DEF IInv, RowsFirst, Keeps, HandlersKeep, RowsKeep
<1>3. OneOwner'
  BY DEF IInv, OneOwner, Keeps, HandlersKeep
<1> QED
  BY <1>2, <1>3

(* Terms of transactions that were there already still agree. *)
LEMMA HashesStay ==
  ASSUME IInv, Keeps,
         \A t \in network' : t \in network \/ (t.req \in Requests /\
           t.hash.user = handlers[t.req].user /\ t.hash.shape = handlers[t.req].shape),
         \A p \in payments' : p \in payments \/ (p.req \in Requests /\
           p.hash.user = handlers[p.req].user /\ p.hash.shape = handlers[p.req].shape)
  PROVE  HashesAgree'
<1>1. (\A t \in network : t.req \in Requests) /\ (\A p \in payments : p.req \in Requests)
  BY DEF IInv, TypeOK, Tx, Payment
<1> QED
  BY <1>1 DEF IInv, HashesAgree, Keeps, HandlersKeep

(* What a request's steps other than its insert and its submissions do:    *)
(* nothing to the network; it may fail or end, and mark its row so.        *)
NoNewRow == \A k \in Keys : rows[k] = NoRow => rows'[k] = NoRow
Quiet(r) ==
  /\ UNCHANGED chainVars /\ NoNewRow
  /\ \A s \in Requests \ {r} : handlers'[s] = handlers[s]
  /\ Live(r)' => Live(r)
  /\ handlers'[r].pc \notin {"new", "created"}
  /\ handlers'[r].pc = "failing" /\ handlers'[r].code \in Definite => handlers[r].pc = "created"
  /\ \A k \in Keys : RefusedRow(k)' =>
       \/ RefusedRow(k)
       \/ /\ k = handlers[r].key /\ handlers[r].pc = "failing"
          /\ handlers[r].code \in Definite /\ handlers'[r].pc = "done"

(* Every step of sendPayment but its insert and its submissions is one of  *)
(* those.                                                                  *)
LEMMA QuietSteps ==
  ASSUME IInv, NEW r \in Requests, HandlerStep(r), ~CreateTransaction(r), ~BuildAndSubmit(r)
  PROVE  Quiet(r)
<1>1. handlers \in [Requests -> Handler] /\ handlers[r] \in Handler
  BY DEF IInv, TypeOK
<1>2. ASSUME NEW code \in {"refused", "unknown"}, FailWith(r, code), UNCHANGED <<rows, chainVars>>,
             Live(r), code \in Definite => handlers[r].pc = "created"
      PROVE  Quiet(r)
  <2>1. handlers'[r].pc = "failing" /\ handlers'[r].code = code
    BY <1>1, <1>2 DEF FailWith, Handler
  <2>2. \A s \in Requests \ {r} : handlers'[s] = handlers[s]
    BY <1>1, <1>2 DEF FailWith
  <2> QED
    BY <1>2, <2>1, <2>2 DEF Quiet, NoNewRow, RefusedRow
<1>3. ASSUME Finish(r) PROVE handlers'[r].pc = "done"
                             /\ \A s \in Requests \ {r} : handlers'[s] = handlers[s]
  BY <1>1, <1>3 DEF Finish, Handler
<1>4. CASE QuoteFails(r) \/ ReturnExisting(r) \/ Abandon(r)
  BY <1>3, <1>4 DEF QuoteFails, ReturnExisting, Abandon, Quiet, NoNewRow, Live, RefusedRow
<1>5. CASE BuildFails(r)
  BY <1>2, <1>5 DEF BuildFails, Live, Definite
<1>6. CASE ReplyLost(r)
  <2>1. FailWith(r, "unknown")
    BY <1>6 DEF ReplyLost, SubmitFails, ShouldRetry
  <2> QED
    BY <1>2, <1>6, <2>1 DEF ReplyLost, Live, Definite
<1>7. CASE SuccessWriteFails(r)
  BY <1>2, <1>7 DEF SuccessWriteFails, Live, Definite
<1>8. CASE ReplyOk(r)
  <2>1. handlers'[r].pc = "paid" /\ \A s \in Requests \ {r} : handlers'[s] = handlers[s]
    BY <1>1, <1>8 DEF ReplyOk, Goto, Handler
  <2> QED
    BY <1>8, <2>1 DEF ReplyOk, Quiet, NoNewRow, Live, RefusedRow
<1>9. CASE RecordSuccess(r) \/ RecordFailure(r)
  <2> DEFINE key == handlers[r].key
  <2>1. key \in Keys /\ rows[key] # NoRow /\ Live(r)
    BY <1>1, <1>9 DEF IInv, RowsFirst, Involved, Live, RecordSuccess, RecordFailure, Handler
  <2>2. rows[key] \in Row /\ rows \in [Keys -> Row \cup {NoRow}]
    BY <2>1 DEF IInv, TypeOK
  <2>3. CASE RecordSuccess(r)
    <3>1. rows'[key].status = "SUCCESS" /\ \A k \in Keys \ {key} : rows'[k] = rows[k]
      BY <2>1, <2>2, <2>3 DEF RecordSuccess, MarkSuccess, Row
    <3> QED
      BY <1>3, <2>1, <2>3, <3>1 DEF RecordSuccess, Quiet, NoNewRow, Live, RefusedRow
  <2>4. CASE RecordFailure(r)
    <3>1. rows'[key].code = handlers[r].code /\ \A k \in Keys \ {key} : rows'[k] = rows[k]
      BY <2>1, <2>2, <2>4 DEF RecordFailure, MarkFailed, Row
    <3> QED
      BY <1>3, <2>1, <2>4, <3>1 DEF RecordFailure, Quiet, NoNewRow, Live, RefusedRow
  <2> QED
    BY <1>9, <2>3, <2>4
<1> QED
  BY <1>4, <1>5, <1>6, <1>7, <1>8, <1>9 DEF HandlerStep

(* A quiet step of a request keeps the invariant. *)
LEMMA QuietInv ==
  ASSUME IInv, Keeps, NEW r \in Requests, Quiet(r)
  PROVE  IInv'
<1>1. \A s \in Requests : /\ Traced(s)' <=> Traced(s)
                          /\ Involved(s)' => Involved(s)
  BY DEF Quiet, Traced, chainVars, Involved, Live
<1>2. RowsFirst' /\ OneOwner'
  BY <1>1, NobodyJoins
<1>3. HashesAgree'
  BY HashesStay DEF Quiet, chainVars
<1>4. AttemptsLeft' /\ NoneBefore'
  BY <1>1 DEF IInv, AttemptsLeft, NoneBefore, Quiet
<1>5. OneTransaction'
  BY DEF IInv, OneTransaction, Quiet, chainVars
<1>6. \A s \in Requests :
        (handlers[s].pc = "failing" /\ handlers[s].code \in Definite)' => ~Traced(s)'
  BY <1>1 DEF IInv, RefusedClear, NoneBefore, Quiet
<1>7. ASSUME NEW s \in Requests, RefusedRow(handlers[s].key)', Involved(s)'
      PROVE  FALSE
  <2> DEFINE k == handlers[s].key
  <2>1. k \in Keys /\ handlers'[s].key = k
    BY DEF IInv, TypeOK, Handler, Keeps, HandlersKeep
  <2>2. ~RefusedRow(k)
    BY <1>1, <1>7 DEF IInv, RefusedClear
  <2>3. /\ k = handlers[r].key /\ handlers[r].pc = "failing"
        /\ handlers[r].code \in Definite /\ handlers'[r].pc = "done"
    <3>1. RefusedRow(k)'
      BY <1>7, <2>1 DEF RefusedRow
    <3> QED
      BY <2>1, <2>2, <3>1 DEF Quiet
  <2>4. s = r
    BY <1>1, <1>7, <2>3 DEF IInv, OneOwner, Involved, Live
  <2> QED
    BY <1>1, <1>7, <2>3, <2>4 DEF IInv, RefusedClear, Involved, Live
<1> QED
  BY <1>2, <1>3, <1>4, <1>5, <1>6, <1>7 DEF IInv, RefusedClear, Keeps

(* The insert makes its request the owner of a key nobody had. *)
LEMMA CreateInv ==
  ASSUME IInv, Keeps, NEW r \in Requests, CreateTransaction(r)
  PROVE  IInv'
<1> DEFINE key == handlers[r].key
           row == [user |-> handlers[r].user, shape |-> handlers[r].shape, at |-> now,
                   status |-> "PENDING", hash |-> NoHash, code |-> "none"]
<1>1. handlers \in [Requests -> Handler] /\ key \in Keys /\ rows \in [Keys -> Row \cup {NoRow}]
  BY DEF IInv, TypeOK, Handler
<1>2. handlers'[r].pc = "created" /\ \A s \in Requests \ {r} : handlers'[s] = handlers[s]
  BY <1>1 DEF CreateTransaction, Goto, Handler
<1>3. rows'[key] = row /\ \A k \in Keys \ {key} : rows'[k] = rows[k]
  BY <1>1 DEF CreateTransaction, InsertRow
<1>4. \A s \in Requests : handlers[s].key = key => ~Involved(s)
  BY DEF IInv, RowsFirst, CreateTransaction, KeyUnused
<1>5. \A s \in Requests : Traced(s)' <=> Traced(s)
  BY DEF CreateTransaction, chainVars, Traced
<1>6. \A s \in Requests : Involved(s)' => s = r \/ Involved(s)
  BY <1>2, <1>5 DEF Involved, Live
<1>7. \A s \in Requests : handlers'[s].key = handlers[s].key /\ handlers[s].key \in Keys
        /\ handlers'[s].user = handlers[s].user /\ handlers'[s].shape = handlers[s].shape
  BY <1>1 DEF Keeps, HandlersKeep, Handler
<1>8. RowsFirst'
  <2>1. row # NoRow /\ row.user = handlers[r].user /\ row.shape = handlers[r].shape
    BY DEF NoRow
  <2>2. ASSUME NEW s \in Requests, Involved(s)', s # r
        PROVE  /\ rows'[handlers[s].key] # NoRow
               /\ rows'[handlers[s].key].user = handlers[s].user
               /\ rows'[handlers[s].key].shape = handlers[s].shape
    BY <1>6, <1>7, <2>2 DEF IInv, RowsFirst, Keeps, RowsKeep
  <2> QED
    BY <1>3, <1>7, <2>1, <2>2 DEF RowsFirst
<1>9. OneOwner'
  BY <1>4, <1>6, <1>7 DEF IInv, OneOwner
<1>10. HashesAgree'
  BY HashesStay DEF CreateTransaction, chainVars
<1>11. AttemptsLeft'
  <2>1. handlers'[r].attempt = handlers[r].attempt
    BY <1>1 DEF CreateTransaction, Goto, Handler
  <2> QED
    BY <1>2, <2>1 DEF IInv, AttemptsLeft, CreateTransaction
<1>12. NoneBefore'
  BY <1>2, <1>5 DEF IInv, NoneBefore, CreateTransaction
<1>13. OneTransaction'
  BY DEF IInv, OneTransaction, CreateTransaction, chainVars
<1>14. RefusedClear'
  <2>1. \A s \in Requests : RefusedRow(handlers[s].key)' =>
          handlers[s].key # key /\ RefusedRow(handlers[s].key)
    BY <1>3, <1>7 DEF RefusedRow
  <2> QED
    BY <1>2, <1>5, <1>6, <2>1 DEF IInv, RefusedClear
<1> QED
  BY <1>8, <1>9, <1>10, <1>11, <1>12, <1>13, <1>14 DEF IInv, Keeps

(* A submission adds the one transaction of a request that had none. *)
LEMMA SubmitInv ==
  ASSUME IInv, Keeps, NEW r \in Requests, BuildAndSubmit(r)
  PROVE  IInv'
<1>1. handlers \in [Requests -> Handler] /\ Live(r) /\ handlers[r].pc = "created"
  BY DEF IInv, TypeOK, BuildAndSubmit, Live
<1>2. handlers'[r].pc = "sent" /\ \A s \in Requests \ {r} : handlers'[s] = handlers[s]
  BY <1>1 DEF BuildAndSubmit, Handler
<1>3. PICK tx : /\ tx.req = r /\ network' = network \cup {tx} /\ payments' = payments
                /\ tx.hash.user = handlers[r].user /\ tx.hash.shape = handlers[r].shape
  <2> DEFINE hash == [user |-> handlers[r].user, seq |-> seq[handlers[r].user] + 1,
                      shape |-> handlers[r].shape, memo |-> MemoOf[r], at |-> now]
  <2>1. /\ network' = network \cup {[hash |-> hash, req |-> r]}
        /\ payments' = payments
    BY DEF BuildAndSubmit
  <2> WITNESS [hash |-> hash, req |-> r]
  <2> QED
    BY <2>1
<1>4. \A s \in Requests : /\ Traced(s)' => s = r \/ Traced(s)
                          /\ Involved(s)' => Involved(s)
  BY <1>1, <1>2, <1>3 DEF Traced, Involved, Live
<1>5. ~Traced(r)
  BY <1>1 DEF IInv, NoneBefore
<1>6. RowsFirst' /\ OneOwner'
  BY <1>4, NobodyJoins
<1>7. HashesAgree'
  BY <1>3, HashesStay
<1>8. AttemptsLeft' /\ NoneBefore'
  BY <1>2, <1>4 DEF IInv, AttemptsLeft, NoneBefore
<1>9. OneTransaction'
  BY <1>3, <1>5 DEF IInv, OneTransaction, Traced
<1>10. RefusedClear'
  <2>1. \A s \in Requests : RefusedRow(handlers[s].key)' => RefusedRow(handlers[s].key)
    BY DEF Keeps, HandlersKeep, BuildAndSubmit, RefusedRow
  <2> QED
    BY <1>2, <1>4, <2>1 DEF IInv, RefusedClear
<1> QED
  BY <1>6, <1>7, <1>8, <1>9, <1>10 DEF IInv, Keeps

(* What the network includes or refuses was about already. *)
LEMMA NetworkInv ==
  ASSUME IInv, Keeps, NEW tx \in network, Land(tx) \/ Refuse(tx)
  PROVE  IInv'
<1>1. tx.req \in Requests /\ handlers \in [Requests -> Handler]
  BY DEF IInv, TypeOK, Tx
<1>2. CASE Land(tx)
  <2>1. PICK p : /\ p.req = tx.req /\ p.hash = tx.hash /\ payments' = payments \cup {p}
                 /\ network' = {t \in network : t.hash # tx.hash}
                 /\ UNCHANGED <<handlers, rows>>
    BY <1>2 DEF Land
  <2>2. \A s \in Requests : (Traced(s)' => Traced(s)) /\ (Involved(s)' => Involved(s))
    BY <2>1 DEF Traced, Involved, Live
  <2>3. RowsFirst' /\ OneOwner'
    BY <2>2, NobodyJoins
  <2>4. HashesAgree'
    BY <1>1, <2>1, HashesStay DEF IInv, HashesAgree
  <2>5. OneTransaction'
    BY <2>1 DEF IInv, OneTransaction
  <2>6. AttemptsLeft' /\ NoneBefore' /\ RefusedClear'
    BY <2>1, <2>2 DEF IInv, AttemptsLeft, NoneBefore, RefusedClear, RefusedRow
  <2> QED
    BY <2>3, <2>4, <2>5, <2>6 DEF IInv, Keeps
<1>3. CASE Refuse(tx)
  <2> DEFINE r == tx.req
  <2>1. network' = network \ {tx} /\ payments' = payments /\ rows' = rows
    BY <1>3 DEF Refuse
  <2>2. ~Traced(r)' /\ \A s \in Requests : Traced(s)' => Traced(s)
    BY <2>1 DEF IInv, OneTransaction, Traced
  <2>3. /\ \A s \in Requests \ {r} : handlers'[s] = handlers[s]
        /\ \/ handlers'[r] = handlers[r]
           \/ /\ handlers[r].pc = "sent" /\ handlers'[r].pc \in {"created", "failing"}
              /\ handlers'[r].pc = "created" => handlers'[r].attempt < MaxAttempts
    <3>1. handlers[r] \in Handler
      BY <1>1
    <3>2. CASE UNCHANGED handlers
      BY <3>2
    <3>3. ASSUME NEW code, SubmitFails(r, code), handlers[r].pc = "sent"
          PROVE  /\ \A s \in Requests \ {r} : handlers'[s] = handlers[s]
                 /\ handlers'[r].pc \in {"created", "failing"}
                 /\ handlers'[r].pc = "created" => handlers'[r].attempt < MaxAttempts
      <4>1. CASE Goto(r, "created") /\ ShouldRetry(handlers[r], code)
        BY <1>1, <3>1, <4>1 DEF Goto, ShouldRetry, Handler
      <4>2. CASE FailWith(r, code)
        BY <1>1, <3>1, <4>2 DEF FailWith, Handler
      <4> QED
        BY <3>3, <4>1, <4>2 DEF SubmitFails
    <3> QED
      BY <1>3, <3>2, <3>3 DEF Refuse
  <2>4. \A s \in Requests : Involved(s)' => Involved(s)
    BY <2>2, <2>3 DEF Involved, Live
  <2>5. RowsFirst' /\ OneOwner'
    BY <2>4, NobodyJoins
  <2>6. HashesAgree'
    BY <2>1, HashesStay
  <2>7. OneTransaction'
    BY <2>1 DEF IInv, OneTransaction
  <2>8. AttemptsLeft' /\ NoneBefore'
    BY <1>1, <2>2, <2>3 DEF IInv, AttemptsLeft, NoneBefore
  <2>9. RefusedClear'
    <3>1. \A s \in Requests : RefusedRow(handlers[s].key)' => RefusedRow(handlers[s].key)
      BY <2>1 DEF Keeps, HandlersKeep, RefusedRow
    <3> QED
      BY <1>1, <2>2, <2>3, <2>4, <3>1 DEF IInv, RefusedClear
  <2> QED
    BY <2>5, <2>6, <2>7, <2>8, <2>9 DEF IInv, Keeps
<1> QED
  BY <1>2, <1>3

(* Reading and writing back change neither handlers nor what they sent,    *)
(* and no row to a refused one; nor do payments from elsewhere.            *)
LEMMA ReaderInv ==
  ASSUME IInv, Keeps, UNCHANGED <<handlers, network, payments>>,
         \A k \in Keys : RefusedRow(k)' => RefusedRow(k)
  PROVE  IInv'
<1>1. \A r \in Requests : (Traced(r)' <=> Traced(r)) /\ (Involved(r)' <=> Involved(r))
  BY DEF Traced, Involved, Live
<1>2. RowsFirst' /\ OneOwner'
  BY <1>1, NobodyJoins
<1>3. HashesAgree'
  BY HashesStay
<1>4. AttemptsLeft' /\ NoneBefore' /\ OneTransaction'
  BY <1>1 DEF IInv, AttemptsLeft, NoneBefore, OneTransaction
<1>5. RefusedClear'
  <2>1. \A r \in Requests : handlers[r].key \in Keys /\ handlers'[r] = handlers[r]
    BY DEF IInv, TypeOK, Handler
  <2>2. \A r \in Requests : RefusedRow(handlers[r].key)' => RefusedRow(handlers[r].key)
    BY <2>1 DEF RefusedRow
  <2> QED
    BY <1>1, <2>1, <2>2 DEF IInv, RefusedClear
<1> QED
  BY <1>2, <1>3, <1>4, <1>5 DEF IInv, Keeps

(* Reader steps mark rows SUCCESS or NEEDS_REVIEW, if at all. *)
LEMMA ReadersRefuseNothing ==
  ASSUME IInv,
         \/ StartPass
         \/ \E v \in Viewers : ViewerStep(v)
         \/ \E w \in Workers : WorkerStep(w)
         \/ Tick
  PROVE  NoNewRow /\ \A k \in Keys : RefusedRow(k)' => RefusedRow(k)
<1>1. CASE UNCHANGED rows
  BY <1>1 DEF RefusedRow, NoNewRow
<1>2. ASSUME NEW w \in Workers, WriteBack(w)
      PROVE  NoNewRow /\ \A k \in Keys : RefusedRow(k)' => RefusedRow(k)
  <2> DEFINE key == workers[w].write.key
  <2>1. key \in Keys /\ rows[key] # NoRow /\ rows \in [Keys -> Row \cup {NoRow}]
    BY <1>2 DEF IInv, TypeOK, WorkersBehind, WriteBack, Write
  <2>2. rows[key] \in Row
    BY <2>1
  <2>3. /\ \A k \in Keys \ {key} : rows'[k] = rows[k]
        /\ rows'[key].status \in {"SUCCESS", "NEEDS_REVIEW"}
    <3>1. CASE MarkSuccess(key, workers[w].write.hash)
      BY <2>1, <2>2, <3>1 DEF MarkSuccess, Row
    <3>2. CASE MarkNeedsReview(key)
      BY <2>1, <2>2, <3>2 DEF MarkNeedsReview, Row
    <3> QED
      BY <1>2, <3>1, <3>2 DEF WriteBack
  <2> QED
    BY <2>1, <2>3 DEF RefusedRow, NoNewRow
<1> QED
  BY <1>1, <1>2 DEF StartPass, ViewerStep, StartCheck, OnEvent, WorkerStep, Query, Abort, Tick

(* Every step keeps types, terms and rows, and the invariant. *)
LEMMA StepInv == IInv /\ [Next]_vars => IInv' /\ HandlersKeep /\ RowsKeep
<1> SUFFICES ASSUME IInv, [Next]_vars PROVE IInv' /\ HandlersKeep /\ RowsKeep
  OBVIOUS
<1>1. ASSUME NEW r \in Requests, HandlerStep(r)
      PROVE  IInv' /\ HandlersKeep /\ RowsKeep
  <2>1. Keeps
    BY <1>1, HandlerStepKeeps DEF IInv
  <2> QED
    BY <1>1, <2>1, CreateInv, SubmitInv, QuietInv, QuietSteps DEF Keeps
<1>2. ASSUME NEW tx \in network, Land(tx) \/ Refuse(tx)
      PROVE  IInv' /\ HandlersKeep /\ RowsKeep
  <2>1. Keeps
    BY <1>2, NetworkStepKeeps DEF IInv
  <2> QED
    BY <1>2, <2>1, NetworkInv DEF Keeps
<1>3. CASE \/ StartPass
           \/ \E v \in Viewers : ViewerStep(v)
           \/ \E w \in Workers : WorkerStep(w)
           \/ Tick
  <2>1. Keeps /\ UNCHANGED <<handlers, chainVars>>
    BY <1>3, ReaderStepKeeps DEF IInv
  <2> QED
    BY <1>3, <2>1, ReaderInv, ReadersRefuseNothing DEF Keeps, chainVars
<1>4. CASE UNCHANGED vars
  <2>1. HandlersKeep /\ RowsKeep
    BY <1>4 DEF IInv, TypeOK, vars, HandlersKeep, RowsKeep
  <2>2. Keeps
    BY <1>4, <2>1, WorkersStay DEF IInv, TypeOK, vars, Keeps
  <2> QED
    BY <1>4, <2>1, <2>2, ReaderInv DEF vars, chainVars, RefusedRow
<1>5. ASSUME NEW s \in Strangers, PaidByStranger(s)
      PROVE  IInv' /\ HandlersKeep /\ RowsKeep
  BY <1>5, StrangerStepKeeps, ReaderInv DEF IInv, Keeps, RefusedRow
<1> QED
  BY <1>1, <1>2, <1>3, <1>4, <1>5 DEF Next

(* With no row, no transaction and no payment yet, all of it holds.        *)
LEMMA InitInv == Init => IInv
<1> SUFFICES ASSUME Init PROVE IInv
  OBVIOUS
<1>1. TypeOK
  BY ClockAssumption DEF Init, TypeOK, Handler, Codes
<1>2. \A r \in Requests : ~Involved(r) /\ ~Traced(r) /\ handlers[r].pc = "new"
                          /\ handlers[r].attempt < MaxAttempts
  BY ClockAssumption DEF Init, Involved, Live, Traced
<1>3. WorkersBehind
  BY DEF Init, WorkersBehind
<1> QED
  BY <1>1, <1>2, <1>3
     DEF Init, IInv, RowsFirst, HashesAgree, OneOwner, NoneBefore, AttemptsLeft, OneTransaction,
         RefusedClear

(* The invariant holds throughout. *)
THEOREM Invariance == Spec => []IInv
BY InitInv, StepInv, PTL DEF Spec

(* The variables keep their types. *)
THEOREM PaymentsTypeCorrect == Spec => []TypeOK
BY Invariance, PTL DEF IInv

(* No idempotency key is paid twice, whatever retries, lost answers and    *)
(* restarts there are, with any number of requests for it.                 *)
THEOREM PaidAtMostOnceTheorem == Spec => []PaidAtMostOnce
<1>1. IInv => PaidAtMostOnce
  BY DEF IInv, PaidAtMostOnce, OneOwner, OneTransaction, KeyOf, Involved, Traced, TypeOK, Payment
<1> QED
  BY <1>1, Invariance, PTL

(* A key whose row is FAILED by a refusal was not paid and will not be.    *)
THEOREM RefusalIsFinalTheorem == Spec => []RefusalIsFinal
<1>1. IInv => RefusalIsFinal
  BY DEF IInv, RefusalIsFinal, RefusedClear, RefusedRow, Definite, KeyOf, Involved, Traced,
         TypeOK, Payment, Tx
<1> QED
  BY <1>1, Invariance, PTL

-----------------------------------------------------------------------------
(* Refinement *)

(* Keys and terms of payments stay what they are, and intents stay while   *)
(* no row is inserted.                                                     *)
LEMMA IntentStays ==
  ASSUME IInv, HandlersKeep, RowsKeep, NoNewRow, payments' = payments
  PROVE  /\ [k \in Keys |-> IntentOf(k)]' = [k \in Keys |-> IntentOf(k)]
         /\ {PaidFor(p) : p \in payments}' = {PaidFor(p) : p \in payments}
<1>1. \A k \in Keys : IntentOf(k)' = IntentOf(k)
  BY DEF IntentOf, RowsKeep, NoNewRow
<1>2. \A p \in payments : p.req \in Requests /\ PaidFor(p)' = PaidFor(p)
  BY DEF IInv, TypeOK, Payment, PaidFor, KeyOf, HandlersKeep
<1> QED
  BY <1>1, <1>2

(* A key is bound once, for good, and paid at most once, as bound: the     *)
(* module implements PaymentIntent.                                        *)
THEOREM ImplementsIntent == Spec => IntentSpec
<1> DEFINE intent == [k \in Keys |-> IntentOf(k)]
           paid == {PaidFor(p) : p \in payments}
<1>1. Init => Intent!Init
  BY DEF Init, Intent!Init, IntentOf
<1>2. IInv /\ [Next]_vars => [Intent!Next]_<<intent, paid>>
  <2> SUFFICES ASSUME IInv, [Next]_vars PROVE [Intent!Next]_<<intent, paid>>
    OBVIOUS
  <2>1. HandlersKeep /\ RowsKeep
    BY StepInv
  <2>2. ASSUME NoNewRow, payments' = payments PROVE UNCHANGED <<intent, paid>>
    BY <2>1, <2>2, IntentStays
  <2>3. ASSUME NEW r \in Requests, CreateTransaction(r) PROVE Intent!Next
    <3> DEFINE key == handlers[r].key
               terms == [user |-> handlers[r].user, shape |-> handlers[r].shape]
    <3>1. key \in Keys /\ terms \in Intent!Terms
      BY DEF IInv, TypeOK, Handler, Intent!Terms
    <3>2. intent[key] = NoRow
      BY <2>3, <3>1 DEF CreateTransaction, KeyUnused, IntentOf
    <3>3. \A k \in Keys : IntentOf(k)' = IF k = key THEN terms ELSE IntentOf(k)
      <4> DEFINE row == [user |-> handlers[r].user, shape |-> handlers[r].shape, at |-> now,
                         status |-> "PENDING", hash |-> NoHash, code |-> "none"]
      <4>1. rows' = [rows EXCEPT ![key] = row] /\ rows \in [Keys -> Row \cup {NoRow}]
        BY <2>3 DEF CreateTransaction, InsertRow, IInv, TypeOK
      <4>2. row # NoRow /\ row.user = terms.user /\ row.shape = terms.shape
        BY DEF NoRow
      <4> QED
        BY <3>1, <4>1, <4>2 DEF IntentOf
    <3>4. intent' = [intent EXCEPT ![key] = terms]
      BY <3>1, <3>3
    <3>5. paid' = paid
      <4>1. payments' = payments
        BY <2>3 DEF CreateTransaction, chainVars
      <4>2. \A p \in payments : PaidFor(p)' = PaidFor(p)
        BY <2>1 DEF IInv, TypeOK, Payment, PaidFor, KeyOf, HandlersKeep
      <4> QED
        BY <4>1, <4>2
    <3> QED
      BY <3>1, <3>2, <3>4, <3>5 DEF Intent!Next, Intent!Bind
  <2>4. ASSUME NEW tx \in network, Land(tx) PROVE Intent!Next
    <3> DEFINE key == KeyOf(tx)
    <3>1. tx.req \in Requests /\ key \in Keys /\ Involved(tx.req)
      BY DEF IInv, TypeOK, Tx, KeyOf, Handler, Involved, Traced
    <3>2. PICK p : /\ p.req = tx.req /\ p.hash = tx.hash /\ payments' = payments \cup {p}
                   /\ UNCHANGED <<handlers, rows>>
      BY <2>4 DEF Land
    <3>3. IntentOf(key) = [user |-> tx.hash.user, shape |-> tx.hash.shape]
      BY <3>1 DEF IInv, RowsFirst, HashesAgree, KeyOf, IntentOf
    <3>4. intent[key] = PaidFor(p).terms /\ intent[key] # NoRow /\ PaidFor(p).key = key
      BY <3>1, <3>2, <3>3 DEF PaidFor, KeyOf, NoRow
    <3>5. ASSUME NEW q \in paid, q.key = key PROVE FALSE
      <4>1. PICK o \in payments : q = PaidFor(o)
        OBVIOUS
      <4>2. o.req \in Requests /\ handlers[o.req].key = handlers[tx.req].key /\ Involved(o.req)
        BY <3>5, <4>1 DEF IInv, TypeOK, Payment, PaidFor, KeyOf, Involved, Traced
      <4> QED
        BY <3>1, <4>2 DEF IInv, OneOwner, OneTransaction
    <3>6. intent' = intent /\ paid' = paid \cup {PaidFor(p)}
      BY <3>2 DEF IntentOf, PaidFor, KeyOf
    <3>7. Intent!Pay(key)
      BY <3>4, <3>5, <3>6 DEF Intent!Pay
    <3> QED
      BY <3>1, <3>7 DEF Intent!Next
  <2>5. ASSUME NEW r \in Requests, HandlerStep(r), ~CreateTransaction(r)
        PROVE  NoNewRow /\ payments' = payments
    BY <2>5, QuietSteps DEF Quiet, chainVars, BuildAndSubmit, NoNewRow
  <2>6. ASSUME NEW tx \in network, Refuse(tx)
        PROVE  NoNewRow /\ payments' = payments
    BY <2>6 DEF Refuse, NoNewRow
  <2>7. CASE \/ StartPass
             \/ \E v \in Viewers : ViewerStep(v)
             \/ \E w \in Workers : WorkerStep(w)
             \/ Tick
    BY <2>2, <2>7, ReadersRefuseNothing, ReaderStepKeeps DEF IInv, chainVars
  <2>8. CASE UNCHANGED vars
    BY <2>2, <2>8 DEF vars, NoNewRow
  <2>9. ASSUME NEW s \in Strangers, PaidByStranger(s)
        PROVE  NoNewRow /\ payments' = payments
    BY <2>9 DEF PaidByStranger, NoNewRow
  <2> QED
    BY <2>2, <2>3, <2>4, <2>5, <2>6, <2>7, <2>8, <2>9 DEF Next
<1> QED
  BY <1>1, <1>2, Invariance, PTL DEF Spec, IntentSpec, Intent!Spec

-----------------------------------------------------------------------------
(* Reconciliation *)

(* A payment that backs a SUCCESS of the row with that hash.               *)
Backs(p, k, hash) ==
  /\ p.hash = hash
  /\ p.at >= rows[k].at
  /\ \/ p \in payments /\ rows[k].shape = p.hash.shape
     \/ Received(rows[k].shape) = Received(p.shape)
  /\ \/ p \in payments /\ p.hash.user = rows[k].user
     \/ OwnerOf[rows[k].shape.to] = rows[k].user
Backed(k, hash) == \E p \in payments \cup incoming : Backs(p, k, hash)

(* Rows and transactions are not of the future, and payments follow the    *)
(* transactions they were.                                                 *)
RowTimes == \A k \in Keys : rows[k] # NoRow => rows[k].at <= now
ChainTimes ==
  /\ \A t \in network : t.hash.at <= now
  /\ \A p \in payments : p.hash.at <= p.at
(* What a request waits for is of its row's terms, and was built after it. *)
SentHolds ==
  \A r \in Requests : handlers[r].pc = "sent" =>
    LET hash == handlers[r].hash
    IN hash.user = handlers[r].user /\ hash.shape = handlers[r].shape
         /\ hash.at >= rows[handlers[r].key].at
PaidHolds == \A r \in Requests : handlers[r].pc = "paid" => Backed(handlers[r].key, handlers[r].hash)
(* The SUCCESS a worker is about to write is true already, and stays true  *)
(* however long it takes to write it.                                      *)
WritesHold ==
  \A w \in Workers :
    workers[w].write.status = "SUCCESS" => Backed(workers[w].write.key, workers[w].write.hash)

RInv == IInv /\ SuccessIsBacked /\ RowTimes /\ ChainTimes /\ SentHolds /\ PaidHolds /\ WritesHold

(* What every step keeps: rows with their terms and times, payments, and   *)
(* the time that has passed.                                               *)
Grows ==
  /\ IInv'
  /\ HandlersKeep
  /\ \A k \in Keys : rows[k] # NoRow =>
       /\ rows'[k] # NoRow
       /\ rows'[k].user = rows[k].user /\ rows'[k].shape = rows[k].shape
       /\ rows'[k].at = rows[k].at
  /\ payments \subseteq payments' /\ incoming \subseteq incoming'
  /\ now' >= now

(* updateStatus leaves a row the time of its insert.                       *)
LEMMA MarkKeepsTime ==
  ASSUME TypeOK, NEW k \in Keys, rows[k] # NoRow,
         NEW hash \in OnLedger \cup {NoHash}, NEW code \in Codes,
         MarkSuccess(k, hash) \/ MarkFailed(k, code) \/ MarkNeedsReview(k)
  PROVE  \A j \in Keys : rows[j] # NoRow => rows'[j].at = rows[j].at
<1>1. rows[k] \in Row
  BY DEF TypeOK
<1> DEFINE success == [rows[k] EXCEPT !.status = "SUCCESS", !.hash = hash]
           failed == [rows[k] EXCEPT !.status = "FAILED", !.code = code]
           review == [rows[k] EXCEPT !.status = "NEEDS_REVIEW", !.code = "reconciliation_escalated"]
<1>2. \A row \in {success, failed, review} : row.at = rows[k].at
  BY <1>1 DEF Row
<1>3. \E row \in {success, failed, review} : rows' = [rows EXCEPT ![k] = row]
  BY DEF MarkSuccess, MarkFailed, MarkNeedsReview
<1> QED BY <1>2, <1>3 DEF TypeOK

LEMMA StepGrows ==
  ASSUME IInv, [Next]_vars
  PROVE  Grows
<1>1. IInv' /\ HandlersKeep /\ RowsKeep
  BY StepInv
<1>2. payments \subseteq payments' /\ incoming \subseteq incoming' /\ now' >= now
  <2>1. now \in Nat
    BY DEF IInv, TypeOK
  <2>2. CASE Tick \/ (\E tx \in network : Land(tx)) \/ (\E s \in Strangers : PaidByStranger(s))
    BY <2>1, <2>2 DEF Tick, Land, PaidByStranger, chainVars
  <2>3. CASE UNCHANGED <<now, payments, incoming>>
    BY <2>1, <2>3
  <2>4. ASSUME NEW r \in Requests, HandlerStep(r) PROVE UNCHANGED <<now, payments, incoming>>
    BY <2>4
       DEF chainVars, HandlerStep, CreateTransaction, QuoteFails, ReturnExisting, BuildAndSubmit, BuildFails, ReplyOk,
         ReplyLost, RecordSuccess, SuccessWriteFails, RecordFailure, Abandon
  <2>5. ASSUME NEW tx \in network, Refuse(tx) PROVE UNCHANGED <<now, payments, incoming>>
    BY <2>5 DEF Refuse
  <2>6. ASSUME \/ StartPass
               \/ \E v \in Viewers : ViewerStep(v)
               \/ \E w \in Workers : WorkerStep(w)
        PROVE  UNCHANGED <<now, payments, incoming>>
    BY <2>6 DEF chainVars, StartPass, ViewerStep, StartCheck, OnEvent, WorkerStep, Query, WriteBack, Abort
  <2> QED BY <2>2, <2>3, <2>4, <2>5, <2>6 DEF Next, vars
<1>3. ASSUME NEW k \in Keys, rows[k] # NoRow PROVE rows'[k].at = rows[k].at
  <2>1. ASSUME NEW r \in Requests, CreateTransaction(r) PROVE rows'[k].at = rows[k].at
    BY <1>3, <2>1 DEF CreateTransaction, KeyUnused, InsertRow, IInv, TypeOK
  <2>2. ASSUME NEW r \in Requests, RecordSuccess(r) \/ RecordFailure(r) PROVE rows'[k].at = rows[k].at
    <3>1. /\ handlers[r] \in Handler /\ handlers[r].key \in Keys /\ handlers[r].hash \in OnLedger \cup {NoHash}
          /\ handlers[r].code \in Codes /\ Live(r)
      BY <2>2 DEF IInv, TypeOK, Handler, OnLedger, Live, RecordSuccess, RecordFailure
    <3>2. rows[handlers[r].key] # NoRow
      BY <3>1 DEF IInv, RowsFirst, Involved
    <3> QED BY <1>3, <2>2, <3>1, <3>2, MarkKeepsTime DEF RecordSuccess, RecordFailure, IInv
  <2>3. ASSUME NEW w \in Workers, WriteBack(w) PROVE rows'[k].at = rows[k].at
    <3> DEFINE write == workers[w].write
    <3>1. write \in Write /\ rows[write.key] # NoRow
      BY <2>3 DEF WriteBack, IInv, TypeOK, WorkersBehind
    <3>2. write.key \in Keys /\ (write.status = "SUCCESS" => write.hash \in OnLedger)
      BY <3>1 DEF Write
    <3>3. "none" \in Codes /\ NoHash \in OnLedger \cup {NoHash}
      BY DEF Codes
    <3> QED BY <1>3, <2>3, <3>1, <3>2, <3>3, MarkKeepsTime DEF WriteBack, IInv
  <2>4. \/ UNCHANGED rows
        \/ \E r \in Requests : CreateTransaction(r) \/ RecordSuccess(r) \/ RecordFailure(r)
        \/ \E w \in Workers : WriteBack(w)
    BY DEF Next, vars, HandlerStep, QuoteFails, ReturnExisting, BuildAndSubmit, BuildFails, ReplyOk, ReplyLost,
         SuccessWriteFails, Abandon, Land, Refuse, PaidByStranger, StartPass, ViewerStep, StartCheck, OnEvent, WorkerStep,
         Query, Abort, Tick
  <2> QED BY <2>1, <2>2, <2>3, <2>4
<1> QED BY <1>1, <1>2, <1>3 DEF Grows, RowsKeep

(* What backs a row goes on backing it.                                    *)
LEMMA BackedStays ==
  ASSUME Grows, NEW k \in Keys, rows[k] # NoRow, NEW hash, Backed(k, hash)
  PROVE  Backed(k, hash)'
<1>1. PICK p \in payments \cup incoming : Backs(p, k, hash)
  BY DEF Backed
<1>2. p \in payments' \cup incoming' /\ Backs(p, k, hash)'
  BY <1>1 DEF Grows, Backs
<1> QED BY <1>2 DEF Backed

(* Parts of the invariant that a step does not touch.                      *)
LEMMA WriteStays ==
  ASSUME RInv, Grows, NEW w \in Workers, workers'[w].write = workers[w].write,
         workers[w].write.status = "SUCCESS"
  PROVE  Backed(workers[w].write.key, workers[w].write.hash)'
<1>1. PICK write : write = workers[w].write
  OBVIOUS
<1>2. write.key \in Keys /\ rows[write.key] # NoRow
  BY <1>1 DEF RInv, IInv, TypeOK, Write, NoWrite, WorkersBehind
<1>3. Backed(write.key, write.hash)'
  BY <1>1, <1>2, BackedStays DEF RInv, WritesHold
<1> QED BY <1>1, <1>3

LEMMA WritesStay ==
  ASSUME RInv, Grows, UNCHANGED workers
  PROVE  WritesHold'
<1>1. \A w \in Workers : workers'[w].write = workers[w].write
  OBVIOUS
<1> QED BY <1>1, WriteStays DEF WritesHold

LEMMA HandlersStay ==
  ASSUME RInv, Grows,
         \A r \in Requests : UNCHANGED handlers[r] \/ handlers'[r].pc \notin {"sent", "paid"}
  PROVE  SentHolds' /\ PaidHolds'
<1> SUFFICES ASSUME NEW r \in Requests, UNCHANGED handlers[r], handlers[r].pc \in {"sent", "paid"}
             PROVE  /\ handlers[r].pc = "sent" =>
                         /\ handlers[r].hash.user = handlers[r].user
                         /\ handlers[r].hash.shape = handlers[r].shape
                         /\ handlers[r].hash.at >= rows'[handlers[r].key].at
                    /\ handlers[r].pc = "paid" => Backed(handlers[r].key, handlers[r].hash)'
  BY DEF SentHolds, PaidHolds
<1>1. handlers[r].key \in Keys /\ rows[handlers[r].key] # NoRow
  BY DEF RInv, IInv, TypeOK, Handler, RowsFirst, Involved, Live
<1>2. rows'[handlers[r].key].at = rows[handlers[r].key].at
  BY <1>1 DEF Grows
<1> QED BY <1>1, <1>2, BackedStays DEF RInv, SentHolds, PaidHolds

(* A row that does not become SUCCESS is as good as before.                *)
LEMMA RowStays ==
  ASSUME RInv, Grows, NEW k \in Keys, rows[k] # NoRow,
         \/ rows'[k].status # "SUCCESS"
         \/ rows'[k].status = rows[k].status /\ rows'[k].hash = rows[k].hash
  PROVE  /\ rows'[k].status = "SUCCESS" => Backed(k, rows[k].hash)'
         /\ rows'[k].at <= now'
<1>1. rows[k].at \in Nat /\ rows'[k].at = rows[k].at /\ rows[k].at <= now
  BY DEF RInv, IInv, TypeOK, Row, Grows, RowTimes
<1>2. now \in Nat /\ now' \in Nat /\ now' >= now
  BY DEF RInv, IInv, TypeOK, Grows
<1>3. rows[k].status = "SUCCESS" => Backed(k, rows[k].hash)
  BY DEF RInv, SuccessIsBacked, Backed, Backs
<1>4. PICK hash : hash = rows[k].hash
  OBVIOUS
<1>5. rows[k].status = "SUCCESS" => Backed(k, hash)'
  BY <1>3, <1>4, BackedStays
<1>6. rows'[k].status = "SUCCESS" => rows[k].status = "SUCCESS" /\ rows'[k].hash = hash
  BY <1>4
<1>7. rows'[k].status = "SUCCESS" => Backed(k, rows[k].hash)'
  BY <1>5, <1>6 DEF Backed, Backs
<1> QED BY <1>1, <1>2, <1>7

(* Both facts about rows, from what holds of each of them.                 *)
LEMMA RowsHold ==
  ASSUME Grows,
         \A k \in Keys : rows'[k] # NoRow =>
           /\ rows'[k].status = "SUCCESS" => Backed(k, rows[k].hash)'
           /\ rows'[k].at <= now'
  PROVE  SuccessIsBacked' /\ RowTimes'
<1>1. \A k \in Keys : rows'[k] = NoRow => rows'[k].status = "Absent"
  BY DEF NoRow
<1> QED BY <1>1 DEF SuccessIsBacked, RowTimes, Backed, Backs

(* A step that leaves the rows as they are.                                *)
LEMMA RowsUnchanged ==
  ASSUME RInv, Grows, UNCHANGED rows
  PROVE  SuccessIsBacked' /\ RowTimes'
<1>1. \A k \in Keys : rows'[k] # NoRow =>
        rows[k] # NoRow /\ rows'[k].status = rows[k].status /\ rows'[k].hash = rows[k].hash
  OBVIOUS
<1> QED BY <1>1, RowStays, RowsHold

(* A step that changes one row, as updateStatus does.                      *)
LEMMA RowMarked ==
  ASSUME RInv, Grows, NEW k \in Keys, rows[k] # NoRow,
         \A j \in Keys \ {k} : UNCHANGED rows[j],
         rows'[k].status = "SUCCESS" => Backed(k, rows[k].hash)'
  PROVE  SuccessIsBacked' /\ RowTimes'
<1>1. ASSUME NEW j \in Keys \ {k}, rows'[j] # NoRow
      PROVE  /\ rows'[j].status = "SUCCESS" => Backed(j, rows[j].hash)'
             /\ rows'[j].at <= now'
  <2>1. rows[j] # NoRow /\ rows'[j].status = rows[j].status /\ rows'[j].hash = rows[j].hash
    BY <1>1
  <2> QED BY <2>1, RowStays
<1>2. rows'[k].at <= now'
  <2>1. rows[k].at \in Nat /\ rows'[k].at = rows[k].at /\ rows[k].at <= now
    BY DEF RInv, IInv, TypeOK, Row, Grows, RowTimes
  <2>2. now \in Nat /\ now' \in Nat /\ now' >= now
    BY DEF RInv, IInv, TypeOK, Grows
  <2> QED BY <2>1, <2>2
<1> QED BY <1>1, <1>2, RowsHold

LEMMA RequestBacks ==
  ASSUME RInv, Grows, NEW r \in Requests, HandlerStep(r)
  PROVE  RInv'
<1>1. /\ handlers[r] \in Handler /\ handlers[r].key \in Keys
      /\ handlers \in [Requests -> Handler] /\ now \in Nat
      /\ rows \in [Keys -> Row \cup {NoRow}]
  BY DEF RInv, IInv, TypeOK, Handler
<1>2. UNCHANGED <<now, payments, incoming, workers>>
  BY DEF chainVars, HandlerStep, CreateTransaction, QuoteFails, ReturnExisting, BuildAndSubmit, BuildFails, ReplyOk,
       ReplyLost, RecordSuccess, SuccessWriteFails, RecordFailure, Abandon
<1>3. IInv' /\ WritesHold'
  BY <1>2, WritesStay DEF Grows
<1>4. ASSUME UNCHANGED network PROVE ChainTimes'
  BY <1>2, <1>4 DEF RInv, ChainTimes
<1>5. ASSUME NEW code, Goto(r, "created") \/ Finish(r) \/ FailWith(r, code)
      PROVE  SentHolds' /\ PaidHolds'
  <2>1. \A q \in Requests \ {r} : UNCHANGED handlers[q]
    BY <1>1, <1>5 DEF Goto, Finish, FailWith
  <2>2. handlers'[r].pc \in {"created", "done", "failing"}
    <3>1. CASE Goto(r, "created")
      BY <1>1, <3>1 DEF Goto, Handler
    <3>2. CASE Finish(r)
      BY <1>1, <3>2 DEF Finish, Handler
    <3>3. CASE FailWith(r, code)
      BY <1>1, <3>3 DEF FailWith, Handler
    <3> QED BY <1>5, <3>1, <3>2, <3>3
  <2>3. \A q \in Requests : UNCHANGED handlers[q] \/ handlers'[q].pc \notin {"sent", "paid"}
    BY <2>1, <2>2
  <2> QED BY <2>3, HandlersStay
<1>6. CASE CreateTransaction(r)
  <2> DEFINE row == [user |-> handlers[r].user, shape |-> handlers[r].shape, at |-> now,
                     status |-> "PENDING", hash |-> NoHash, code |-> "none"]
  <2>1. rows' = [rows EXCEPT ![handlers[r].key] = row] /\ UNCHANGED network
    BY <1>6 DEF CreateTransaction, InsertRow, chainVars
  <2>2. row.status = "PENDING" /\ row.at = now
    OBVIOUS
  <2>3. SuccessIsBacked' /\ RowTimes'
    <3>1. ASSUME NEW k \in Keys, rows'[k] # NoRow
          PROVE  /\ rows'[k].status = "SUCCESS" => Backed(k, rows[k].hash)'
                 /\ rows'[k].at <= now'
      <4>1. CASE k = handlers[r].key
        <5>1. rows'[k] = row
          BY <1>1, <2>1, <4>1
        <5> QED BY <1>1, <1>2, <2>2, <5>1
      <4>2. CASE k # handlers[r].key
        <5>1. rows[k] # NoRow /\ rows'[k].status = rows[k].status /\ rows'[k].hash = rows[k].hash
          BY <1>1, <2>1, <3>1, <4>2
        <5> QED BY <5>1, RowStays
      <4> QED BY <4>1, <4>2
    <3> QED BY <3>1, RowsHold
  <2>4. SentHolds' /\ PaidHolds'
    BY <1>5, <1>6 DEF CreateTransaction
  <2> QED BY <1>3, <1>4, <2>1, <2>3, <2>4 DEF RInv
<1>7. CASE BuildAndSubmit(r)
  <2> DEFINE hash == [user |-> handlers[r].user, seq |-> seq[handlers[r].user] + 1,
                      shape |-> handlers[r].shape, memo |-> MemoOf[r], at |-> now]
  <2>1. /\ handlers'[r].pc = "sent" /\ handlers'[r].hash = hash
        /\ \A q \in Requests \ {r} : handlers'[q] = handlers[q]
        /\ network' = network \cup {[hash |-> hash, req |-> r]}
        /\ UNCHANGED rows
    BY <1>1, <1>7 DEF BuildAndSubmit, Handler
  <2>2. hash.at = now /\ hash.user = handlers[r].user /\ hash.shape = handlers[r].shape
    OBVIOUS
  <2>3. rows[handlers[r].key] # NoRow /\ rows[handlers[r].key].at <= now
    BY <1>1, <1>7 DEF BuildAndSubmit, RInv, IInv, RowsFirst, Involved, Live, RowTimes
  <2> HIDE DEF hash
  <2>4. ChainTimes'
    BY <1>1, <1>2, <2>1, <2>2 DEF RInv, ChainTimes
  <2>5. SuccessIsBacked' /\ RowTimes'
    BY <2>1, RowsUnchanged
  <2>6. handlers'[r].user = handlers[r].user /\ handlers'[r].shape = handlers[r].shape
          /\ handlers'[r].key = handlers[r].key
    BY DEF Grows, HandlersKeep
  <2>7. SentHolds' /\ PaidHolds'
    <3>1. ASSUME NEW q \in Requests \ {r}, handlers[q].pc = "paid"
          PROVE  Backed(handlers[q].key, handlers[q].hash)'
      <4>1. PICK k \in Keys, h \in {handlers[q].hash} : k = handlers[q].key /\ h = handlers[q].hash
        BY DEF RInv, IInv, TypeOK, Handler
      <4>2. rows[k] # NoRow /\ Backed(k, h)
        BY <3>1, <4>1 DEF RInv, IInv, RowsFirst, Involved, Live, PaidHolds
      <4>3. Backed(k, h)'
        BY <4>2, BackedStays
      <4> QED BY <2>1, <4>1, <4>3
    <3>2. ASSUME NEW q \in Requests \ {r}, handlers[q].pc = "sent"
          PROVE  /\ handlers[q].hash.user = handlers[q].user
                 /\ handlers[q].hash.shape = handlers[q].shape
                 /\ handlers[q].hash.at >= rows[handlers[q].key].at
      BY <3>2 DEF RInv, SentHolds
    <3> QED BY <1>1, <2>1, <2>2, <2>3, <2>6, <3>1, <3>2 DEF SentHolds, PaidHolds
  <2> QED BY <1>3, <2>4, <2>5, <2>7 DEF RInv
<1>8. CASE ReplyOk(r)
  <2>1. PICK p \in payments : p.hash = handlers[r].hash
    BY <1>8 DEF ReplyOk
  <2>2. PICK k \in Keys, hash \in {handlers[r].hash} : k = handlers[r].key /\ hash = handlers[r].hash
    BY <1>1
  <2>3. /\ handlers[r].pc = "sent" /\ UNCHANGED <<rows, network>>
        /\ handlers'[r].pc = "paid" /\ handlers'[r].key = k /\ handlers'[r].hash = hash
        /\ \A q \in Requests \ {r} : handlers'[q] = handlers[q]
    BY <1>1, <1>8, <2>2 DEF ReplyOk, Goto, chainVars, Handler
  <2>4. rows[k] # NoRow /\ rows[k].user = handlers[r].user /\ rows[k].shape = handlers[r].shape
    BY <2>2, <2>3 DEF RInv, IInv, RowsFirst, Involved, Live
  <2>5. p.at \in Nat /\ p.hash.at \in Nat /\ rows[k].at \in Nat
    BY <1>1, <2>4 DEF RInv, IInv, TypeOK, Payment, Hashes, Row
  <2>6. Backs(p, k, hash)
    BY <2>1, <2>2, <2>3, <2>4, <2>5 DEF Backs, RInv, SentHolds, ChainTimes
  <2>7. Backed(k, hash)'
    BY <2>4, <2>6, BackedStays DEF Backed
  <2>8. ASSUME NEW q \in Requests \ {r}, handlers[q].pc = "paid"
        PROVE  Backed(handlers[q].key, handlers[q].hash)'
    <3>1. PICK j \in Keys, h \in {handlers[q].hash} : j = handlers[q].key /\ h = handlers[q].hash
      BY DEF RInv, IInv, TypeOK, Handler
    <3>2. rows[j] # NoRow /\ Backed(j, h)
      BY <2>8, <3>1 DEF RInv, IInv, RowsFirst, Involved, Live, PaidHolds
    <3>3. Backed(j, h)'
      BY <3>2, BackedStays
    <3> QED BY <2>3, <3>1, <3>3
  <2>9. SentHolds'
    BY <2>3 DEF RInv, SentHolds
  <2>10. PaidHolds'
    BY <2>3, <2>7, <2>8 DEF PaidHolds
  <2> QED BY <1>3, <1>4, <2>3, <2>9, <2>10, RowsUnchanged DEF RInv
<1>9. CASE RecordSuccess(r)
  <2>1. PICK k \in Keys, hash \in {handlers[r].hash} : k = handlers[r].key /\ hash = handlers[r].hash
    BY <1>1
  <2>2. rows[k] # NoRow /\ Backed(k, hash)
    BY <1>9, <2>1 DEF RecordSuccess, RInv, IInv, RowsFirst, Involved, Live, PaidHolds
  <2>3. Backed(k, hash)'
    BY <2>2, BackedStays
  <2>4. rows[k] \in Row
    BY <1>1, <2>2
  <2>5. rows'[k] = [rows[k] EXCEPT !.status = "SUCCESS", !.hash = hash]
          /\ (\A j \in Keys \ {k} : rows'[j] = rows[j]) /\ UNCHANGED network
    BY <1>1, <1>9, <2>1 DEF RecordSuccess, MarkSuccess, chainVars
  <2>6. rows'[k].status = "SUCCESS" /\ rows'[k].hash = hash
    BY <2>4, <2>5 DEF Row
  <2>7. Backed(k, rows[k].hash)'
    BY <2>3, <2>6
  <2>8. SuccessIsBacked' /\ RowTimes'
    BY <2>2, <2>5, <2>6, <2>7, RowMarked
  <2>9. SentHolds' /\ PaidHolds'
    BY <1>5, <1>9 DEF RecordSuccess
  <2> QED BY <1>3, <1>4, <2>5, <2>8, <2>9 DEF RInv
<1>10. CASE RecordFailure(r)
  <2>1. PICK k \in Keys : k = handlers[r].key
    BY <1>1
  <2>2. rows[k] # NoRow
    BY <1>10, <2>1 DEF RecordFailure, RInv, IInv, RowsFirst, Involved, Live
  <2>3. rows'[k].status = "FAILED" /\ (\A j \in Keys \ {k} : rows'[j] = rows[j]) /\ UNCHANGED network
    BY <1>1, <1>10, <2>1, <2>2 DEF RecordFailure, MarkFailed, chainVars, Row
  <2>4. SuccessIsBacked' /\ RowTimes'
    BY <2>2, <2>3, RowMarked
  <2>5. SentHolds' /\ PaidHolds'
    BY <1>5, <1>10 DEF RecordFailure
  <2> QED BY <1>3, <1>4, <2>3, <2>4, <2>5 DEF RInv
<1>11. CASE \/ QuoteFails(r) \/ ReturnExisting(r) \/ BuildFails(r) \/ ReplyLost(r)
            \/ SuccessWriteFails(r) \/ Abandon(r)
  <2>1. UNCHANGED <<rows, network>>
    BY <1>11 DEF QuoteFails, ReturnExisting, BuildFails, ReplyLost, SuccessWriteFails, Abandon, chainVars
  <2>2. Goto(r, "created") \/ Finish(r) \/ \E code \in Codes : FailWith(r, code)
    BY <1>11 DEF QuoteFails, ReturnExisting, BuildFails, ReplyLost, SubmitFails, SuccessWriteFails, Abandon, Codes
  <2> QED BY <1>3, <1>4, <1>5, <2>1, <2>2, RowsUnchanged DEF RInv
<1> QED BY <1>6, <1>7, <1>8, <1>9, <1>10, <1>11 DEF HandlerStep

LEMMA NetworkBacks ==
  ASSUME RInv, Grows, NEW tx \in network, Land(tx) \/ Refuse(tx)
  PROVE  RInv'
<1>1. UNCHANGED <<now, rows, workers>>
  BY DEF Land, Refuse
<1>2. IInv' /\ WritesHold' /\ SuccessIsBacked' /\ RowTimes'
  BY <1>1, WritesStay, RowsUnchanged DEF Grows
<1>3. tx.hash.at <= now
  BY DEF RInv, ChainTimes
<1>4. ChainTimes'
  BY <1>1, <1>3 DEF Land, Refuse, RInv, ChainTimes
<1>5. \A q \in Requests : UNCHANGED handlers[q] \/ handlers'[q].pc \notin {"sent", "paid"}
  <2>1. handlers \in [Requests -> Handler]
    BY DEF RInv, IInv, TypeOK
  <2>2. tx.req \in Requests
    BY DEF RInv, IInv, TypeOK, Tx
  <2>3. \/ UNCHANGED handlers
        \/ Goto(tx.req, "created")
        \/ FailWith(tx.req, "sequence_conflict") \/ FailWith(tx.req, "refused")
    BY DEF Land, Refuse, SubmitFails
  <2>4. ASSUME Goto(tx.req, "created")
        PROVE  \A q \in Requests : UNCHANGED handlers[q] \/ handlers'[q].pc = "created"
    BY <2>1, <2>2, <2>4 DEF Goto, Handler
  <2>5. ASSUME NEW code, FailWith(tx.req, code)
        PROVE  \A q \in Requests : UNCHANGED handlers[q] \/ handlers'[q].pc = "failing"
    BY <2>1, <2>2, <2>5 DEF FailWith, Handler
  <2> QED BY <2>3, <2>4, <2>5
<1> QED BY <1>2, <1>4, <1>5, HandlersStay DEF RInv

(* Horizon gives close times in whole seconds: a payment that closed after *)
(* the row was made after it.                                              *)
LEMMA CloseTimeBefore ==
  ASSUME NEW p, p.at \in Nat
  PROVE  CloseTime(p) <= p.at
<1>1. LedgerTick \in Nat \ {0}
  BY ClockAssumption
<1>2. p.at % LedgerTick \in 0 .. LedgerTick - 1
  BY <1>1
<1> QED BY <1>2 DEF CloseTime

(* A worker that takes up a SUCCESS, of something that is true.            *)
TrueWrite(write) ==
  write.status = "SUCCESS" =>
    \E k \in Keys : \E p \in ForAccount(rows[k].user) :
      rows[k] # NoRow /\ Matches(k, p) /\ write = SuccessWrite(k, p)

(* Whoever sent a payment, it is on the page of the row's account only if  *)
(* that account did, or got it; the row is then a payment to itself.       *)
LEMMA MatchBacks ==
  ASSUME RInv, NEW k \in Keys, NEW p \in ForAccount(rows[k].user), rows[k] # NoRow, Matches(k, p)
  PROVE  Backed(k, p.hash)
<1>1. p.at \in Nat /\ rows[k].at \in Nat /\ CloseTime(p) \in Int /\ p \in payments \cup incoming
  <2>1. p.at \in Nat /\ rows[k].at \in Nat /\ p \in payments \cup incoming
    BY PageOnLedger DEF RInv, IInv, TypeOK, Row
  <2> QED BY <2>1, ClockAssumption DEF CloseTime
<1>2. p.at >= rows[k].at
  BY <1>1, CloseTimeBefore DEF Matches
<1>3. Received(rows[k].shape) = Received(p.shape) /\ p.shape.to = rows[k].shape.to
  BY DEF Matches, Received
<1>4. (p \in payments /\ p.hash.user = rows[k].user) \/ OwnerOf[p.shape.to] = rows[k].user
  BY DEF ForAccount
<1> QED BY <1>1, <1>2, <1>3, <1>4 DEF Backed, Backs

LEMMA WriteTaken ==
  ASSUME RInv, Grows, NEW w \in Workers, TrueWrite(workers'[w].write),
         \A v \in Workers \ {w} : workers'[v].write = workers[v].write
  PROVE  WritesHold'
<1>1. PICK write : write = workers'[w].write
  OBVIOUS
<1>2. ASSUME write.status = "SUCCESS" PROVE Backed(write.key, write.hash)'
  <2>1. PICK k \in Keys : \E p \in ForAccount(rows[k].user) :
          rows[k] # NoRow /\ Matches(k, p) /\ write = SuccessWrite(k, p)
    BY <1>1, <1>2 DEF TrueWrite
  <2>2. PICK p \in ForAccount(rows[k].user) :
          rows[k] # NoRow /\ Matches(k, p) /\ write = SuccessWrite(k, p)
    BY <2>1
  <2>3. PICK hash : hash = p.hash
    OBVIOUS
  <2>4. Backed(k, hash)'
    BY <2>2, <2>3, MatchBacks, BackedStays
  <2> QED BY <2>2, <2>3, <2>4 DEF SuccessWrite
<1> QED BY <1>1, <1>2, WriteStays DEF WritesHold

LEMMA ReaderBacks ==
  ASSUME RInv, Grows, UNCHANGED <<handlers, chainVars>>,
         \/ StartPass
         \/ \E v \in Viewers : ViewerStep(v)
         \/ \E w \in Workers : WorkerStep(w)
         \/ Tick
  PROVE  RInv'
<1>1. /\ workers \in [Workers -> [todo : SUBSET Keys, write : Write \cup {NoWrite}]]
      /\ rows \in [Keys -> Row \cup {NoRow}]
      /\ now \in Nat /\ now' \in Nat /\ now' >= now
      /\ Workers = Viewers \cup {Job}
  BY DEF RInv, IInv, TypeOK, Grows, Workers
<1>2. IInv' /\ SentHolds' /\ PaidHolds'
  BY HandlersStay DEF Grows
<1>3. ChainTimes'
  BY <1>1 DEF chainVars, RInv, IInv, TypeOK, Tx, Hashes, ChainTimes
<1>4. ASSUME UNCHANGED rows, NEW w \in Workers, NEW todo, NEW write, Become(w, todo, write), TrueWrite(write)
      PROVE  RInv'
  <2>1. workers'[w].write = write /\ \A v \in Workers \ {w} : workers'[v].write = workers[v].write
    BY <1>1, <1>4 DEF Become
  <2>2. WritesHold'
    BY <1>4, <2>1, WriteTaken
  <2> QED BY <1>2, <1>3, <1>4, <2>2, RowsUnchanged DEF RInv
<1>5. TrueWrite(NoWrite) /\ \A k \in Keys : TrueWrite(ReviewWrite(k))
  BY DEF TrueWrite, NoWrite, ReviewWrite
<1>6. CASE StartPass
  BY <1>1, <1>4, <1>5, <1>6 DEF StartPass
<1>7. ASSUME NEW v \in Viewers, NEW k \in Keys, StartCheck(v, k) PROVE RInv'
  BY <1>1, <1>4, <1>5, <1>7 DEF StartCheck
<1>8. ASSUME NEW v \in Viewers, NEW k \in Keys, OnEvent(v, k) PROVE RInv'
  <2>1. PICK p \in ForAccount(rows[k].user) :
          Pending(k) /\ Matches(k, p) /\ Become(v, {}, SuccessWrite(k, p))
    BY <1>8 DEF OnEvent
  <2>2. TrueWrite(SuccessWrite(k, p))
    BY <2>1 DEF TrueWrite, Pending, NoRow
  <2> QED BY <1>1, <1>4, <1>8, <2>1, <2>2 DEF OnEvent
<1>9. ASSUME NEW w \in Workers, NEW k \in Keys, Query(w, k) PROVE RInv'
  <2>1. rows[k] # NoRow /\ UNCHANGED rows
    BY <1>9 DEF Query, RInv, IInv, WorkersBehind
  <2>2. PICK write : Become(w, workers[w].todo \ {k}, write) /\ TrueWrite(write)
    BY <1>5, <1>9, <2>1 DEF Query, TrueWrite
  <2> QED BY <1>4, <2>1, <2>2
<1>10. ASSUME NEW w \in Workers, WriteBack(w) PROVE RInv'
  <2>1. PICK write : write = workers[w].write
    OBVIOUS
  <2>2. write \in Write /\ rows[write.key] # NoRow
    BY <1>1, <1>10, <2>1 DEF WriteBack, RInv, IInv, WorkersBehind
  <2>3. PICK k \in Keys : k = write.key
    BY <2>2 DEF Write
  <2>4. rows[k] \in Row /\ rows[k] # NoRow
    BY <1>1, <2>2, <2>3
  <2>5. \A j \in Keys \ {k} : rows'[j] = rows[j]
    BY <1>1, <1>10, <2>1, <2>3 DEF WriteBack, MarkSuccess, MarkNeedsReview
  <2>6. SuccessIsBacked' /\ RowTimes'
    <3>1. CASE write.status = "SUCCESS"
      <4>1. Backed(k, write.hash)'
        BY <2>1, <2>3, <2>4, <3>1, BackedStays DEF RInv, WritesHold
      <4>2. rows'[k] = [rows[k] EXCEPT !.status = "SUCCESS", !.hash = write.hash]
        BY <1>1, <1>10, <2>1, <2>3, <3>1 DEF WriteBack, MarkSuccess
      <4>3. rows'[k].status = "SUCCESS" /\ rows'[k].hash = write.hash
        BY <2>4, <4>2 DEF Row
      <4>4. Backed(k, rows[k].hash)'
        BY <4>1, <4>3
      <4> QED BY <2>4, <2>5, <4>3, <4>4, RowMarked
    <3>2. CASE write.status # "SUCCESS"
      <4>1. rows'[k] = [rows[k] EXCEPT !.status = "NEEDS_REVIEW", !.code = "reconciliation_escalated"]
        BY <1>1, <1>10, <2>1, <2>3, <3>2 DEF WriteBack, MarkNeedsReview
      <4>2. rows'[k].status = "NEEDS_REVIEW"
        BY <2>4, <4>1 DEF Row
      <4> QED BY <2>4, <2>5, <4>2, RowMarked
    <3> QED BY <3>1, <3>2
  <2>7. workers'[w].write = NoWrite /\ \A v \in Workers \ {w} : workers'[v].write = workers[v].write
    BY <1>1, <1>10 DEF WriteBack, Become
  <2>8. WritesHold'
    BY <1>5, <2>7, WriteTaken
  <2> QED BY <1>2, <1>3, <2>6, <2>8 DEF RInv
<1>11. ASSUME NEW w \in Workers, Abort(w) PROVE RInv'
  BY <1>4, <1>5, <1>11 DEF Abort
<1>12. CASE Tick
  BY <1>2, <1>3, <1>12, WritesStay, RowsUnchanged DEF Tick, RInv
<1> QED BY <1>6, <1>7, <1>8, <1>9, <1>10, <1>11, <1>12 DEF ViewerStep, WorkerStep

(* A payment from elsewhere is one more on the ledger, and that is all.    *)
LEMMA StrangerBacks ==
  ASSUME RInv, Grows, NEW s \in Strangers, PaidByStranger(s)
  PROVE  RInv'
<1>1. UNCHANGED <<now, rows, handlers, network, payments, workers>>
  BY DEF PaidByStranger
<1>2. IInv' /\ SentHolds' /\ PaidHolds' /\ WritesHold' /\ SuccessIsBacked' /\ RowTimes'
  BY <1>1, HandlersStay, WritesStay, RowsUnchanged DEF Grows
<1> QED BY <1>1, <1>2 DEF RInv, ChainTimes

LEMMA RInvInit == Init => RInv
<1> SUFFICES ASSUME Init PROVE RInv
  OBVIOUS
<1>1. \A k \in Keys : rows[k] = NoRow /\ rows[k].status = "Absent"
  BY DEF Init, NoRow
<1>2. \A r \in Requests : handlers[r].pc = "new"
  BY DEF Init
<1>3. \A w \in Workers : workers[w].write.status = "none"
  BY DEF Init, NoWrite
<1> QED
  BY <1>1, <1>2, <1>3, InitInv
     DEF Init, RInv, SuccessIsBacked, RowTimes, ChainTimes, SentHolds, PaidHolds, WritesHold

LEMMA RInvStep ==
  ASSUME RInv, [Next]_vars
  PROVE  RInv'
<1>1. Grows
  BY StepGrows DEF RInv
<1>2. CASE UNCHANGED vars
  <2>1. SentHolds' /\ PaidHolds' /\ WritesHold' /\ SuccessIsBacked' /\ RowTimes'
    BY <1>1, <1>2, HandlersStay, WritesStay, RowsUnchanged DEF vars
  <2> QED BY <1>1, <1>2, <2>1 DEF vars, RInv, Grows, ChainTimes
<1>3. ASSUME NEW r \in Requests, HandlerStep(r) PROVE RInv'
  BY <1>1, <1>3, RequestBacks
<1>4. ASSUME NEW tx \in network, Land(tx) \/ Refuse(tx) PROVE RInv'
  BY <1>1, <1>4, NetworkBacks
<1>5. CASE \/ StartPass
           \/ \E v \in Viewers : ViewerStep(v)
           \/ \E w \in Workers : WorkerStep(w)
           \/ Tick
  <2>1. UNCHANGED <<handlers, chainVars>>
    BY <1>5, ReaderStepKeeps DEF RInv, IInv
  <2> QED BY <1>1, <1>5, <2>1, ReaderBacks
<1>6. ASSUME NEW s \in Strangers, PaidByStranger(s) PROVE RInv'
  BY <1>1, <1>6, StrangerBacks
<1> QED BY <1>2, <1>3, <1>4, <1>5, <1>6 DEF Next

LEMMA RInvariance == Spec => []RInv
BY RInvInit, RInvStep, PTL DEF Spec

(* A SUCCESS has a payment of the row's terms behind it, made after the    *)
(* row, and of the row's account unless the row pays that account itself:  *)
(* neither a handler nor a reader, however long it held its answer, takes  *)
(* any other payment for the row's.                                        *)
THEOREM SuccessIsBackedTheorem == Spec => []SuccessIsBacked
<1>1. RInv => SuccessIsBacked
  BY DEF RInv
<1> QED BY <1>1, RInvariance, PTL

(* Every payment on the ledger is an outcome of the quote it was built from. *)
PaidFromQuotes == \A p \in payments : p.shape \in Outcomes(p.hash.shape)

LEMMA PaidFromQuotesInvariance == Spec => []PaidFromQuotes
<1>1. Init => PaidFromQuotes
  BY DEF Init, PaidFromQuotes
<1>2. ASSUME PaidFromQuotes, [Next]_vars PROVE PaidFromQuotes'
  <2>1. ASSUME NEW tx \in network, Land(tx) PROVE PaidFromQuotes'
    BY <1>2, <2>1 DEF Land, PaidFromQuotes
  <2>2. ASSUME UNCHANGED payments PROVE PaidFromQuotes'
    BY <1>2, <2>2 DEF PaidFromQuotes
  <2>3. ASSUME NEW r \in Requests, HandlerStep(r) PROVE UNCHANGED payments
    BY <2>3
       DEF chainVars, HandlerStep, CreateTransaction, QuoteFails, ReturnExisting, BuildAndSubmit, BuildFails,
         ReplyOk, ReplyLost, RecordSuccess, SuccessWriteFails, RecordFailure, Abandon
  <2>4. ASSUME \/ \E tx \in network : Refuse(tx)
               \/ StartPass \/ Tick
               \/ \E v \in Viewers : ViewerStep(v)
               \/ \E w \in Workers : WorkerStep(w)
        PROVE  UNCHANGED payments
    BY <2>4 DEF chainVars, Refuse, StartPass, Tick, ViewerStep, StartCheck, OnEvent, WorkerStep, Query,
         WriteBack, Abort
  <2>5. ASSUME NEW s \in Strangers, PaidByStranger(s) PROVE UNCHANGED payments
    BY <2>5 DEF PaidByStranger
  <2> QED BY <1>2, <2>1, <2>2, <2>3, <2>4, <2>5 DEF Next, vars
<1> QED BY <1>1, <1>2, PTL DEF Spec

(* However the market moved, a receiver gets no less than the row says     *)
(* minus the accepted slippage, whichever payment reconciliation took for  *)
(* the row's; and for the row's own, its sender parts with no more than    *)
(* the row says plus that slippage.                                        *)
THEOREM QuoteKeptTheorem == Spec => []QuoteKept
<1>1. ASSUME RInv, PaidFromQuotes PROVE QuoteKept
  <2> SUFFICES ASSUME NEW k \in Keys, rows[k].status = "SUCCESS"
               PROVE  \E p \in payments \cup incoming :
                        /\ p.hash = rows[k].hash
                        /\ p.shape.to = rows[k].shape.to
                        /\ NotShort(rows[k].shape, p.shape)
                        /\ p \in payments /\ rows[k].shape = p.hash.shape =>
                             NotOvercharged(rows[k].shape, p.shape)
    BY DEF QuoteKept
  <2>1. rows[k] \in Row
    BY <1>1 DEF RInv, IInv, TypeOK, NoRow
  <2>2. PICK p \in payments \cup incoming :
          /\ p.hash = rows[k].hash
          /\ \/ p \in payments /\ rows[k].shape = p.hash.shape
             \/ Received(rows[k].shape) = Received(p.shape)
    BY <1>1 DEF RInv, SuccessIsBacked
  <2>3. rows[k].shape \in Terms /\ p.shape \in Terms
    BY <1>1, <2>1, ShapesAreTerms DEF RInv, IInv, TypeOK, Row, Payment, Incoming
  <2>4. CASE p \in payments /\ rows[k].shape = p.hash.shape
    <3>1. p.shape \in Outcomes(rows[k].shape)
      BY <1>1, <2>4 DEF PaidFromQuotes
    <3> QED BY <2>2, <2>3, <3>1, OutcomesKeepQuote
  <2>5. CASE ~(p \in payments /\ rows[k].shape = p.hash.shape)
    <3>1. p.shape.to = rows[k].shape.to /\ p.shape.dest = rows[k].shape.dest
      BY <2>2, <2>5 DEF Received
    <3> QED BY <2>2, <2>3, <2>5, <3>1, QuoteKeepsItself
  <2> QED BY <2>4, <2>5
<1> QED BY <1>1, RInvariance, PaidFromQuotesInvariance, PTL
=============================================================================
