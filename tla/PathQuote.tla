------------------------------ MODULE PathQuote ------------------------------
(***************************************************************************)
(* What POST /payments asks for and what the API makes of it before it     *)
(* inserts the row: a plain payment, or a path payment with the quote that *)
(* Horizon's paths give (resolvePathQuote), and the outcomes which the     *)
(* operation built from it leaves to the market (submitPathPayment).       *)
(* Amounts are counted in units of 10^-7, the precision of the network.    *)
(***************************************************************************)
EXTENDS Integers

CONSTANTS
  Payees,      \* who receives, and in which asset
  Amounts,     \* amounts that are asked for, quoted and applied
  Asks,        \* what requests ask for, with the slippage they accept
  Offers,      \* amounts on the page of paths that Horizon answers with
  FloatError   \* units by which a product of two doubles may be off

BPS_DENOMINATOR == 10000
MAX_SLIPPAGE_BPS == 1000
Modes == {"plain", "strictSend", "strictReceive"}
Slippages == 0..MAX_SLIPPAGE_BPS

ASSUME QuoteAssumption ==
  /\ Amounts \subseteq Nat \ {0}
  /\ Asks \subseteq [to : Payees, mode : Modes, amount : Amounts, bps : Slippages]
  /\ Offers \subseteq SUBSET Amounts
  /\ FloatError \in Nat

(* A payment as it is wanted or applied: source is taken, dest received.   *)
Terms == [to : Payees, mode : Modes, source : Amounts, dest : Amounts, bps : Slippages]

(* The best records of a page.  A page without records has none.           *)
MostReceived(page) == {d \in page : \A e \in page : e <= d}
LeastSent(page) == {s \in page : \A t \in page : s <= t}

Priced(ask, source, dest) ==
  [to |-> ask.to, mode |-> ask.mode, source |-> source, dest |-> dest, bps |-> ask.bps]

FindStrictSendPath(ask, page) == {Priced(ask, ask.amount, d) : d \in MostReceived(page)}
FindStrictReceivePath(ask, page) == {Priced(ask, s, ask.amount) : s \in LeastSent(page)}

ResolvePathQuote(ask, page) ==
  CASE ask.mode = "plain" -> {Priced(ask, ask.amount, ask.amount)}
    [] ask.mode = "strictSend" -> FindStrictSendPath(ask, page)
    [] ask.mode = "strictReceive" -> FindStrictReceivePath(ask, page)

-----------------------------------------------------------------------------
(* n units are amount * (1 - bps / 10000), computed in doubles and rounded *)
(* to the nearest unit by toFixed.                                         *)
\* Mutant: the slippage is taken for a percentage.
ReducedByPercent(n, amount, bps) == n * 100 = amount * (100 - bps)
ReducedByBps(n, amount, bps) ==
  LET twice == 2 * (n * BPS_DENOMINATOR - amount * (BPS_DENOMINATOR - bps))
      error == (1 + 2 * FloatError) * BPS_DENOMINATOR
  IN -error <= twice /\ twice <= error

(* n units are amount * (1 + bps / 10000), computed in doubles and rounded *)
(* up.                                                                     *)
IncreasedByBps(n, amount, bps) ==
  LET over == n * BPS_DENOMINATOR - amount * (BPS_DENOMINATOR + bps)
      error == FloatError * BPS_DENOMINATOR
  IN -error <= over /\ over <= error + BPS_DENOMINATOR

(* With a destMin or a sendMax derived from the quote, the network decides *)
(* on the other amount when it applies the payment.                        *)
Outcomes(quote) ==
  CASE quote.mode = "plain" -> {quote}
    [] quote.mode = "strictSend" ->
         {[quote EXCEPT !.dest = d] : d \in
            {d \in Amounts : \E destMin \in 0..d : ReducedByBps(destMin, quote.dest, quote.bps)}}
    [] quote.mode = "strictReceive" ->
         {[quote EXCEPT !.source = s] : s \in
            {s \in Amounts : \E sendMax \in s..(2 * quote.source + FloatError + 1) :
                               IncreasedByBps(sendMax, quote.source, quote.bps)}}

-----------------------------------------------------------------------------
(* What a sender was promised.  Who receives gets no less than was quoted, *)
(* less the accepted slippage, and who pays pays no more than was quoted   *)
(* and that slippage; both up to the rounding.                             *)
NotShort(quote, paid) ==
  2 * paid.dest * BPS_DENOMINATOR
    >= 2 * quote.dest * (BPS_DENOMINATOR - quote.bps) - (1 + 2 * FloatError) * BPS_DENOMINATOR
NotOvercharged(quote, paid) ==
  paid.source * BPS_DENOMINATOR
    <= quote.source * (BPS_DENOMINATOR + quote.bps) + (1 + FloatError) * BPS_DENOMINATOR
=============================================================================
