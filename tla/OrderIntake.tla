---------------------------- MODULE OrderIntake ----------------------------
(***************************************************************************)
(* What becomes of the values of one order on their way through every      *)
(* layer that validates them: the request (api/v1/schemas.py), the command *)
(* (services/order.py), the domain (domain/order.py), the two tables of    *)
(* the migrations, and back (infrastructure/db/mappers.py).  PlaceOrder    *)
(* models the same use case for many requests with their values left out.  *)
(*                                                                         *)
(* Amounts are integers in thousandths, one digit finer than money is; in  *)
(* JSON an amount is a number or a string, and a string is spelled plainly *)
(* or in another way a Decimal is read from: "010.00", "1e2", "10.100".  A *)
(* quantity keeps the type it has in JSON and counts halves, so that 2,    *)
(* 2.0, 2.5 and true are four values.  A SKU stands for its length and for *)
(* whether a TEXT column can hold it.                                      *)
(***************************************************************************)
EXTENDS Integers, SequencesExt

CONSTANTS NumericMax,  \* the largest NUMERIC(14, 2), in cents, scaled down
          IntegerMax,  \* the largest INTEGER, scaled down
          Requests     \* the orders asked for, over HTTP or by another caller

\* What is distinguished of a field: the two SKUs and the currency that no
\* validator accepts stand for all of those, and a whole number has no halves.
Sku == {"", "beans", "mug", "65 letters", "with NUL"}
Currency == {"EUR", "USD", "eur"}
Quantity == {q \in [type : {"integer", "number", "boolean"}, halves : Int] :
                 q.type = "integer" => q.halves % 2 = 0}
Spelling == {"number", "plain string", "other string"}
Line == [sku : Sku, quantity : Quantity, unit_amount : Int, spelled : Spelling,
         currency : Currency]

ASSUME IntakeAssumption == NumericMax \in Nat \ {0} /\ IntegerMax \in Nat \ {0}
ASSUME RequestsAssumption == Requests \subseteq Seq(Line)

VARIABLES via,      \* "http", or "direct" for a caller that builds the command
          request,  \* the lines asked for
          layer,    \* the layer they have come to
          lines,    \* as that layer holds them
          total,    \* PlaceOrder's total
          tables,   \* the rows stored for the order
          fetched,  \* the lines and total to_domain rebuilt
          reply     \* what the caller got

intake == <<via, request, layer, lines, total, tables, fetched, reply>>

Cent == 10
Nothing == [lines |-> <<>>, total |-> 0]

-----------------------------------------------------------------------------
(***************************************************************************)
(* Fields.                                                                 *)
(***************************************************************************)
Count(quantity) == quantity.halves \div 2

\* A mutant: the published integer 2.0 is left to strict=True, which refuses it.
NoCoercion(quantity) == quantity

\* _integral_float_to_int
IntegralFloatToInt(quantity) ==
    IF quantity.type = "number" /\ quantity.halves % 2 = 0
    THEN [quantity EXCEPT !.type = "integer"]
    ELSE quantity

\* gt=0, le=2_147_483_647, strict=True, in all three layers.
QuantityFits(quantity) == /\ quantity.type = "integer"
                          /\ Count(quantity) \in 1..IntegerMax

\* min_length=1, max_length=64
SkuFits(sku) == sku \in {"beans", "mug", "with NUL"}

\* ^[A-Z]{3}$
CurrencyFits(currency) == currency \in {"EUR", "USD"}

\* ge=0, max_digits=14, decimal_places=2, which bounds the amount by itself.
MoneyFits(amount) == amount % Cent = 0 /\ amount \in 0..NumericMax * Cent

-----------------------------------------------------------------------------
(***************************************************************************)
(* The request and the command: fields, then the relations between lines.  *)
(***************************************************************************)
LineFits(line) == /\ SkuFits(line.sku)
                  /\ QuantityFits(line.quantity)
                  /\ MoneyFits(line.unit_amount)
                  /\ CurrencyFits(line.currency)

Price(line) == Count(line.quantity) * line.unit_amount
Sums(items) == LET sum[n \in 0..Len(items)] ==
                       IF n = 0 THEN 0 ELSE sum[n - 1] + Price(items[n])
               IN  sum
SumOf(items) == Sums(items)[Len(items)]

\* lines_must_share_one_currency
OneCurrency(items) == \A i, j \in DOMAIN items : items[i].currency = items[j].currency

\* A mutant: each line's amount is bounded and their sum is not.
SubtotalsFit(items) == \A i \in DOMAIN items : Price(items[i]) <= NumericMax * Cent

\* total_must_fit_in_money, which the schema and the command state separately
\* and each with a constant of its own (MAX_MONEY, MAX_ORDER_TOTAL).
TotalFitsRequest(items) == SumOf(items) <= NumericMax * Cent
TotalFitsCommand(items) == SumOf(items) <= NumericMax * Cent

\* OrderLineIn's BeforeValidator runs before its fields are checked, and a
\* Decimal, which is not strict, is read from any string that denotes one.
Parsed(items) ==
    [i \in DOMAIN items |->
        [items[i] EXCEPT !.quantity = IntegralFloatToInt(items[i].quantity),
                         !.spelled = "number"]]

PlaceOrderRequest(items) == /\ items # <<>>
                            /\ \A i \in DOMAIN items : LineFits(items[i])
                            /\ OneCurrency(items)
                            /\ TotalFitsRequest(items)

PlaceOrderCommand(items) == /\ items # <<>>
                            /\ \A i \in DOMAIN items : LineFits(items[i])
                            /\ OneCurrency(items)
                            /\ TotalFitsCommand(items)

-----------------------------------------------------------------------------
(***************************************************************************)
(* The domain: values that refuse to be built.                             *)
(***************************************************************************)
Refused == [amount |-> -1, currency |-> "none"]

Money(amount, currency) == IF MoneyFits(amount) /\ CurrencyFits(currency)
                           THEN [amount |-> amount, currency |-> currency]
                           ELSE Refused

\* Money.__mul__, Money.__add__
Times(money, factor) == IF money = Refused
                        THEN Refused
                        ELSE Money(money.amount * factor, money.currency)
Plus(a, b) == IF a # Refused /\ b # Refused /\ a.currency = b.currency
              THEN Money(a.amount + b.amount, a.currency)
              ELSE Refused

UnitPrice(line) == Money(line.unit_amount, line.currency)
Subtotal(line) == Times(UnitPrice(line), Count(line.quantity))

OrderLine(line) == /\ SkuFits(line.sku)
                   /\ QuantityFits(line.quantity)
                   /\ UnitPrice(line) # Refused

\* The running total is a Money at every step.
Totals(items) == LET running[n \in 1..Len(items)] ==
                         IF n = 1 THEN Subtotal(items[n])
                                  ELSE Plus(running[n - 1], Subtotal(items[n]))
                 IN  running
TotalOf(items) == Totals(items)[Len(items)]

\* Order, with total_must_match_lines.
OrderHolds(items, sum) == /\ items # <<>>
                          /\ \A i \in DOMAIN items : OrderLine(items[i])
                          /\ sum # Refused
                          /\ TotalOf(items) = sum

-----------------------------------------------------------------------------
(***************************************************************************)
(* The tables of the migrations, and the rows the mappers write and read.  *)
(***************************************************************************)
\* PostgreSQL rounds to the scale of the column before it checks the range.
Rounded(amount) == ((amount + Cent \div 2) \div Cent) * Cent
NumericHolds(amount) == Rounded(amount) \in 0..NumericMax * Cent
TextHolds(text) == text # "with NUL"

LineRow(line, number) == [line_number |-> number,
                          sku         |-> line.sku,
                          quantity    |-> Count(line.quantity),
                          unit_amount |-> Rounded(line.unit_amount),
                          unit_currency |-> line.currency]

RowsHold(items, sum) ==
    /\ NumericHolds(sum.amount)
    /\ \A i \in DOMAIN items : /\ TextHolds(items[i].sku)
                               /\ Count(items[i].quantity) \in 1..IntegerMax
                               /\ NumericHolds(items[i].unit_amount)

\* order_values, line_values: a table is a set of rows, numbered from 0.
Rows(items, sum) == [order |-> [sum EXCEPT !.amount = Rounded(@)],
                     lines |-> {LineRow(items[i], i - 1) : i \in DOMAIN items}]

\* A mutant: without ORDER BY the rows come in an order of the database's.
AnyOrder(rows) == SetToSeq(rows)

\* SELECT ... ORDER BY line_number: the i-th row is the one i - 1 others precede.
Preceding(rows, row) == {r \in rows : r.line_number < row.line_number}
InLineOrder(rows) == [i \in 1..Cardinality(rows) |->
                         CHOOSE row \in rows : Cardinality(Preceding(rows, row)) = i - 1]

\* to_domain
LineOf(row) == [sku         |-> row.sku,
                quantity    |-> [type |-> "integer", halves |-> 2 * row.quantity],
                unit_amount |-> row.unit_amount,
                spelled     |-> "number",
                currency    |-> row.unit_currency]
ToDomain(stored) == LET rows == InLineOrder(stored.lines)
                    IN  [lines |-> [i \in DOMAIN rows |-> LineOf(rows[i])],
                         total |-> stored.order]

-----------------------------------------------------------------------------
IntakeInit == /\ request \in Requests
              /\ via \in {"http", "direct"}
              \* Who builds the command has Decimals already.
              /\ via = "direct" => \A i \in DOMAIN request : request[i].spelled = "number"
              /\ layer = IF via = "http" THEN "request" ELSE "command"
              /\ lines = request
              /\ total = Refused
              /\ tables = {}
              /\ fetched = Nothing
              /\ reply = "none"

Advance(to, items) == layer' = to /\ lines' = items /\ UNCHANGED reply
Stop(what) == layer' = "done" /\ reply' = what /\ UNCHANGED lines

\* FastAPI builds the request from the body, or _validation_error answers 422.
ValidateRequest ==
    /\ layer = "request"
    /\ IF PlaceOrderRequest(Parsed(lines))
       THEN Advance("command", Parsed(lines))
       ELSE Stop("refused")
    /\ UNCHANGED <<via, request, total, tables, fetched>>

\* to_command; what it refuses of a request accepted above is answered 422 by
\* _pydantic_validation_error, the net for layers that disagree.
ValidateCommand ==
    /\ layer = "command"
    /\ IF PlaceOrderCommand(lines) THEN Advance("assembly", lines)
       ELSE IF via = "http" THEN Stop("refused_below")
       ELSE Stop("refused")
    /\ UNCHANGED <<via, request, total, tables, fetched>>

\* PlaceOrder's two try blocks, before and after the payment it asks for.
Assemble ==
    /\ layer = "assembly"
    /\ IF /\ \A i \in DOMAIN lines : OrderLine(lines[i])
          /\ OrderHolds(lines, TotalOf(lines))
       THEN Advance("save", lines) /\ total' = TotalOf(lines)
       ELSE Stop("service_defect") /\ UNCHANGED total
    /\ UNCHANGED <<via, request, tables, fetched>>

\* The transaction of save(), alone.
Save ==
    /\ layer = "save"
    /\ IF RowsHold(lines, total)
       THEN Advance("placed", lines) /\ tables' = {Rows(lines, total)}
       ELSE Stop("save_failed") /\ UNCHANGED tables
    /\ UNCHANGED <<via, request, total, fetched>>

\* A later get() of the order.
Get ==
    /\ layer = "placed"
    /\ \E stored \in tables :
           LET order == ToDomain(stored)
           IN  IF OrderHolds(order.lines, order.total)
               THEN Stop("served") /\ fetched' = order
               ELSE Stop("corrupt") /\ UNCHANGED fetched
    /\ UNCHANGED <<via, request, total, tables>>

IntakeNext == ValidateRequest \/ ValidateCommand \/ Assemble \/ Save \/ Get

IntakeSpec == IntakeInit /\ [][IntakeNext]_intake

-----------------------------------------------------------------------------
(***************************************************************************)
(* Correctness.                                                            *)
(***************************************************************************)

\* Every layer restates the bounds of the others, with constants and validators
\* of its own.  What the first accepts, the ones below accept: ordinary input is
\* answered 422 or placed, and never a 500 after the payment, with the exception
\* of a SKU no TEXT column holds.
AcceptedMeansPlaced ==
    reply \in {"refused_below", "service_defect", "save_failed", "corrupt"} =>
        \E i \in DOMAIN request : ~TextHolds(request[i].sku)

\* What a request means, read off the published contract and the two rules that
\* relate its lines, on the values as they were sent, whatever their spelling.
Integral(quantity) == \/ quantity.type = "integer"
                      \/ /\ quantity.type = "number"
                         /\ quantity.halves % 2 = 0
                         /\ via = "http"
ConformsInValue ==
    /\ Len(request) >= 1
    /\ \A i \in DOMAIN request :
           LET l == request[i]
           IN  /\ l.sku \notin {"", "65 letters"}
               /\ Integral(l.quantity) /\ l.quantity.halves \in 2..2 * IntegerMax
               /\ l.unit_amount \in {c * Cent : c \in 0..NumericMax}
               /\ l.currency \notin {"eur"}
    /\ \A i \in DOMAIN request : request[i].currency = request[1].currency
    /\ SumOf(request) <= NumericMax * Cent

\* With the contract's pattern for a string: of the strings that denote an
\* amount in its bounds it allows the plain ones.
Conforms == /\ ConformsInValue
            /\ \A i \in DOMAIN request : request[i].spelled # "other string"

\* A caller is refused exactly the values the contract does not allow.  So no
\* validator is stricter than what is published, a request that conforms being
\* never refused; and the only thing they are more lenient about is how an
\* amount is spelled in a string.
RefusesOnlyNonconforming == reply # "none" => (reply = "refused" <=> ~ConformsInValue)


\* An order is served as it was placed: the same lines in the same order, and a
\* total that is the sum of what was asked for.
ServedAsPlaced ==
    reply = "served" => /\ fetched.lines = Parsed(request)
                        /\ fetched.total = total
                        /\ total.amount = SumOf(request)
=============================================================================
