----------------------------- MODULE ChartProofs -----------------------------
(***************************************************************************)
(* The quotes of the live path pass the lake's checks unchanged, for every *)
(* range of floats and every order of magnitude an answer may contain.     *)
(***************************************************************************)
EXTENDS Chart, TLAPS

\* A number that is a float.
Float(n) == n.sign \in {-1, 0, 1} /\ n.exp \in Int /\ n.exp <= MaxExp

LEMMA NumbersAreFloats == \A n \in Numbers : Float(n)
<1>1. Float(Zero)
  BY ExponentsAssumption DEF Float, Zero
<1>2. ASSUME NEW n \in [sign : {-1, 1}, exp : Exponents] PROVE Float(n)
  <2>1. n.sign \in {-1, 1} /\ n.exp \in Exponents
    BY <1>2
  <2>2. n.exp \in (-MaxExp)..MaxExp
    BY <2>1, ExponentsAssumption
  <2> QED BY <2>1, <2>2, ExponentsAssumption DEF Float
<1> QED BY <1>1, <1>2 DEF Numbers

\* finite_number gives a float or nothing, and never takes one for the other.
LEMMA FiniteNumberIsFloat ==
    ASSUME NEW v \in Values
    PROVE  FiniteNumber(v) = None \/ FiniteNumber(v) \in Numbers
BY DEF FiniteNumber, Values

LEMMA PrevCloseIsFloat ==
    ASSUME NEW b \in Bodies, b.shape = "chart"
    PROVE  /\ PrevClose(b) \in Numbers
           /\ PrevClose(b) = Zero \/ PrevClose(b).sign = 1
<1>1. b.chartPreviousClose \in Values /\ b.previousClose \in Values
  BY DEF Bodies, Shapes
<1>2. /\ FiniteNumber(b.chartPreviousClose) \in Numbers \cup {None}
      /\ FiniteNumber(b.previousClose) \in Numbers \cup {None}
  BY <1>1, FiniteNumberIsFloat
<1>3. Zero \in Numbers
  BY DEF Numbers
<1> QED BY <1>2, <1>3 DEF PrevClose, Positive

\* A difference of two prices is no larger than they are.
LEMMA DifferencesAreFloats ==
    ASSUME NEW p, NEW q, Float(p), Float(q), NEW d \in Differences(p, q)
    PROVE  Float(d)
<1>1. CASE p.exp = q.exp
  <2>1. CASE d = Zero
    BY <2>1, ExponentsAssumption DEF Float, Zero
  <2>2. CASE d \in [sign : {-1, 1}, exp : { e \in Exponents : e <= p.exp }]
    <3>1. d.sign \in {-1, 1} /\ d.exp \in (-MaxExp)..MaxExp
      BY <2>2, ExponentsAssumption
    <3> QED BY <3>1, ExponentsAssumption DEF Float
  <2> QED BY <1>1, <2>1, <2>2 DEF Differences
<1>2. CASE p.exp # q.exp
  BY <1>2 DEF Differences, LargerExp, Float
<1> QED BY <1>1, <1>2

\* The check on the percentage keeps both changes finite.
LEMMA ChangesAreFloats ==
    ASSUME NEW p \in Numbers, NEW q \in Numbers, NEW c \in Changes(p, q)
    PROVE  /\ Float(c.change) /\ Float(c.change_pct)
           /\ q = Zero => c = NoChange
<1>1. Float(p) /\ Float(q) /\ Float(Zero)
  BY NumbersAreFloats DEF Numbers
<1>2. CASE c = NoChange
  BY <1>1, <1>2 DEF NoChange
<1>3. CASE c # NoChange
  <2>1. PICK d \in Differences(p, q) : IsFinite(Percentage(d, q)) /\ c = ChangeBy(d, q)
    BY <1>3 DEF Changes
  <2>2. Float(d)
    BY <1>1, DifferencesAreFloats
  <2>3. Float(Percentage(d, q))
    BY <1>1, <2>1, <2>2 DEF Percentage, Float, IsFinite, Zero
  <2>4. q # Zero
    BY <1>3 DEF Changes
  <2> QED BY <2>1, <2>2, <2>3, <2>4 DEF ChangeBy
<1> QED BY <1>2, <1>3

\* What the function gives is an exception, nothing or a quote.
LEMMA Outcomes ==
    ASSUME NEW b \in Bodies, NEW q \in QuoteFromChart(b)
    PROVE  /\ q.outcome \in {"raises", "{}", "quote"}
           /\ q.outcome = "quote" =>
                b.shape = "chart" /\ Positive(FiniteNumber(b.price)) /\ q \in Quotes(b)
<1>1. CASE b.shape \in Raising
  <2>1. q = Raises
    BY <1>1 DEF QuoteFromChart
  <2> QED BY <2>1 DEF Raises
<1>2. CASE b.shape \notin Raising /\ (b.shape # "chart" \/ ~ Positive(FiniteNumber(b.price)))
  <2>1. q = NoQuote
    BY <1>2 DEF QuoteFromChart
  <2> QED BY <2>1 DEF NoQuote
<1>3. CASE ~ (b.shape \in Raising \/ b.shape # "chart" \/ ~ Positive(FiniteNumber(b.price)))
  <2>1. q \in Quotes(b)
    BY <1>3 DEF QuoteFromChart
  <2>2. q.outcome = "quote"
    BY <2>1 DEF Quotes, QuoteOf
  <2> QED BY <1>3, <2>1, <2>2
<1> QED BY <1>1, <1>2, <1>3

\* Whatever the answer, a quote's numbers are floats and its price is positive.
LEMMA QuotesAreFloats ==
    ASSUME NEW b \in Bodies, NEW q \in QuoteFromChart(b), q.outcome = "quote"
    PROVE  /\ b.shape = "chart"
           /\ \A f \in Fields : Float(q[f])
           /\ q.price.sign = 1
           /\ \E c \in Changes(FiniteNumber(b.price), PrevClose(b)) :
                 /\ q = QuoteOf(FiniteNumber(b.price), PrevClose(b), c)
                 /\ PrevClose(b) = Zero => c = NoChange
<1> DEFINE p == FiniteNumber(b.price)
<1>1. b.shape = "chart" /\ Positive(p) /\ q \in Quotes(b)
  BY Outcomes
<1>2. b.price \in Values
  BY <1>1 DEF Bodies, Shapes
<1>3. p \in Numbers /\ p.sign = 1
  BY <1>1, <1>2, FiniteNumberIsFloat DEF Positive
<1>4. PICK c \in Changes(p, PrevClose(b)) : q = QuoteOf(p, PrevClose(b), c)
  BY <1>1 DEF Quotes
<1>5. PrevClose(b) \in Numbers
  BY <1>1, PrevCloseIsFloat
<1> HIDE DEF p
<1>6. /\ Float(p) /\ Float(PrevClose(b)) /\ Float(c.change) /\ Float(c.change_pct)
      /\ PrevClose(b) = Zero => c = NoChange
  BY <1>3, <1>5, ChangesAreFloats, NumbersAreFloats
<1>7. \A f \in Fields : Float(q[f])
  BY <1>4, <1>6 DEF Fields, QuoteOf
<1>8. q.price = p
  BY <1>4 DEF QuoteOf
<1> QED BY <1>1, <1>3, <1>4, <1>6, <1>7, <1>8 DEF p

-----------------------------------------------------------------------------
\* What is known of an answer at each point.
IInv ==
    /\ body \in Bodies
    /\ result = Pending \/ result \in QuoteFromChart(body)
    /\ record = Pending \/ (result.outcome = "quote" /\ record = RecordOf(result))

THEOREM Inductive == Spec => []IInv
<1>1. Init => IInv
  BY DEF Init, IInv
<1>2. IInv /\ [Next]_vars => IInv'
  <2> SUFFICES ASSUME IInv, [Next]_vars PROVE IInv'
    OBVIOUS
  <2>1. CASE FetchQuoteRaw
    BY <2>1 DEF FetchQuoteRaw, IInv, Pending
  <2>2. CASE Normalise
    BY <2>2 DEF Normalise, IInv
  <2>3. CASE UNCHANGED vars
    BY <2>3 DEF vars, IInv
  <2> QED BY <2>1, <2>2, <2>3 DEF Next
<1> QED BY <1>1, <1>2, PTL DEF Spec

\* Every number of every quote is a finite float.
THEOREM TypeCorrect == Spec => []TypeOK
<1>1. IInv => TypeOK
  <2> SUFFICES ASSUME IInv PROVE TypeOK
    OBVIOUS
  <2>1. result.outcome \in {"pending", "raises", "{}", "quote"}
    <3>1. CASE result = Pending
      BY <3>1 DEF Pending
    <3>2. CASE result \in QuoteFromChart(body)
      BY <3>2, Outcomes DEF IInv
    <3> QED BY <3>1, <3>2 DEF IInv
  <2>2. record.outcome \in {"pending", "invalid_price", "record"}
    BY DEF IInv, Pending, RecordOf
  <2>3. ASSUME result.outcome = "quote", NEW f \in Fields
        PROVE  result[f].exp \in Int /\ IsFinite(result[f])
    BY <2>3, QuotesAreFloats DEF IInv, Pending, Float, IsFinite
  <2> QED BY <2>1, <2>2, <2>3 DEF TypeOK, IInv
<1> QED BY <1>1, Inductive, PTL

\* The lake normaliser drops no quote of the live path and blanks no number of
\* one, so the CSV projection and Bronze show the same numbers.
THEOREM BronzeKeepsTheQuoteAlways == Spec => []BronzeKeepsTheQuote
<1>1. IInv => BronzeKeepsTheQuote
  <2> SUFFICES ASSUME IInv, record # Pending PROVE BronzeKeepsTheQuote
    BY DEF BronzeKeepsTheQuote
  <2>1. result.outcome = "quote" /\ record = RecordOf(result)
    BY DEF IInv
  <2>2. result \in QuoteFromChart(body)
    BY <2>1 DEF IInv, Pending
  <2>3. result.price.sign = 1 /\ \A f \in Fields : Float(result[f])
    BY <2>1, <2>2, QuotesAreFloats DEF IInv
  <2>4. \A f \in Fields : IsFinite(result[f]) /\ OptionalNumber(result[f]) = result[f]
    BY <2>3 DEF Float, IsFinite, OptionalNumber
  <2>5. Accepts(result)
    BY <2>3, <2>4 DEF Accepts, Fields
  <2>6. record = [outcome |-> "record", price |-> result.price,
                  prev_close |-> result.prev_close, change |-> result.change,
                  change_pct |-> result.change_pct]
    BY <2>1, <2>4, <2>5 DEF RecordOf, Fields
  <2> QED BY <2>6 DEF BronzeKeepsTheQuote, Fields
<1> QED BY <1>1, Inductive, PTL

\* A quote lacks a previous close only if the answer has no usable one.
THEOREM PreviousCloseFoundAlways == Spec => []PreviousCloseFound
<1>1. IInv => PreviousCloseFound
  <2> SUFFICES ASSUME IInv, result.outcome = "quote" PROVE PreviousCloseFound
    BY DEF PreviousCloseFound
  <2>1. result \in QuoteFromChart(body) /\ body \in Bodies
    BY DEF IInv, Pending
  <2>2. PICK c : /\ result = QuoteOf(FiniteNumber(body.price), PrevClose(body), c)
                 /\ PrevClose(body) = Zero => c = NoChange
    BY <2>1, QuotesAreFloats
  <2>3. /\ result.prev_close = PrevClose(body)
        /\ result.change = c.change /\ result.change_pct = c.change_pct
    BY <2>2 DEF QuoteOf
  <2>4. PrevClose(body) = Zero => result.change = Zero /\ result.change_pct = Zero
    BY <2>2, <2>3 DEF NoChange
  <2>5. PrevClose(body) = Zero <=>
            ~ \E v \in {body.chartPreviousClose, body.previousClose} : Positive(FiniteNumber(v))
    BY DEF PrevClose, Positive, Zero
  <2> QED BY <2>3, <2>4, <2>5 DEF PreviousCloseFound
<1> QED BY <1>1, Inductive, PTL
=============================================================================
