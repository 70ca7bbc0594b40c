---------------------------- MODULE QuotesProofs ----------------------------
(***************************************************************************)
(* What the loops of Quotes compute, for any symbols and any number of     *)
(* them: an invariant for each loop says what it has done with the part of *)
(* its sequence that it has passed.                                        *)
(***************************************************************************)
EXTENDS Quotes, FiniteSetTheorems, TLAPS

-----------------------------------------------------------------------------
(* Sequences                                                               *)

\* Appending adds one place and leaves the others alone.
LEMMA Appended ==
    ASSUME NEW S, NEW s \in Seq(S), NEW x \in S
    PROVE  /\ Append(s, x) \in Seq(S)
           /\ Len(Append(s, x)) = Len(s) + 1
           /\ DOMAIN Append(s, x) = 1..(Len(s) + 1)
           /\ Append(s, x)[Len(s) + 1] = x
           /\ \A i \in 1..Len(s) : Append(s, x)[i] = s[i]
           /\ DOMAIN s = 1..Len(s) /\ Len(s) \in Nat
           /\ \A i \in 1..Len(s) : s[i] \in S
OBVIOUS

\* So a sequence that a step may have appended to keeps its type.
LEMMA MaybeAppended ==
    ASSUME NEW S, NEW s \in Seq(S), NEW x \in S, NEW t, t = s \/ t = Append(s, x)
    PROVE  t \in Seq(S) /\ Len(t) <= Len(s) + 1
<1>1. CASE t = s
  BY <1>1
<1>2. CASE t = Append(s, x)
  BY <1>2, Appended
<1> QED BY <1>1, <1>2

\* Appending adds one member to the sequence's range.
LEMMA RangeOfAppended ==
    ASSUME NEW S, NEW s \in Seq(S), NEW x \in S
    PROVE  Range(Append(s, x)) = Range(s) \cup {x}
<1>1. 1..(Len(s) + 1) = (1..Len(s)) \cup {Len(s) + 1}
  OBVIOUS
<1> QED BY <1>1, Appended DEF Range

\* Appending a record adds its id.
LEMMA IdsOfAppended ==
    ASSUME NEW rs \in Seq(Record), NEW r \in Record
    PROVE  IdsOf(Append(rs, r)) = IdsOf(rs) \cup {r.id}
<1>1. 1..(Len(rs) + 1) = (1..Len(rs)) \cup {Len(rs) + 1}
  OBVIOUS
<1> HIDE DEF Record
<1> QED BY <1>1, Appended DEF IdsOf

\* A sequence built by appending what a function gives of each position.
LEMMA BuiltByAppending ==
    ASSUME NEW S, NEW f, NEW n \in Nat \ {0}, \A i \in 1..n : f[i] \in S
    PROVE  Append([i \in 1..(n - 1) |-> f[i]], f[n]) = [i \in 1..n |-> f[i]]
<1> DEFINE s == [i \in 1..(n - 1) |-> f[i]]
           t == [i \in 1..n |-> f[i]]
<1>1. s \in Seq(S) /\ Len(s) = n - 1
  OBVIOUS
<1>2. f[n] \in S
  OBVIOUS
<1>3. t \in Seq(S) /\ Len(t) = n
  OBVIOUS
<1>4. Append(s, f[n]) \in Seq(S) /\ Len(Append(s, f[n])) = n
  BY <1>1, <1>2
<1>5. \A i \in 1..n : Append(s, f[n])[i] = t[i]
  BY <1>1, <1>2
<1> HIDE DEF s, t
<1> QED BY <1>3, <1>4, <1>5

-----------------------------------------------------------------------------
(* Type correctness                                                        *)

\* run_live_ingest is given no more symbols than were typed or configured.
Sized ==
    /\ Len(args) <= MaxQuotes /\ Len(symbols) <= Len(args)
    /\ stage = "args" => Len(symbols) < next

TInv == TypeOK /\ Sized

\* What becomes of one quote is well typed.
LEMMA QuoteTypes ==
    \A q \in Quote : Id(q) \in Spellings /\ RecordOf(q) \in Record
BY UpperAssumption DEF Quote, Record, Id, RecordOf

\* A report is a list of rejections.
LEMMA RejectTyped ==
    ASSUME NEW r \in Record, NEW reason \in Reason, rejected \in Seq(Rejection),
           Reject(r, reason)
    PROVE  rejected' \in Seq(Rejection)
<1>1. [id |-> r.id, reason |-> reason, response |-> r.response] \in Rejection
  BY DEF Rejection, Record
<1> QED BY <1>1, Appended DEF Reject

\* The variables start with their types, whoever calls.
LEMMA InitTyped == Init => TInv
<1> SUFFICES ASSUME Init PROVE TInv
  OBVIOUS
<1>1. PICK n \in 0..MaxQuotes : args \in [1..n -> Spellings]
  BY DEF Init
<1>2. n \in Nat /\ n <= MaxQuotes
  BY MaxQuotesAssumption
<1>3. args \in Seq(Spellings) /\ Len(args) = n /\ DOMAIN args = 1..n
  BY <1>1, <1>2
<1>4. fetched \in Seq(Quote)
  <2>1. CASE entry = "direct"
    <3>1. PICK priced \in [DOMAIN args -> BOOLEAN] :
            fetched = [i \in DOMAIN args |->
                         [symbol |-> args[i], priced |-> priced[i], response |-> i]]
      BY <2>1 DEF Init
    <3>2. \A i \in 1..n : /\ args[i] \in Spellings /\ priced[i] \in BOOLEAN
                          /\ i \in Response
      BY <1>2, <1>3, MaxQuotesAssumption DEF Response
    <3>3. \A i \in 1..n : fetched[i] \in Quote
      BY <1>3, <3>1, <3>2 DEF Quote
    <3>4. fetched = [i \in 1..n |-> fetched[i]]
      BY <1>3, <3>1
    <3> QED BY <1>2, <3>3, <3>4
  <2>2. CASE entry # "direct"
    <3>1. fetched = <<>>
      BY <2>2 DEF Init
    <3> QED BY <3>1
  <2> QED BY <2>1, <2>2
<1>5. symbols \in Seq(Spellings) /\ Len(symbols) <= Len(args) /\ Len(symbols) < 1 + Len(args)
  <2>1. symbols = <<>> \/ symbols = args
    BY DEF Init
  <2>2. CASE symbols = <<>>
    <3>1. Len(symbols) = 0
      BY <2>2
    <3> QED BY <1>2, <1>3, <2>2, <3>1
  <2>3. CASE symbols = args
    BY <1>2, <1>3, <2>3
  <2> QED BY <2>1, <2>2, <2>3
<1>6. stage = "args" => Len(symbols) < next
  BY DEF Init
<1>7. responses \in [Spellings -> Response \cup {NotLanded}]
  BY DEF Init
<1>8. /\ stage \in {"args", "fetch", "normalise"}
      /\ caller = "clean_quotes" /\ next = 1 /\ accepted = {}
      /\ normalised = <<>> /\ records = <<>> /\ rejected = <<>> /\ kept = <<>>
      /\ entry \in Entries
  BY DEF Init
<1> QED BY <1>2, <1>3, <1>4, <1>5, <1>6, <1>7, <1>8 DEF TInv, TypeOK, Sized

\* A loop's body leaves the position in range.
LEMMA StepTyped == TInv /\ [Next]_vars => TInv'
<1> SUFFICES ASSUME TInv, [Next]_vars PROVE TInv'
  OBVIOUS
<1>0. /\ symbols \in Seq(Spellings) /\ fetched \in Seq(Quote) /\ kept \in Seq(Quote)
      /\ normalised \in Seq(Record) /\ records \in Seq(Record)
      /\ rejected \in Seq(Rejection)
  BY DEF TInv, TypeOK
<1> USE DEF fetching, cleaning, normalising, Goto, Past
<1>1. CASE TakeArg
  <2>1. next \in 1..Len(args) /\ next' = next + 1 /\ stage' = stage /\ stage = "args"
    BY <1>1 DEF TakeArg, Pass, TInv, TypeOK
  <2>2. Upper[args[next]] \in Spellings
    BY <2>1, UpperAssumption DEF TInv, TypeOK
  <2>3. symbols' = symbols \/ symbols' = Append(symbols, Upper[args[next]])
    BY <1>1 DEF TakeArg
  <2>4. symbols' \in Seq(Spellings) /\ Len(symbols') <= Len(symbols) + 1
    BY <1>0, <2>2, <2>3, MaybeAppended
  <2>5. Len(symbols') <= Len(args) /\ Len(symbols') < next'
    BY <1>0, <2>1, <2>4 DEF TInv, TypeOK, Sized
  <2> QED BY <1>1, <2>1, <2>4, <2>5 DEF TakeArg, TInv, TypeOK, Sized
<1>2. CASE EndArgs
  BY <1>2 DEF EndArgs, TInv, TypeOK, Sized
<1>3. CASE Fetch /\ (FetchUsable \/ FetchUnusable \/ FetchFails)
  <2>1. next \in Response /\ next' \in Nat \ {0} /\ symbols[next] \in Spellings
    BY <1>3, MaxQuotesAssumption DEF Fetch, Pass, Response, TInv, TypeOK, Sized
  <2>2. responses' \in [Spellings -> Response \cup {NotLanded}]
    BY <1>3, <2>1 DEF TInv, TypeOK, FetchUsable, FetchUnusable, FetchFails
  <2>3. [symbol |-> symbols[next], priced |-> TRUE, response |-> next] \in Quote
    BY <2>1 DEF Quote
  <2>4. fetched' \in Seq(Quote)
    <3>1. fetched' = fetched \/ fetched' = Append(fetched, [symbol |-> symbols[next], priced |-> TRUE, response |-> next])
      BY <1>3 DEF FetchUsable, FetchUnusable, FetchFails
    <3> QED BY <1>0, <2>3, <3>1, MaybeAppended
  <2> QED BY <1>3, <2>1, <2>2, <2>4 DEF Fetch, Pass, TInv, TypeOK, Sized
<1>4. CASE EndFetch
  BY <1>4 DEF EndFetch, TInv, TypeOK, Sized
<1>5. CASE Normalise
  <2>1. quotes \in Seq(Quote) /\ next \in 1..Len(quotes)
    BY <1>5 DEF Normalise, Pass, quotes, TInv, TypeOK
  <2>2. quotes[next] \in Quote
    BY <2>1
  <2>3. Id(quotes[next]) \in Spellings /\ RecordOf(quotes[next]) \in Record
    BY <2>2, QuoteTypes
  <2>4. normalised' \in Seq(Record)
    <3>1. normalised' = normalised \/ normalised' = Append(normalised, RecordOf(quotes[next]))
      BY <1>5 DEF Normalise
    <3> QED BY <1>0, <2>3, <3>1, MaybeAppended
  <2>5. rejected' \in Seq(Rejection)
    BY <1>0, <1>5, <2>3, RejectTyped DEF Normalise, Reason
  <2> QED BY <1>5, <2>4, <2>5 DEF Normalise, Pass, TInv, TypeOK, Sized
<1>6. CASE EndNormalise
  BY <1>6 DEF EndNormalise, TInv, TypeOK, Sized
<1>7. CASE Dedupe
  <2>1. normalised[next] \in Record
    BY <1>0, <1>7 DEF Dedupe, Pass, TInv, TypeOK
  <2>3. records' \in Seq(Record)
    <3>1. records' = records \/ records' = Append(records, normalised[next])
      BY <1>7 DEF Dedupe
    <3> QED BY <1>0, <2>1, <3>1, MaybeAppended
  <2>4. rejected' \in Seq(Rejection)
    BY <1>0, <1>7, <2>1, RejectTyped DEF Dedupe, Reason
  <2> QED BY <1>7, <2>3, <2>4 DEF Dedupe, Pass, TInv, TypeOK, Sized
<1>8. CASE EndDedupe
  <2>1. \A i \in DOMAIN records : records[i] \in Record
    BY <1>0
  <2>2. IdsOf(records) \subseteq Spellings
    BY <2>1 DEF IdsOf, Record
  <2> QED BY <1>8, <2>2 DEF EndDedupe, TInv, TypeOK, Sized
<1>9. CASE Pick
  <2>1. fetched[next] \in Quote
    BY <1>0, <1>9 DEF Pick, Pass, TInv, TypeOK
  <2>2. kept' \in Seq(Quote) /\ accepted' \subseteq Spellings
    BY <1>0, <1>9, <2>1, Appended DEF Pick, TInv, TypeOK
  <2> QED BY <1>9, <2>2 DEF Pick, Pass, TInv, TypeOK, Sized
<1>10. CASE EndPick
  BY <1>10 DEF EndPick, TInv, TypeOK, Sized
<1>11. CASE UNCHANGED vars
  BY <1>11 DEF vars, TInv, TypeOK, Sized
<1> QED BY <1>1, <1>2, <1>3, <1>4, <1>5, <1>6, <1>7, <1>8, <1>9, <1>10, <1>11
        DEF Next, FetchUsable, FetchUnusable, FetchFails

LEMMA Typed == Spec => []TInv
BY InitTyped, StepTyped, PTL DEF Spec

\* Every variable keeps its type; in particular no loop reads past its sequence.
THEOREM TypeCorrect == Spec => []TypeOK
BY Typed, PTL DEF TInv

-----------------------------------------------------------------------------
(* What each loop has done                                                 *)

\* quote_records_with_report is called by clean_quotes first, which holds no
\* rows before its own loop begins; a usage error ends the run before that.
Calls ==
    /\ stage \in {"args", "fetch", "pick"} => caller = "clean_quotes"
    /\ caller = "clean_quotes" /\ stage # "pick" => kept = <<>> /\ accepted = {}
    /\ stage \in {"args", "fetch"} => normalised = <<>> /\ rejected = <<>>
    /\ stage \in {"args", "fetch", "normalise"} => records = <<>>
    /\ stage = "args" => entry = "main" /\ fetched = <<>>
    /\ stage = "done" /\ caller = "clean_quotes" => records = <<>>

\* The quotes are numbered in the order they came.
InOrder(qs) == \A i, j \in DOMAIN qs : i < j => qs[i].response < qs[j].response

\* The fetch loop: a quote is read from its symbol's response and has a price;
\* for main, whose symbols are distinct, that response is the one that lands.
Distinct(ss) == \A i, j \in DOMAIN ss : ss[i] = ss[j] => i = j

FetchLoop ==
    /\ InOrder(fetched)
    /\ stage = "fetch" => \A i \in DOMAIN fetched : fetched[i].response < next
    /\ entry # "direct" => \A i \in DOMAIN fetched :
         /\ fetched[i].priced
         /\ fetched[i].response \in DOMAIN symbols
         /\ fetched[i].symbol = symbols[fetched[i].response]
    /\ entry = "main" =>
         /\ Distinct(symbols)
         /\ \A i \in DOMAIN fetched : responses[fetched[i].symbol] = fetched[i].response

\* The ids of the acceptable quotes among the first n.
OkIdsTo(qs, n) == { Id(qs[i]) : i \in { j \in 1..n : Acceptable(qs[j]) } }
OkIds(qs) == OkIdsTo(qs, Len(qs))
IdsTo(qs, n) == { Id(qs[i]) : i \in 1..n }

\* The first quote of an id that some quote makes acceptable.
First(qs, i) == /\ Id(qs[i]) \in OkIds(qs)
                /\ \A j \in 1..(i - 1) : Id(qs[j]) # Id(qs[i])
FirstsTo(qs, n) == { qs[i] : i \in { j \in 1..n : First(qs, j) } }

\* The loop of quote_records_with_report for clean_quotes: each quote has become
\* a record or a rejection.
NormaliseLoop ==
    caller = "clean_quotes" /\ stage = "normalise" =>
        /\ next <= Len(fetched) + 1
        /\ IdsOf(normalised) = OkIdsTo(fetched, next - 1)
        /\ Len(normalised) + Len(rejected) = next - 1

\* The loop of dedupe_by_key for clean_quotes: each record has become the only
\* one of its id, or a rejection.
DedupeLoop ==
    caller = "clean_quotes" /\ stage = "dedupe" =>
        /\ next <= Len(normalised) + 1
        /\ IdsOf(normalised) = OkIds(fetched)
        /\ IdsOf(records) = { normalised[i].id : i \in 1..(next - 1) }
        /\ IsFiniteSet(IdsOf(records)) /\ Cardinality(IdsOf(records)) = Len(records)
        /\ Len(records) + Len(rejected) + Len(normalised) = Len(fetched) + next - 1

\* The second loop of clean_quotes: the ids still to be met are those of the
\* acceptable quotes but for the ids it has passed.
PickLoop ==
    stage = "pick" =>
        /\ next <= Len(fetched) + 1
        /\ accepted = OkIds(fetched) \ IdsTo(fetched, next - 1)
        /\ IsFiniteSet(accepted)
        /\ Len(kept) + Cardinality(accepted) + Len(rejected) = Len(fetched)
        /\ Range(kept) = FirstsTo(fetched, next - 1)
        /\ InOrder(kept)

\* What clean_quotes returns.
CleanQuotes ==
    caller = "lake" =>
        /\ Len(kept) + Len(rejected) = Len(fetched)
        /\ Range(kept) = FirstsTo(fetched, Len(fetched))
        /\ InOrder(kept)

\* The records of the first n rows.
RecordsTo(qs, n) == [i \in 1..n |-> RecordOf(qs[i])]

\* The two loops again for the lake, on quotes that all have prices and ids of
\* their own: nothing is dropped.
LakeLoops ==
    caller = "lake" /\ entry # "direct" =>
        /\ stage = "normalise" =>
             next <= Len(kept) + 1 /\ normalised = RecordsTo(kept, next - 1)
        /\ stage = "dedupe" =>
             /\ next <= Len(kept) + 1
             /\ normalised = RecordsTo(kept, Len(kept)) /\ records = RecordsTo(kept, next - 1)
        /\ stage = "done" => records = RecordsTo(kept, Len(kept))

\* The responses of the quotes that a sequence is about.
ResponsesOf(seq) == { seq[i].response : i \in DOMAIN seq }

\* A report grows by one rejection, of the quote at hand.
LEMMA RejectAppends ==
    ASSUME NEW r \in Record, NEW reason \in Reason, rejected \in Seq(Rejection),
           caller = "clean_quotes", Reject(r, reason)
    PROVE  /\ Len(rejected') = Len(rejected) + 1
           /\ ResponsesOf(rejected') = ResponsesOf(rejected) \cup {r.response}
<1> DEFINE x == [id |-> r.id, reason |-> reason, response |-> r.response]
<1>1. x \in Rejection /\ x.response = r.response
  BY DEF Rejection, Record
<1>2. rejected' = Append(rejected, x)
  BY DEF Reject
<1>3. 1..(Len(rejected) + 1) = (1..Len(rejected)) \cup {Len(rejected) + 1}
  OBVIOUS
<1> HIDE DEF x, Rejection
<1> QED BY <1>1, <1>2, <1>3, Appended DEF ResponsesOf

-----------------------------------------------------------------------------
(* Where the calls are                                                     *)

\* What has happened by the time each loop runs.
LEMMA CallsAlways == Spec => []Calls
<1>1. Init => Calls
  BY DEF Init, Calls
<1>2. Calls /\ [Next]_vars => Calls'
  <2> SUFFICES ASSUME Calls, [Next]_vars PROVE Calls'
    OBVIOUS
  <2> USE DEF Calls, Goto, Past, Pass, fetching, normalising, cleaning
  <2>1. CASE TakeArg
    BY <2>1 DEF TakeArg
  <2>2. CASE EndArgs
    BY <2>2 DEF EndArgs
  <2>3. CASE Fetch
    BY <2>3 DEF Fetch
  <2>4. CASE EndFetch
    BY <2>4 DEF EndFetch
  <2>5. CASE Normalise
    BY <2>5 DEF Normalise
  <2>6. CASE EndNormalise
    BY <2>6 DEF EndNormalise
  <2>7. CASE Dedupe
    BY <2>7 DEF Dedupe
  <2>8. CASE EndDedupe
    BY <2>8 DEF EndDedupe
  <2>9. CASE Pick
    BY <2>9 DEF Pick
  <2>10. CASE EndPick
    BY <2>10 DEF EndPick
  <2>11. CASE UNCHANGED vars
    BY <2>11 DEF vars
  <2> QED BY <2>1, <2>2, <2>3, <2>4, <2>5, <2>6, <2>7, <2>8, <2>9, <2>10, <2>11
          DEF Next, FetchUsable, FetchUnusable, FetchFails
<1> QED BY <1>1, <1>2, PTL DEF Spec

-----------------------------------------------------------------------------
(* The fetch loop                                                          *)

\* Quotes a direct caller brings are numbered by their places.
LEMMA FetchLoopInit == Init => FetchLoop
<1> SUFFICES ASSUME Init PROVE FetchLoop
  OBVIOUS
<1>1. entry # "direct" => fetched = <<>>
  BY DEF Init
<1>2. ASSUME entry = "direct" PROVE InOrder(fetched)
  <2>1. PICK n \in 0..MaxQuotes : args \in [1..n -> Spellings]
    BY DEF Init
  <2>2. PICK priced \in [DOMAIN args -> BOOLEAN] :
          fetched = [i \in DOMAIN args |->
                       [symbol |-> args[i], priced |-> priced[i], response |-> i]]
    BY <1>2 DEF Init
  <2>3. DOMAIN fetched = 1..n /\ \A i \in 1..n : fetched[i].response = i
    BY <2>1, <2>2
  <2> QED BY <2>3 DEF InOrder
<1>3. entry = "main" => symbols = <<>>
  BY DEF Init
<1>4. stage = "fetch" => entry # "direct"
  BY DEF Init
<1> QED BY <1>1, <1>2, <1>3, <1>4 DEF FetchLoop, InOrder, Distinct

\* A pass of main's loop adds a symbol that was not there.
LEMMA TakeArgKeepsDistinct ==
    TInv /\ TakeArg /\ Distinct(symbols) => Distinct(symbols')
<1> SUFFICES ASSUME TInv, TakeArg, Distinct(symbols) PROVE Distinct(symbols')
  OBVIOUS
<1> DEFINE s == Upper[args[next]]
<1>1. symbols \in Seq(Spellings) /\ s \in Spellings
  BY UpperAssumption DEF TInv, TypeOK, TakeArg, Pass
<1>2. CASE symbols' = symbols
  BY <1>2
<1>3. CASE symbols' = Append(symbols, s) /\ s \notin Range(symbols)
  <2> HIDE DEF s
  <2>1. /\ DOMAIN symbols' = 1..(Len(symbols) + 1) /\ symbols'[Len(symbols) + 1] = s
        /\ \A i \in 1..Len(symbols) : symbols'[i] = symbols[i] /\ symbols[i] # s
        /\ DOMAIN symbols = 1..Len(symbols) /\ Len(symbols) \in Nat
    BY <1>1, <1>3, Appended DEF Range
  <2> QED BY <2>1 DEF Distinct
<1> QED BY <1>2, <1>3 DEF TakeArg

\* A pass of the fetch loop reads the response of the symbol it is at.
LEMMA FetchKeepsLoop ==
    TInv /\ FetchLoop /\ Fetch /\ (FetchUsable \/ FetchUnusable \/ FetchFails) => FetchLoop'
<1> SUFFICES ASSUME TInv, FetchLoop, Fetch, FetchUsable \/ FetchUnusable \/ FetchFails
             PROVE  FetchLoop'
  OBVIOUS
<1> DEFINE q == [symbol |-> symbols[next], priced |-> TRUE, response |-> next]
<1>1. /\ fetched \in Seq(Quote) /\ symbols \in Seq(Spellings)
      /\ next \in 1..Len(symbols) /\ next' = next + 1 /\ next \in Response
      /\ symbols' = symbols /\ entry' = entry /\ DOMAIN symbols = 1..Len(symbols)
      /\ symbols[next] \in Spellings /\ responses \in [Spellings -> Response \cup {NotLanded}]
      /\ stage = "fetch"
  BY MaxQuotesAssumption DEF TInv, TypeOK, Sized, Fetch, Pass, Response
<1>2. \A i \in DOMAIN fetched : /\ fetched[i] \in Quote /\ fetched[i].response < next
                                /\ fetched[i].response \in Nat /\ fetched[i].symbol \in Spellings
  <2> TAKE i \in DOMAIN fetched
  <2>1. fetched[i] \in Quote
    BY <1>1
  <2>2. fetched[i].response < next
    BY <1>1 DEF FetchLoop
  <2> QED BY <2>1, <2>2, MaxQuotesAssumption DEF Quote, Response
<1>3. ASSUME entry = "main", responses' = [responses EXCEPT ![symbols[next]] = next],
             NEW i \in DOMAIN fetched
      PROVE  responses'[fetched[i].symbol] = fetched[i].response
  <2>1. fetched[i].response \in DOMAIN symbols /\ fetched[i].symbol = symbols[fetched[i].response]
    BY <1>3 DEF FetchLoop
  <2>2. fetched[i].response # next
    BY <1>1, <1>2
  <2>3. fetched[i].symbol # symbols[next]
    BY <1>1, <1>3, <2>1, <2>2 DEF FetchLoop, Distinct
  <2>4. responses[fetched[i].symbol] = fetched[i].response
    BY <1>3 DEF FetchLoop
  <2> QED BY <1>1, <1>2, <1>3, <2>3, <2>4
<1>4. CASE fetched' = fetched /\ responses' = responses
  BY <1>1, <1>2, <1>4 DEF FetchLoop, InOrder
<1>5. CASE fetched' = fetched /\ responses' = [responses EXCEPT ![symbols[next]] = next]
  BY <1>1, <1>2, <1>3, <1>5 DEF FetchLoop, InOrder
<1>6. CASE fetched' = Append(fetched, q) /\ responses' = [responses EXCEPT ![symbols[next]] = next]
  <2>1. q \in Quote /\ q.response = next /\ q.symbol = symbols[next] /\ q.priced = TRUE
    BY <1>1 DEF Quote
  <2> HIDE DEF q
  <2>2. /\ DOMAIN fetched' = 1..(Len(fetched) + 1) /\ fetched'[Len(fetched) + 1] = q
        /\ \A i \in 1..Len(fetched) : fetched'[i] = fetched[i]
        /\ DOMAIN fetched = 1..Len(fetched) /\ Len(fetched) \in Nat
    BY <1>1, <1>6, <2>1, Appended
  <2>3. InOrder(fetched')
    <3> SUFFICES ASSUME NEW i \in DOMAIN fetched', NEW j \in DOMAIN fetched', i < j
                 PROVE  fetched'[i].response < fetched'[j].response
      BY DEF InOrder
    <3>1. i \in DOMAIN fetched /\ fetched'[i] = fetched[i]
      BY <2>2
    <3>2. CASE j = Len(fetched) + 1
      BY <1>2, <2>1, <2>2, <3>1, <3>2
    <3>3. CASE j # Len(fetched) + 1
      <4>1. j \in DOMAIN fetched /\ fetched'[j] = fetched[j]
        BY <2>2, <3>3
      <4> QED BY <3>1, <4>1 DEF FetchLoop, InOrder
    <3> QED BY <3>2, <3>3
  <2>4. \A i \in DOMAIN fetched' : fetched'[i].response < next'
    BY <1>1, <1>2, <2>1, <2>2
  <2>5. ASSUME entry # "direct", NEW i \in DOMAIN fetched'
        PROVE  /\ fetched'[i].priced /\ fetched'[i].response \in DOMAIN symbols
               /\ fetched'[i].symbol = symbols[fetched'[i].response]
    <3>1. CASE i = Len(fetched) + 1
      BY <1>1, <2>1, <2>2, <3>1
    <3>2. CASE i # Len(fetched) + 1
      <4>1. i \in DOMAIN fetched /\ fetched'[i] = fetched[i]
        BY <2>2, <3>2
      <4> QED BY <2>5, <4>1 DEF FetchLoop
    <3> QED BY <3>1, <3>2
  <2>6. ASSUME entry = "main", NEW i \in DOMAIN fetched'
        PROVE  responses'[fetched'[i].symbol] = fetched'[i].response
    <3>1. CASE i = Len(fetched) + 1
      BY <1>1, <1>6, <2>1, <2>2, <3>1
    <3>2. CASE i # Len(fetched) + 1
      <4>1. i \in DOMAIN fetched /\ fetched'[i] = fetched[i]
        BY <2>2, <3>2
      <4> QED BY <1>3, <1>6, <2>6, <4>1
    <3> QED BY <3>1, <3>2
  <2> QED BY <1>1, <2>3, <2>4, <2>5, <2>6 DEF FetchLoop
<1> QED BY <1>4, <1>5, <1>6 DEF FetchUsable, FetchUnusable, FetchFails

\* Nothing after the fetch loop touches what it has read.
LEMMA FetchLoopAlways == Spec => []FetchLoop
<1>1. TInv /\ Calls /\ FetchLoop /\ [Next]_vars => FetchLoop'
  <2> SUFFICES ASSUME TInv, Calls, FetchLoop, [Next]_vars PROVE FetchLoop'
    OBVIOUS
  <2>1. CASE TakeArg
    <3>1. fetched = <<>> /\ fetched' = <<>> /\ entry' = entry /\ stage' = "args"
      BY <2>1 DEF TakeArg, Pass, Calls
    <3>2. entry = "main" => Distinct(symbols')
      BY <2>1, TakeArgKeepsDistinct DEF FetchLoop
    <3> QED BY <3>1, <3>2 DEF FetchLoop, InOrder
  <2>2. CASE Fetch /\ (FetchUsable \/ FetchUnusable \/ FetchFails)
    BY <2>2, FetchKeepsLoop
  <2>3. CASE EndArgs
    <3>1. fetched = <<>> /\ UNCHANGED fetching
      BY <2>3 DEF EndArgs, Past, Calls
    <3> QED BY <3>1 DEF FetchLoop, fetching, InOrder, Distinct
  <2>4. CASE UNCHANGED fetching /\ (stage' = "fetch" => stage = "fetch" /\ next' = next)
    BY <2>4 DEF FetchLoop, fetching, InOrder, Distinct
  <2> QED BY <2>1, <2>2, <2>3, <2>4
          DEF Next, vars, FetchUsable, FetchUnusable, FetchFails, EndFetch, Normalise,
              EndNormalise, Dedupe, EndDedupe, Pick, EndPick, Pass, Past, Goto, fetching
<1> QED BY <1>1, FetchLoopInit, Typed, CallsAlways, PTL DEF Spec

-----------------------------------------------------------------------------
(* quote_records_with_report for clean_quotes                              *)

\* One more quote, one more id at most.
LEMMA OkIdsGrow ==
    ASSUME NEW qs, NEW n \in Nat \ {0}
    PROVE  OkIdsTo(qs, n) = OkIdsTo(qs, n - 1)
             \cup IF Acceptable(qs[n]) THEN {Id(qs[n])} ELSE {}
<1>1. 1..n = (1..(n - 1)) \cup {n}
  OBVIOUS
<1> QED BY <1>1 DEF OkIdsTo

\* No quotes, no ids.
LEMMA NoneYet ==
    /\ \A qs : OkIdsTo(qs, 0) = {} /\ IdsTo(qs, 0) = {} /\ FirstsTo(qs, 0) = {}
    /\ IdsOf(<<>>) = {} /\ Range(<<>>) = {}
<1>1. 1..0 = {} /\ DOMAIN <<>> = {}
  OBVIOUS
<1> QED BY <1>1 DEF OkIdsTo, IdsTo, FirstsTo, IdsOf, Range

\* Each pass turns a quote into a record or a rejection.
LEMMA NormaliseKeepsLoop == TInv /\ NormaliseLoop /\ Normalise => NormaliseLoop'
<1> SUFFICES ASSUME TInv, NormaliseLoop, Normalise, caller = "clean_quotes"
             PROVE  NormaliseLoop'
  BY DEF NormaliseLoop, Normalise
<1> DEFINE q == fetched[next]
<1>1. /\ normalised \in Seq(Record) /\ rejected \in Seq(Rejection) /\ fetched \in Seq(Quote)
      /\ next \in 1..Len(fetched) /\ next' = next + 1 /\ stage = "normalise"
      /\ fetched' = fetched /\ next \in Nat \ {0} /\ Len(fetched) \in Nat
      /\ quotes = fetched
  BY DEF TInv, TypeOK, Normalise, Pass, fetching, quotes
<1>2. q \in Quote
  BY <1>1
<1>3. Id(q) \in Spellings /\ RecordOf(q) \in Record /\ RecordOf(q).id = Id(q)
  BY <1>2, QuoteTypes DEF RecordOf
<1>4. /\ IdsOf(normalised) = OkIdsTo(fetched, next - 1)
      /\ Len(normalised) + Len(rejected) = next - 1
      /\ Len(normalised) \in Nat /\ Len(rejected) \in Nat
  BY <1>1 DEF NormaliseLoop
<1>5. next' - 1 = next
  BY <1>1
<1>6. OkIdsTo(fetched, next) = OkIdsTo(fetched, next - 1) \cup IF Acceptable(q) THEN {Id(q)} ELSE {}
  BY <1>1, OkIdsGrow
<1>7. CASE Acceptable(q)
  <2>1. normalised' = Append(normalised, RecordOf(q)) /\ rejected' = rejected
    BY <1>1, <1>7 DEF Normalise
  <2>2. IdsOf(normalised') = IdsOf(normalised) \cup {Id(q)}
    BY <1>1, <1>3, <2>1, IdsOfAppended
  <2>3. Len(normalised') = Len(normalised) + 1
    BY <1>1, <1>3, <2>1, Appended
  <2> QED BY <1>1, <1>4, <1>5, <1>6, <1>7, <2>1, <2>2, <2>3 DEF NormaliseLoop
<1>8. CASE ~ Acceptable(q)
  <2>1. /\ normalised' = normalised
        /\ \E reason \in Reason : Reject(RecordOf(q), reason)
    BY <1>1, <1>8 DEF Normalise, Reason
  <2>2. Len(rejected') = Len(rejected) + 1
    BY <1>1, <1>3, <2>1, RejectAppends
  <2>3. OkIdsTo(fetched, next) = OkIdsTo(fetched, next - 1)
    BY <1>6, <1>8
  <2> QED BY <1>1, <1>4, <1>5, <2>1, <2>2, <2>3 DEF NormaliseLoop
<1> QED BY <1>7, <1>8

\* The loop starts with nothing done, on fetched quotes or on those passed.
LEMMA NormaliseLoopAlways == Spec => []NormaliseLoop
<1>1. Init => NormaliseLoop
  <2> SUFFICES ASSUME Init PROVE NormaliseLoop
    OBVIOUS
  <2>1. next = 1 /\ normalised = <<>> /\ rejected = <<>>
    BY DEF Init
  <2>2. fetched \in Seq(Quote)
    BY InitTyped DEF TInv, TypeOK
  <2>3. next - 1 = 0 /\ Len(normalised) = 0 /\ Len(rejected) = 0 /\ Len(fetched) \in Nat
    BY <2>1, <2>2
  <2>4. IdsOf(normalised) = {} /\ OkIdsTo(fetched, 0) = {}
    BY <2>1, NoneYet
  <2>5. next <= Len(fetched) + 1 /\ Len(normalised) + Len(rejected) = next - 1
    BY <2>1, <2>3
  <2>6. IdsOf(normalised) = OkIdsTo(fetched, next - 1)
    BY <2>3, <2>4
  <2> QED BY <2>5, <2>6 DEF NormaliseLoop
<1>2. TInv /\ Calls /\ NormaliseLoop /\ [Next]_vars => NormaliseLoop'
  <2> SUFFICES ASSUME TInv, Calls, NormaliseLoop, [Next]_vars PROVE NormaliseLoop'
    OBVIOUS
  <2>1. CASE Normalise
    BY <2>1, NormaliseKeepsLoop
  <2>2. CASE EndFetch
    <3>1. next' = 1 /\ normalised' = <<>> /\ rejected' = <<>> /\ fetched' = fetched
      BY <2>2 DEF EndFetch, Past, Goto, fetching, normalising, cleaning, Calls
    <3>2. fetched' \in Seq(Quote)
      BY <3>1 DEF TInv, TypeOK
    <3>3. IdsOf(normalised') = {} /\ OkIdsTo(fetched', 0) = {}
      BY <3>1, NoneYet
    <3>4. /\ next' - 1 = 0 /\ Len(normalised') = 0 /\ Len(rejected') = 0
          /\ Len(fetched') \in Nat
      BY <3>1, <3>2
    <3>5. next' <= Len(fetched') + 1 /\ Len(normalised') + Len(rejected') = next' - 1
      BY <3>1, <3>4
    <3>6. IdsOf(normalised') = OkIdsTo(fetched', next' - 1)
      BY <3>3, <3>4
    <3> QED BY <3>5, <3>6 DEF NormaliseLoop
  <2>3. CASE UNCHANGED vars
    BY <2>3 DEF vars, NormaliseLoop
  <2>4. CASE caller' = "lake" \/ stage' # "normalise"
    BY <2>4 DEF NormaliseLoop
  <2> QED BY <2>1, <2>2, <2>3, <2>4
          DEF Next, TakeArg, EndArgs, Fetch, FetchUsable, FetchUnusable, FetchFails,
              EndNormalise, Dedupe, EndDedupe, Pick, EndPick, Pass, Past, Goto
<1> QED BY <1>1, <1>2, Typed, CallsAlways, PTL DEF Spec

-----------------------------------------------------------------------------
(* dedupe_by_key for clean_quotes                                          *)

\* One more record, one more id at most.
LEMMA IdsPassedGrow ==
    ASSUME NEW rs, NEW n \in Nat \ {0}
    PROVE  { rs[i].id : i \in 1..n } = { rs[i].id : i \in 1..(n - 1) } \cup {rs[n].id}
<1>1. 1..n = (1..(n - 1)) \cup {n}
  OBVIOUS
<1> QED BY <1>1

\* Each pass turns a record into the one of its id, or a rejection.
LEMMA DedupeKeepsLoop == TInv /\ DedupeLoop /\ Dedupe => DedupeLoop'
<1> SUFFICES ASSUME TInv, DedupeLoop, Dedupe, caller = "clean_quotes"
             PROVE  DedupeLoop'
  BY DEF DedupeLoop, Dedupe
<1> DEFINE r == normalised[next]
<1>1. /\ normalised \in Seq(Record) /\ rejected \in Seq(Rejection) /\ records \in Seq(Record)
      /\ next \in 1..Len(normalised) /\ next' = next + 1 /\ stage = "dedupe"
      /\ fetched' = fetched /\ normalised' = normalised /\ next \in Nat \ {0}
      /\ Len(fetched) \in Nat /\ Len(normalised) \in Nat
      /\ Len(records) \in Nat /\ Len(rejected) \in Nat
  BY DEF TInv, TypeOK, Dedupe, Pass, fetching
<1>2. r \in Record
  BY <1>1
<1>3. r.id \in Spellings
  BY <1>2 DEF Record
<1>4. /\ IdsOf(normalised) = OkIds(fetched)
      /\ IdsOf(records) = { normalised[i].id : i \in 1..(next - 1) }
      /\ IsFiniteSet(IdsOf(records)) /\ Cardinality(IdsOf(records)) = Len(records)
      /\ Len(records) + Len(rejected) + Len(normalised) = Len(fetched) + next - 1
  BY <1>1 DEF DedupeLoop
<1>5. next' - 1 = next
  BY <1>1
<1>6. { normalised[i].id : i \in 1..next } = IdsOf(records) \cup {r.id}
  BY <1>1, <1>4, IdsPassedGrow
<1>7. CASE r.id \notin IdsOf(records)
  <2>1. records' = Append(records, r) /\ rejected' = rejected
    BY <1>7 DEF Dedupe
  <2>2. IdsOf(records') = IdsOf(records) \cup {r.id}
    BY <1>1, <1>2, <2>1, IdsOfAppended
  <2>3. Len(records') = Len(records) + 1
    BY <1>1, <1>2, <2>1, Appended
  <2>4. IsFiniteSet(IdsOf(records')) /\ Cardinality(IdsOf(records')) = Len(records')
    BY <1>4, <1>7, <2>2, <2>3, FS_AddElement
  <2> HIDE DEF r
  <2>5. IdsOf(records') = { normalised'[i].id : i \in 1..(next' - 1) }
    BY <1>1, <1>5, <1>6, <2>2
  <2>6. /\ next' <= Len(normalised') + 1
        /\ Len(records') + Len(rejected') + Len(normalised') = Len(fetched') + next' - 1
    BY <1>1, <1>4, <2>1, <2>3
  <2> QED BY <1>1, <1>4, <2>4, <2>5, <2>6 DEF DedupeLoop
<1>8. CASE r.id \in IdsOf(records)
  <2>1. records' = records /\ Reject(r, "duplicate_id")
    BY <1>8 DEF Dedupe
  <2>2. "duplicate_id" \in Reason
    BY DEF Reason
  <2>3. Len(rejected') = Len(rejected) + 1
    BY <1>1, <1>2, <2>1, <2>2, RejectAppends
  <2>4. { normalised[i].id : i \in 1..next } = IdsOf(records)
    BY <1>6, <1>8
  <2> HIDE DEF r
  <2>5. IdsOf(records') = { normalised'[i].id : i \in 1..(next' - 1) }
    BY <1>1, <1>5, <2>1, <2>4
  <2>6. /\ next' <= Len(normalised') + 1
        /\ Len(records') + Len(rejected') + Len(normalised') = Len(fetched') + next' - 1
    <3>1. Len(records') = Len(records)
      BY <2>1
    <3> QED BY <1>1, <1>4, <2>3, <3>1
  <2>7. IsFiniteSet(IdsOf(records')) /\ Cardinality(IdsOf(records')) = Len(records')
    BY <1>4, <2>1
  <2> QED BY <1>1, <1>4, <2>5, <2>6, <2>7 DEF DedupeLoop
<1> QED BY <1>7, <1>8

\* The loop starts when every quote has been read.
LEMMA DedupeLoopAlways == Spec => []DedupeLoop
<1>1. Init => DedupeLoop
  BY DEF Init, DedupeLoop
<1>2. TInv /\ Calls /\ NormaliseLoop /\ DedupeLoop /\ [Next]_vars => DedupeLoop'
  <2> SUFFICES ASSUME TInv, Calls, NormaliseLoop, DedupeLoop, [Next]_vars PROVE DedupeLoop'
    OBVIOUS
  <2>1. CASE Dedupe
    BY <2>1, DedupeKeepsLoop
  <2>2. CASE EndNormalise /\ caller = "clean_quotes"
    <3>1. /\ next' = 1 /\ records = <<>> /\ next > Len(fetched) /\ stage = "normalise"
          /\ UNCHANGED <<fetched, normalised, records, rejected>>
      BY <2>2 DEF EndNormalise, Past, Goto, fetching, normalising, cleaning, Calls, quotes
    <3>2. /\ fetched \in Seq(Quote) /\ normalised \in Seq(Record) /\ rejected \in Seq(Rejection)
          /\ Len(fetched) \in Nat /\ next \in Nat /\ Len(normalised) \in Nat /\ Len(rejected) \in Nat
      BY DEF TInv, TypeOK
    <3>3. next - 1 = Len(fetched)
      BY <2>2, <3>1, <3>2 DEF NormaliseLoop
    <3>4. IdsOf(normalised) = OkIds(fetched) /\ Len(normalised) + Len(rejected) = Len(fetched)
      BY <2>2, <3>1, <3>3 DEF NormaliseLoop, OkIds
    <3>5. IdsOf(records) = {} /\ { normalised[i].id : i \in 1..0 } = {}
      <4>1. 1..0 = {}
        OBVIOUS
      <4> QED BY <3>1, <4>1, NoneYet
    <3>6. IsFiniteSet(IdsOf(records)) /\ Cardinality(IdsOf(records)) = Len(records) /\ Len(records) = 0
      BY <3>1, <3>5, FS_EmptySet
    <3>7. next' - 1 = 0
      BY <3>1
    <3> QED BY <3>1, <3>2, <3>4, <3>5, <3>6, <3>7 DEF DedupeLoop
  <2>3. CASE UNCHANGED vars
    BY <2>3 DEF vars, DedupeLoop
  <2>4. CASE caller' = "lake" \/ stage' # "dedupe"
    BY <2>4 DEF DedupeLoop
  <2>5. EndNormalise => caller' = caller
    BY DEF EndNormalise, normalising
  <2>6. TypeOK
    BY DEF TInv
  <2> QED BY <2>1, <2>2, <2>3, <2>4, <2>5, <2>6
          DEF Next, TakeArg, EndArgs, Fetch, FetchUsable, FetchUnusable, FetchFails, EndFetch,
              Normalise, EndDedupe, Pick, EndPick, Pass, Past, Goto, TypeOK
<1> QED BY <1>1, <1>2, Typed, CallsAlways, NormaliseLoopAlways, PTL DEF Spec

-----------------------------------------------------------------------------
(* The second loop of clean_quotes                                         *)

\* One more quote, one more id passed, and a first quote of its id at most.
LEMMA PassedGrow ==
    ASSUME NEW qs, NEW n \in Nat \ {0}
    PROVE  /\ IdsTo(qs, n) = IdsTo(qs, n - 1) \cup {Id(qs[n])}
           /\ FirstsTo(qs, n) = FirstsTo(qs, n - 1) \cup IF First(qs, n) THEN {qs[n]} ELSE {}
<1>1. 1..n = (1..(n - 1)) \cup {n}
  OBVIOUS
<1> QED BY <1>1 DEF IdsTo, FirstsTo

\* The id of the quote at hand is still accepted just when it is the first.
LEMMA AcceptedIsFirst ==
    ASSUME NEW qs, NEW n \in Nat \ {0}
    PROVE  Id(qs[n]) \in OkIds(qs) \ IdsTo(qs, n - 1) <=> First(qs, n)
BY DEF First, IdsTo

\* Each pass keeps the quote if it is the first of an accepted id.
LEMMA PickKeepsLoop == TInv /\ FetchLoop /\ PickLoop /\ Pick => PickLoop'
<1> SUFFICES ASSUME TInv, FetchLoop, PickLoop, Pick PROVE PickLoop'
  OBVIOUS
<1> DEFINE q == fetched[next]
<1>1. /\ kept \in Seq(Quote) /\ fetched \in Seq(Quote) /\ rejected \in Seq(Rejection)
      /\ next \in 1..Len(fetched) /\ next' = next + 1 /\ stage = "pick"
      /\ fetched' = fetched /\ rejected' = rejected /\ next \in Nat \ {0}
      /\ Len(fetched) \in Nat /\ Len(kept) \in Nat /\ Len(rejected) \in Nat
  BY DEF TInv, TypeOK, Pick, Pass, fetching
<1>2. q \in Quote
  BY <1>1
<1>3. /\ accepted = OkIds(fetched) \ IdsTo(fetched, next - 1)
      /\ IsFiniteSet(accepted)
      /\ Len(kept) + Cardinality(accepted) + Len(rejected) = Len(fetched)
      /\ Range(kept) = FirstsTo(fetched, next - 1)
      /\ InOrder(kept)
  BY <1>1 DEF PickLoop
<1>4. next' - 1 = next
  BY <1>1
<1>5. /\ IdsTo(fetched, next) = IdsTo(fetched, next - 1) \cup {Id(q)}
      /\ FirstsTo(fetched, next) = FirstsTo(fetched, next - 1)
                                     \cup IF First(fetched, next) THEN {q} ELSE {}
  BY <1>1, PassedGrow
<1>6. accepted' = accepted \ {Id(q)}
  BY DEF Pick
<1>7. Id(q) \in accepted <=> First(fetched, next)
  BY <1>1, <1>3, AcceptedIsFirst
<1>8. accepted' = OkIds(fetched') \ IdsTo(fetched', next' - 1)
  <2>1. accepted' = OkIds(fetched) \ IdsTo(fetched, next)
    BY <1>3, <1>5, <1>6
  <2> QED BY <1>1, <1>4, <2>1
<1>9. /\ IsFiniteSet(accepted')
      /\ Cardinality(accepted') = IF Id(q) \in accepted THEN Cardinality(accepted) - 1
                                  ELSE Cardinality(accepted)
      /\ Cardinality(accepted) \in Nat
  BY <1>3, <1>6, FS_RemoveElement, FS_CardinalityType
<1>10. next' <= Len(fetched') + 1
  BY <1>1
<1>11. CASE Id(q) \in accepted
  <2>1. kept' = Append(kept, q)
    BY <1>11 DEF Pick
  <2>2. /\ Len(kept') = Len(kept) + 1 /\ DOMAIN kept' = 1..(Len(kept) + 1)
        /\ kept'[Len(kept) + 1] = q /\ DOMAIN kept = 1..Len(kept)
        /\ \A i \in 1..Len(kept) : kept'[i] = kept[i]
        /\ Range(kept') = Range(kept) \cup {q}
    BY <1>1, <1>2, <2>1, Appended, RangeOfAppended
  <2>3. Range(kept') = FirstsTo(fetched', next' - 1)
    <3>1. Range(kept') = FirstsTo(fetched, next)
      BY <1>3, <1>5, <1>7, <1>11, <2>2
    <3> QED BY <1>1, <1>4, <3>1
  <2>4. Len(kept') + Cardinality(accepted') + Len(rejected') = Len(fetched')
    BY <1>1, <1>3, <1>9, <1>11, <2>2
  <2>5. ASSUME NEW i \in 1..Len(kept) PROVE kept[i].response < q.response
    <3>1. kept[i] \in FirstsTo(fetched, next - 1)
      BY <1>3, <2>2 DEF Range
    <3>2. PICK k \in 1..(next - 1) : kept[i] = fetched[k]
      BY <3>1 DEF FirstsTo
    <3>3. k \in DOMAIN fetched /\ next \in DOMAIN fetched /\ k < next
      BY <1>1
    <3> QED BY <3>2, <3>3 DEF FetchLoop, InOrder
  <2>6. InOrder(kept')
    <3> SUFFICES ASSUME NEW i \in DOMAIN kept', NEW j \in DOMAIN kept', i < j
                 PROVE  kept'[i].response < kept'[j].response
      BY DEF InOrder
    <3>1. i \in 1..Len(kept) /\ kept'[i] = kept[i]
      BY <1>1, <2>2
    <3>2. CASE j = Len(kept) + 1
      BY <2>2, <2>5, <3>1, <3>2
    <3>3. CASE j # Len(kept) + 1
      <4>1. j \in 1..Len(kept) /\ kept'[j] = kept[j]
        BY <1>1, <2>2, <3>3
      <4> QED BY <1>3, <2>2, <3>1, <4>1 DEF InOrder
    <3> QED BY <3>2, <3>3
  <2> QED BY <1>8, <1>9, <1>10, <2>3, <2>4, <2>6 DEF PickLoop
<1>12. CASE Id(q) \notin accepted
  <2>1. kept' = kept
    BY <1>12 DEF Pick
  <2>2. FirstsTo(fetched, next) = FirstsTo(fetched, next - 1)
    BY <1>5, <1>7, <1>12
  <2>3. Range(kept') = FirstsTo(fetched', next' - 1)
    BY <1>1, <1>3, <1>4, <2>1, <2>2
  <2>4. Len(kept') + Cardinality(accepted') + Len(rejected') = Len(fetched')
    BY <1>1, <1>3, <1>9, <1>12, <2>1
  <2>5. InOrder(kept')
    BY <1>3, <2>1
  <2> QED BY <1>8, <1>9, <1>10, <2>3, <2>4, <2>5 DEF PickLoop
<1> QED BY <1>11, <1>12

\* The loop starts with every id that dedupe_by_key let through.
LEMMA PickLoopAlways == Spec => []PickLoop
<1>1. Init => PickLoop
  BY DEF Init, PickLoop
<1>2. TInv /\ Calls /\ FetchLoop /\ DedupeLoop /\ PickLoop /\ [Next]_vars => PickLoop'
  <2> SUFFICES ASSUME TInv, Calls, FetchLoop, DedupeLoop, PickLoop, [Next]_vars
               PROVE  PickLoop'
    OBVIOUS
  <2>1. CASE Pick
    BY <2>1, PickKeepsLoop
  <2>2. CASE EndDedupe /\ caller = "clean_quotes"
    <3>1. /\ next' = 1 /\ accepted' = IdsOf(records) /\ next > Len(normalised)
          /\ stage = "dedupe" /\ kept = <<>>
          /\ UNCHANGED <<fetched, kept, rejected>>
      BY <2>2 DEF EndDedupe, Past, Goto, fetching, Calls
    <3>2. /\ fetched \in Seq(Quote) /\ normalised \in Seq(Record)
          /\ DOMAIN normalised = 1..Len(normalised)
          /\ Len(fetched) \in Nat /\ next \in Nat /\ Len(normalised) \in Nat
          /\ Len(records) \in Nat /\ Len(rejected) \in Nat
      BY DEF TInv, TypeOK
    <3>3. next - 1 = Len(normalised)
      BY <2>2, <3>1, <3>2 DEF DedupeLoop
    <3>4. /\ IdsOf(records) = { normalised[i].id : i \in 1..(next - 1) }
          /\ IdsOf(normalised) = OkIds(fetched)
          /\ IsFiniteSet(IdsOf(records)) /\ Cardinality(IdsOf(records)) = Len(records)
          /\ Len(records) + Len(rejected) + Len(normalised) = Len(fetched) + next - 1
      BY <2>2, <3>1 DEF DedupeLoop
    <3>5. IdsOf(records) = OkIds(fetched)
      BY <3>2, <3>3, <3>4 DEF IdsOf
    <3>6. Len(records) + Len(rejected) = Len(fetched)
      BY <3>2, <3>3, <3>4
    <3>7. next' - 1 = 0 /\ Len(kept') = 0
      BY <3>1
    <3>8. accepted' = OkIds(fetched') \ IdsTo(fetched', next' - 1)
      BY <3>1, <3>5, <3>7, NoneYet
    <3>9. Range(kept') = FirstsTo(fetched', next' - 1)
      BY <3>1, <3>7, NoneYet
    <3>10. InOrder(kept')
      BY <3>1 DEF InOrder
    <3>11. Len(kept') + Cardinality(accepted') + Len(rejected') = Len(fetched')
      BY <3>1, <3>2, <3>4, <3>6, <3>7
    <3> QED BY <3>1, <3>2, <3>4, <3>8, <3>9, <3>10, <3>11 DEF PickLoop
  <2>3. CASE UNCHANGED vars
    BY <2>3 DEF vars, PickLoop
  <2>4. CASE stage' # "pick"
    BY <2>4 DEF PickLoop
  <2> QED BY <2>1, <2>2, <2>3, <2>4
          DEF Next, TakeArg, EndArgs, Fetch, FetchUsable, FetchUnusable, FetchFails, EndFetch,
              Normalise, EndNormalise, Dedupe, EndDedupe, EndPick, Pass, Past, Goto
<1> QED BY <1>1, <1>2, Typed, CallsAlways, FetchLoopAlways, DedupeLoopAlways, PTL DEF Spec

\* When the loop ends no accepted id is left to meet.
LEMMA CleanQuotesAlways == Spec => []CleanQuotes
<1>1. Init => CleanQuotes
  BY DEF Init, CleanQuotes
<1>2. TInv /\ Calls /\ PickLoop /\ CleanQuotes /\ [Next]_vars => CleanQuotes'
  <2> SUFFICES ASSUME TInv, Calls, PickLoop, CleanQuotes, [Next]_vars PROVE CleanQuotes'
    OBVIOUS
  <2>1. CASE EndPick
    <3>1. /\ next > Len(fetched) /\ stage = "pick" /\ UNCHANGED <<fetched, kept, rejected>>
      BY <2>1 DEF EndPick, Past, fetching, cleaning
    <3>2. Len(fetched) \in Nat /\ next \in Nat /\ Len(kept) \in Nat /\ Len(rejected) \in Nat
      BY DEF TInv, TypeOK
    <3>3. next - 1 = Len(fetched)
      BY <3>1, <3>2 DEF PickLoop
    <3>4. accepted = OkIds(fetched) \ IdsTo(fetched, Len(fetched))
      BY <3>1, <3>3 DEF PickLoop
    <3>5. OkIds(fetched) \subseteq IdsTo(fetched, Len(fetched))
      BY DEF OkIds, OkIdsTo, IdsTo
    <3>6. Cardinality(accepted) = 0
      BY <3>4, <3>5, FS_EmptySet
    <3>7. Len(kept) + Len(rejected) = Len(fetched)
      BY <3>1, <3>2, <3>6 DEF PickLoop
    <3>8. Range(kept) = FirstsTo(fetched, Len(fetched)) /\ InOrder(kept)
      BY <3>1, <3>3 DEF PickLoop
    <3> QED BY <3>1, <3>7, <3>8 DEF CleanQuotes
  <2>2. CASE Normalise \/ Dedupe
    <3>1. caller' = "lake" => UNCHANGED <<caller, kept, rejected, fetched>>
      BY <2>2 DEF Normalise, Dedupe, Reject, fetching
    <3> QED BY <3>1 DEF CleanQuotes
  <2>3. CASE Pick
    <3>1. caller' # "lake"
      BY <2>3 DEF Pick, Pass, Calls, normalising
    <3> QED BY <3>1 DEF CleanQuotes
  <2>4. CASE TakeArg \/ EndArgs \/ Fetch \/ EndFetch
    <3>1. caller' # "lake"
      BY <2>4 DEF TakeArg, EndArgs, Fetch, EndFetch, Pass, Past, Calls, normalising
    <3> QED BY <3>1 DEF CleanQuotes
  <2>5. CASE UNCHANGED <<caller, kept, rejected, fetched>>
    BY <2>5 DEF CleanQuotes
  <2> QED BY <2>1, <2>2, <2>3, <2>4, <2>5
          DEF Next, vars, FetchUsable, FetchUnusable, FetchFails, EndNormalise, EndDedupe,
              fetching, normalising, cleaning
<1> QED BY <1>1, <1>2, Typed, CallsAlways, PickLoopAlways, PTL DEF Spec

-----------------------------------------------------------------------------
(* What clean_quotes keeps of fetched quotes                               *)

\* Fetched quotes have prices, so of them the first of an id that some quote
\* makes acceptable is the first acceptable quote of that id.
THEOREM FirstAcceptableKeptAlways == Spec => []FirstAcceptableKept
<1>1. TInv /\ FetchLoop /\ CleanQuotes => FirstAcceptableKept
  <2> SUFFICES ASSUME TInv, FetchLoop, CleanQuotes, entry # "direct", caller = "lake"
               PROVE  FirstAcceptableKept
    BY DEF FirstAcceptableKept, Cleaned
  <2> DEFINE ok(i) == Acceptable(fetched[i])
             first(i) == ok(i) /\ \A j \in 1..(i - 1) :
                                    ~ (ok(j) /\ Id(fetched[j]) = Id(fetched[i]))
  <2>1. fetched \in Seq(Quote) /\ DOMAIN fetched = 1..Len(fetched) /\ Len(fetched) \in Nat
    BY DEF TInv, TypeOK
  <2>2. \A i \in 1..Len(fetched) : ok(i) <=> Id(fetched[i]) # Blank
    BY <2>1 DEF FetchLoop, Acceptable
  <2>3. \A i \in 1..Len(fetched) : Id(fetched[i]) \in OkIds(fetched) <=> ok(i)
    <3> TAKE i \in 1..Len(fetched)
    <3>1. ASSUME Id(fetched[i]) \in OkIds(fetched) PROVE ok(i)
      <4>1. PICK j \in 1..Len(fetched) :
              Acceptable(fetched[j]) /\ Id(fetched[j]) = Id(fetched[i])
        BY <3>1 DEF OkIds, OkIdsTo
      <4> QED BY <2>2, <4>1 DEF Acceptable
    <3>2. ASSUME ok(i) PROVE Id(fetched[i]) \in OkIds(fetched)
      BY <3>2 DEF OkIds, OkIdsTo
    <3> QED BY <3>1, <3>2
  <2>4. ASSUME NEW i \in 1..Len(fetched) PROVE First(fetched, i) <=> first(i)
    <3>1. \A j \in 1..(i - 1) : j \in 1..Len(fetched)
      BY <2>1
    <3>2. ok(i) => \A j \in 1..(i - 1) :
                     Id(fetched[j]) = Id(fetched[i]) <=> ok(j) /\ Id(fetched[j]) = Id(fetched[i])
      BY <2>2, <3>1
    <3> HIDE DEF ok
    <3> QED BY <2>3, <3>2 DEF First
  <2> HIDE DEF first
  <2>5. FirstsTo(fetched, Len(fetched)) = { fetched[i] : i \in { j \in DOMAIN fetched : first(j) } }
    BY <2>1, <2>4 DEF FirstsTo
  <2>6. Range(kept) = { fetched[i] : i \in { j \in DOMAIN fetched : first(j) } } /\ InOrder(kept)
    BY <2>5 DEF CleanQuotes
  <2> QED BY <2>6 DEF FirstAcceptableKept, InOrder, first
<1> QED BY <1>1, Typed, FetchLoopAlways, CleanQuotesAlways, PTL

-----------------------------------------------------------------------------
(* What clean_quotes reports                                               *)

\* The first n quotes that are refused, or not; the first n records of an id that
\* an earlier one has; the quotes that are not the first acceptable of their id.
RefusedTo(qs, n) == { qs[i].response : i \in { j \in 1..n : ~ Acceptable(qs[j]) } }
OkRecordsTo(qs, n) == { RecordOf(qs[i]) : i \in { j \in 1..n : Acceptable(qs[j]) } }
Repeats(rs, k) == \E j \in 1..(k - 1) : rs[j].id = rs[k].id
RepeatsTo(rs, n) == { rs[k].response : k \in { j \in 1..n : Repeats(rs, j) } }
FirstOk(qs, i) == /\ Acceptable(qs[i])
                  /\ \A j \in 1..(i - 1) : ~ (Acceptable(qs[j]) /\ Id(qs[j]) = Id(qs[i]))
Dropped(qs) == { qs[i].response : i \in { j \in 1..Len(qs) : ~ FirstOk(qs, j) } }

\* The report of each loop is about the quotes it has passed and not let through.
Reports ==
    /\ caller = "clean_quotes" /\ stage = "normalise" =>
         /\ InOrder(normalised) /\ Range(normalised) = OkRecordsTo(fetched, next - 1)
         /\ ResponsesOf(rejected) = RefusedTo(fetched, next - 1)
    /\ caller = "clean_quotes" /\ stage = "dedupe" =>
         /\ InOrder(normalised) /\ Range(normalised) = OkRecordsTo(fetched, Len(fetched))
         /\ ResponsesOf(rejected) =
              RefusedTo(fetched, Len(fetched)) \cup RepeatsTo(normalised, next - 1)
    /\ stage = "pick" \/ caller = "lake" => ResponsesOf(rejected) = Dropped(fetched)

\* A later quote keeps a sequence in order.
LEMMA InOrderAppended ==
    ASSUME NEW S, NEW s \in Seq(S), NEW x \in S, InOrder(s),
           \A y \in Range(s) : y.response < x.response
    PROVE  InOrder(Append(s, x))
<1> SUFFICES ASSUME NEW i \in 1..(Len(s) + 1), NEW j \in 1..(Len(s) + 1), i < j
             PROVE  Append(s, x)[i].response < Append(s, x)[j].response
  BY Appended DEF InOrder
<1>1. i \in 1..Len(s) /\ Append(s, x)[i] = s[i] /\ DOMAIN s = 1..Len(s) /\ Len(s) \in Nat
  <2>1. Len(s) \in Nat
    BY Appended
  <2>2. i \in 1..Len(s)
    BY <2>1
  <2> QED BY <2>1, <2>2, Appended
<1>2. CASE j = Len(s) + 1
  <2>1. s[i] \in Range(s)
    BY <1>1 DEF Range
  <2> QED BY <1>1, <1>2, <2>1, Appended
<1>3. CASE j # Len(s) + 1
  <2>1. j \in 1..Len(s) /\ Append(s, x)[j] = s[j]
    BY <1>1, <1>3, Appended
  <2> QED BY <1>1, <2>1 DEF InOrder
<1> QED BY <1>2, <1>3

\* One more quote is refused or becomes a record.
LEMMA RefusedGrow ==
    ASSUME NEW qs, NEW n \in Nat \ {0}
    PROVE  /\ RefusedTo(qs, n) = RefusedTo(qs, n - 1)
                \cup IF Acceptable(qs[n]) THEN {} ELSE {qs[n].response}
           /\ OkRecordsTo(qs, n) = OkRecordsTo(qs, n - 1)
                \cup IF Acceptable(qs[n]) THEN {RecordOf(qs[n])} ELSE {}
           /\ RefusedTo(qs, 0) = {} /\ OkRecordsTo(qs, 0) = {}
<1>1. 1..n = (1..(n - 1)) \cup {n} /\ 1..0 = {}
  OBVIOUS
<1> QED BY <1>1 DEF RefusedTo, OkRecordsTo

\* One more record repeats an id or does not.
LEMMA RepeatsGrow ==
    ASSUME NEW rs, NEW n \in Nat \ {0}
    PROVE  /\ RepeatsTo(rs, n) = RepeatsTo(rs, n - 1)
                \cup IF Repeats(rs, n) THEN {rs[n].response} ELSE {}
           /\ RepeatsTo(rs, 0) = {}
<1>1. 1..n = (1..(n - 1)) \cup {n} /\ 1..0 = {}
  OBVIOUS
<1> QED BY <1>1 DEF RepeatsTo

\* Records come in the order of their quotes, so the records that repeat an id are
\* those of the acceptable quotes that have an acceptable one of their id before.
LEMMA RepeatIsNotFirst ==
    ASSUME NEW qs \in Seq(Quote), NEW rs \in Seq(Record), InOrder(qs), InOrder(rs),
           Range(rs) = OkRecordsTo(qs, Len(qs)),
           NEW i \in 1..Len(qs), NEW k \in 1..Len(rs), Acceptable(qs[i]), rs[k] = RecordOf(qs[i])
    PROVE  Repeats(rs, k) <=> ~ FirstOk(qs, i)
<1>1. /\ Len(qs) \in Nat /\ Len(rs) \in Nat /\ DOMAIN qs = 1..Len(qs) /\ DOMAIN rs = 1..Len(rs)
      /\ \A j \in 1..Len(qs) : qs[j].response \in Nat
  <2>1. \A j \in 1..Len(qs) : qs[j] \in Quote
    OBVIOUS
  <2>2. \A j \in 1..Len(qs) : qs[j].response \in Nat
    BY <2>1, MaxQuotesAssumption DEF Quote, Response
  <2> QED BY <2>2
<1>2. ASSUME NEW l \in 1..Len(qs), NEW j \in 1..Len(rs), rs[j] = RecordOf(qs[l])
      PROVE  /\ j < k => l < i
             /\ l < i => j < k
             /\ rs[j].id = rs[k].id <=> Id(qs[l]) = Id(qs[i])
  <2>1. /\ rs[j].response = qs[l].response /\ rs[k].response = qs[i].response
        /\ rs[j].id = Id(qs[l]) /\ rs[k].id = Id(qs[i])
    BY <1>2 DEF RecordOf
  <2>2. j < k => qs[l].response < qs[i].response
    BY <1>1, <2>1 DEF InOrder
  <2>3. l < i => rs[j].response < rs[k].response
    BY <1>1, <2>1 DEF InOrder
  <2>4. i < l => qs[i].response < qs[l].response
    BY <1>1 DEF InOrder
  <2>5. k < j => rs[k].response < rs[j].response
    BY <1>1 DEF InOrder
  <2>6. j < k => l < i
    BY <1>1, <2>2, <2>4
  <2>7. l < i => j < k
    BY <1>1, <2>1, <2>3, <2>5
  <2> QED BY <2>1, <2>6, <2>7
<1>3. ASSUME Repeats(rs, k) PROVE ~ FirstOk(qs, i)
  <2>1. PICK j \in 1..(k - 1) : rs[j].id = rs[k].id
    BY <1>3 DEF Repeats
  <2>2. j \in 1..Len(rs) /\ j < k
    BY <1>1, <2>1
  <2>3. rs[j] \in Range(rs)
    BY <1>1, <2>2 DEF Range
  <2>4. PICK l \in 1..Len(qs) : Acceptable(qs[l]) /\ rs[j] = RecordOf(qs[l])
    BY <2>3 DEF OkRecordsTo
  <2>5. l < i /\ Id(qs[l]) = Id(qs[i])
    BY <1>2, <2>1, <2>2, <2>4
  <2>6. l \in 1..(i - 1)
    BY <1>1, <2>5
  <2> QED BY <2>4, <2>5, <2>6 DEF FirstOk
<1>4. ASSUME ~ FirstOk(qs, i) PROVE Repeats(rs, k)
  <2>1. PICK l \in 1..(i - 1) : Acceptable(qs[l]) /\ Id(qs[l]) = Id(qs[i])
    BY <1>4 DEF FirstOk
  <2>2. l \in 1..Len(qs) /\ l < i
    BY <1>1, <2>1
  <2>3. RecordOf(qs[l]) \in Range(rs)
    BY <2>1, <2>2 DEF OkRecordsTo
  <2>4. PICK j \in 1..Len(rs) : rs[j] = RecordOf(qs[l])
    BY <1>1, <2>3 DEF Range
  <2>5. j < k /\ rs[j].id = rs[k].id
    BY <1>2, <2>1, <2>2, <2>4
  <2>6. j \in 1..(k - 1)
    BY <1>1, <2>5
  <2> QED BY <2>5, <2>6 DEF Repeats
<1> QED BY <1>3, <1>4

\* What quote_records_with_report reports is what it drops.
LEMMA ReportIsWhatIsDropped ==
    ASSUME NEW qs \in Seq(Quote), NEW rs \in Seq(Record), InOrder(qs), InOrder(rs),
           Range(rs) = OkRecordsTo(qs, Len(qs))
    PROVE  RefusedTo(qs, Len(qs)) \cup RepeatsTo(rs, Len(rs)) = Dropped(qs)
<1>0. DOMAIN rs = 1..Len(rs)
  OBVIOUS
<1>1. ASSUME NEW x \in RefusedTo(qs, Len(qs)) PROVE x \in Dropped(qs)
  BY <1>1 DEF RefusedTo, Dropped, FirstOk
<1>2. ASSUME NEW x \in RepeatsTo(rs, Len(rs)) PROVE x \in Dropped(qs)
  <2>1. PICK k \in 1..Len(rs) : x = rs[k].response /\ Repeats(rs, k)
    BY <1>2 DEF RepeatsTo
  <2>2. rs[k] \in Range(rs)
    BY <1>0 DEF Range
  <2>3. PICK i \in 1..Len(qs) : Acceptable(qs[i]) /\ rs[k] = RecordOf(qs[i])
    BY <2>2 DEF OkRecordsTo
  <2>4. ~ FirstOk(qs, i)
    BY <2>1, <2>3, RepeatIsNotFirst
  <2>5. x = qs[i].response
    BY <2>1, <2>3 DEF RecordOf
  <2> QED BY <2>4, <2>5 DEF Dropped
<1>3. ASSUME NEW x \in Dropped(qs)
      PROVE  x \in RefusedTo(qs, Len(qs)) \cup RepeatsTo(rs, Len(rs))
  <2>1. PICK i \in 1..Len(qs) : x = qs[i].response /\ ~ FirstOk(qs, i)
    BY <1>3 DEF Dropped
  <2>2. CASE ~ Acceptable(qs[i])
    BY <2>1, <2>2 DEF RefusedTo
  <2>3. CASE Acceptable(qs[i])
    <3>1. RecordOf(qs[i]) \in Range(rs)
      BY <2>3 DEF OkRecordsTo
    <3>2. PICK k \in 1..Len(rs) : rs[k] = RecordOf(qs[i])
      BY <1>0, <3>1 DEF Range
    <3>3. Repeats(rs, k) /\ rs[k].response = x
      BY <2>1, <2>3, <3>2, RepeatIsNotFirst DEF RecordOf
    <3> QED BY <3>3 DEF RepeatsTo
  <2> QED BY <2>2, <2>3
<1> QED BY <1>1, <1>2, <1>3

\* Each pass of quote_records_with_report refuses its quote or makes a record of
\* it, in the order of the quotes.
LEMMA NormaliseReports ==
    TInv /\ FetchLoop /\ Reports /\ caller = "clean_quotes" /\ Normalise => Reports'
<1> SUFFICES ASSUME TInv, FetchLoop, Reports, caller = "clean_quotes", Normalise PROVE Reports'
  OBVIOUS
<1> DEFINE q == fetched[next]
<1>1. /\ fetched \in Seq(Quote) /\ normalised \in Seq(Record) /\ rejected \in Seq(Rejection)
      /\ next \in 1..Len(fetched) /\ next' = next + 1 /\ stage = "normalise" /\ stage' = stage
      /\ fetched' = fetched /\ caller' = caller /\ next \in Nat \ {0} /\ quotes = fetched
      /\ Len(fetched) \in Nat /\ DOMAIN fetched = 1..Len(fetched)
  BY DEF TInv, TypeOK, Normalise, Pass, fetching, quotes
<1>2. q \in Quote
  BY <1>1
<1>3. RecordOf(q) \in Record /\ RecordOf(q).response = q.response
  BY <1>2, QuoteTypes DEF RecordOf
<1>4. /\ InOrder(normalised) /\ Range(normalised) = OkRecordsTo(fetched, next - 1)
      /\ ResponsesOf(rejected) = RefusedTo(fetched, next - 1)
  BY <1>1 DEF Reports
<1>5. next' - 1 = next
  BY <1>1
<1>6. /\ RefusedTo(fetched, next) = RefusedTo(fetched, next - 1)
            \cup IF Acceptable(q) THEN {} ELSE {q.response}
      /\ OkRecordsTo(fetched, next) = OkRecordsTo(fetched, next - 1)
            \cup IF Acceptable(q) THEN {RecordOf(q)} ELSE {}
  BY <1>1, RefusedGrow
<1>7. SUFFICES /\ InOrder(normalised') /\ Range(normalised') = OkRecordsTo(fetched, next)
               /\ ResponsesOf(rejected') = RefusedTo(fetched, next)
  BY <1>1, <1>5 DEF Reports
<1>8. CASE Acceptable(q)
  <2>1. normalised' = Append(normalised, RecordOf(q)) /\ rejected' = rejected
    BY <1>1, <1>8 DEF Normalise
  <2>2. ASSUME NEW y \in Range(normalised) PROVE y.response < RecordOf(q).response
    <3>1. PICK i \in 1..(next - 1) : y = RecordOf(fetched[i])
      BY <1>4, <2>2 DEF OkRecordsTo
    <3>2. i \in DOMAIN fetched /\ next \in DOMAIN fetched /\ i < next
      BY <1>1
    <3>3. fetched[i].response < q.response
      BY <3>2 DEF FetchLoop, InOrder
    <3> QED BY <1>3, <3>1, <3>3 DEF RecordOf
  <2>3. InOrder(normalised')
    BY <1>1, <1>3, <1>4, <2>1, <2>2, InOrderAppended
  <2>4. Range(normalised') = Range(normalised) \cup {RecordOf(q)}
    BY <1>1, <1>3, <2>1, RangeOfAppended
  <2> HIDE DEF q
  <2> QED BY <1>4, <1>6, <1>8, <2>1, <2>3, <2>4
<1>9. CASE ~ Acceptable(q)
  <2>1. normalised' = normalised /\ \E reason \in Reason : Reject(RecordOf(q), reason)
    BY <1>1, <1>9 DEF Normalise, Reason
  <2>2. ResponsesOf(rejected') = ResponsesOf(rejected) \cup {q.response}
    BY <1>1, <1>3, <2>1, RejectAppends
  <2> HIDE DEF q
  <2> QED BY <1>4, <1>6, <1>9, <2>1, <2>2
<1> QED BY <1>8, <1>9

\* Each pass of dedupe_by_key reports its record if it repeats an id.
LEMMA DedupeReports ==
    TInv /\ DedupeLoop /\ Reports /\ caller = "clean_quotes" /\ Dedupe => Reports'
<1> SUFFICES ASSUME TInv, DedupeLoop, Reports, caller = "clean_quotes", Dedupe PROVE Reports'
  OBVIOUS
<1> DEFINE r == normalised[next]
<1>1. /\ normalised \in Seq(Record) /\ rejected \in Seq(Rejection)
      /\ next \in 1..Len(normalised) /\ next' = next + 1 /\ stage = "dedupe" /\ stage' = stage
      /\ fetched' = fetched /\ caller' = caller /\ normalised' = normalised
      /\ next \in Nat \ {0}
  BY DEF TInv, TypeOK, Dedupe, Pass, fetching
<1>2. r \in Record
  BY <1>1
<1>3. /\ InOrder(normalised) /\ Range(normalised) = OkRecordsTo(fetched, Len(fetched))
      /\ ResponsesOf(rejected) =
           RefusedTo(fetched, Len(fetched)) \cup RepeatsTo(normalised, next - 1)
  BY <1>1 DEF Reports
<1>4. next' - 1 = next
  BY <1>1
<1>5. RepeatsTo(normalised, next) = RepeatsTo(normalised, next - 1)
         \cup IF Repeats(normalised, next) THEN {r.response} ELSE {}
  BY <1>1, RepeatsGrow
<1>6. r.id \in IdsOf(records) <=> Repeats(normalised, next)
  BY <1>1 DEF DedupeLoop, Repeats
<1>7. SUFFICES ResponsesOf(rejected') =
                 RefusedTo(fetched, Len(fetched)) \cup RepeatsTo(normalised, next)
  BY <1>1, <1>3, <1>4 DEF Reports
<1>8. CASE r.id \in IdsOf(records)
  <2>1. Reject(r, "duplicate_id")
    BY <1>8 DEF Dedupe
  <2>2. ResponsesOf(rejected') = ResponsesOf(rejected) \cup {r.response}
    BY <1>1, <1>2, <2>1, RejectAppends DEF Reason
  <2> HIDE DEF r
  <2> QED BY <1>3, <1>5, <1>6, <1>8, <2>2
<1>9. CASE r.id \notin IdsOf(records)
  <2>1. rejected' = rejected
    BY <1>9 DEF Dedupe
  <2> HIDE DEF r
  <2> QED BY <1>3, <1>5, <1>6, <1>9, <2>1
<1> QED BY <1>8, <1>9

\* The report is about the quotes passed and not let through.
LEMMA ReportsAlways == Spec => []Reports
<1>1. RefusedTo(fetched, 0) = {} /\ OkRecordsTo(fetched, 0) = {}
  BY RefusedGrow, 1 \in Nat \ {0}
<1>2. ResponsesOf(<<>>) = {} /\ Range(<<>>) = {} /\ InOrder(<<>>)
  BY DEF ResponsesOf, Range, InOrder
<1>3. Init => Reports
  <2> SUFFICES ASSUME Init PROVE Reports
    OBVIOUS
  <2>1. /\ caller = "clean_quotes" /\ stage \in {"args", "fetch", "normalise"} /\ next = 1
        /\ normalised = <<>> /\ rejected = <<>>
    BY DEF Init
  <2>2. next - 1 = 0
    BY <2>1
  <2> QED BY <1>1, <1>2, <2>1, <2>2 DEF Reports
<1>4. TInv /\ Calls /\ FetchLoop /\ NormaliseLoop /\ DedupeLoop /\ Reports /\ [Next]_vars
        => Reports'
  <2> SUFFICES ASSUME TInv, Calls, FetchLoop, NormaliseLoop, DedupeLoop, Reports, [Next]_vars
               PROVE  Reports'
    OBVIOUS
  <2>1. /\ fetched \in Seq(Quote) /\ normalised \in Seq(Record)
        /\ Len(fetched) \in Nat /\ Len(normalised) \in Nat /\ next \in Nat \ {0}
        /\ caller \in {"clean_quotes", "lake"}
    BY DEF TInv, TypeOK
  <2>2. CASE EndFetch
    <3>1. /\ caller' = "clean_quotes" /\ stage' = "normalise" /\ next' = 1
          /\ normalised' = <<>> /\ rejected' = <<>> /\ fetched' = fetched
      BY <2>2 DEF EndFetch, Past, Goto, Calls, fetching, normalising, cleaning
    <3>2. next' - 1 = 0
      BY <3>1
    <3> QED BY <1>1, <1>2, <3>1, <3>2 DEF Reports
  <2>3. CASE caller = "clean_quotes" /\ Normalise
    BY <2>3, NormaliseReports
  <2>4. CASE caller = "clean_quotes" /\ EndNormalise
    <3>1. /\ stage = "normalise" /\ stage' = "dedupe" /\ next' = 1 /\ next > Len(fetched)
          /\ UNCHANGED <<caller, fetched, normalised, rejected>>
      BY <2>4 DEF EndNormalise, Past, Goto, quotes, fetching, normalising, cleaning
    <3>2. next - 1 = Len(fetched) /\ next' - 1 = 0
      BY <2>1, <2>4, <3>1 DEF NormaliseLoop
    <3>3. RepeatsTo(normalised, 0) = {}
      BY RepeatsGrow, 1 \in Nat \ {0}
    <3>4. /\ InOrder(normalised) /\ Range(normalised) = OkRecordsTo(fetched, Len(fetched))
          /\ ResponsesOf(rejected) = RefusedTo(fetched, Len(fetched))
      BY <2>4, <3>1, <3>2 DEF Reports
    <3> QED BY <2>4, <3>1, <3>2, <3>3, <3>4 DEF Reports
  <2>5. CASE caller = "clean_quotes" /\ Dedupe
    BY <2>5, DedupeReports
  <2>6. CASE caller = "clean_quotes" /\ EndDedupe
    <3>1. /\ stage = "dedupe" /\ stage' = "pick" /\ next > Len(normalised)
          /\ UNCHANGED <<caller, fetched, normalised, rejected>>
      BY <2>6 DEF EndDedupe, Past, Goto, fetching, normalising
    <3>2. next - 1 = Len(normalised)
      BY <2>1, <2>6, <3>1 DEF DedupeLoop
    <3>3. /\ InOrder(normalised) /\ Range(normalised) = OkRecordsTo(fetched, Len(fetched))
          /\ ResponsesOf(rejected) =
               RefusedTo(fetched, Len(fetched)) \cup RepeatsTo(normalised, Len(normalised))
      BY <2>6, <3>1, <3>2 DEF Reports
    <3>4. InOrder(fetched)
      BY DEF FetchLoop
    <3>5. ResponsesOf(rejected) = Dropped(fetched)
      BY <2>1, <3>3, <3>4, ReportIsWhatIsDropped
    <3> QED BY <2>6, <3>1, <3>5 DEF Reports
  <2>7. CASE Pick \/ EndPick
    <3>1. stage = "pick" /\ UNCHANGED <<fetched, rejected>>
      BY <2>7 DEF Pick, EndPick, Pass, Past, fetching, cleaning
    <3>2. stage' = "pick" \/ caller' = "lake"
      BY <2>7, <3>1 DEF Pick, EndPick, Pass
    <3>3. stage' # "pick" => caller' = "lake"
      BY <3>2
    <3>4. stage' = "pick" => stage' # "normalise" /\ stage' # "dedupe"
      OBVIOUS
    <3>5. ResponsesOf(rejected') = Dropped(fetched')
      BY <3>1 DEF Reports
    <3> QED BY <3>3, <3>4, <3>5 DEF Reports
  <2>8. CASE caller = "lake" /\ (Normalise \/ EndNormalise \/ Dedupe \/ EndDedupe)
    <3>1. UNCHANGED <<caller, fetched, rejected>>
      BY <2>8 DEF Normalise, EndNormalise, Dedupe, EndDedupe, Reject, fetching, normalising,
                  cleaning
    <3> QED BY <2>8, <3>1 DEF Reports
  <2>9. CASE TakeArg \/ EndArgs \/ FetchUsable \/ FetchUnusable \/ FetchFails
    <3>1. caller' = "clean_quotes" /\ stage' \in {"args", "fetch", "done"}
      BY <2>9 DEF TakeArg, EndArgs, FetchUsable, FetchUnusable, FetchFails, Fetch, Pass, Past,
                  Goto, Calls, normalising
    <3> QED BY <3>1 DEF Reports
  <2>10. CASE UNCHANGED vars
    BY <2>10 DEF vars, Reports
  <2> QED BY <2>1, <2>2, <2>3, <2>4, <2>5, <2>6, <2>7, <2>8, <2>9, <2>10 DEF Next
<1> QED BY <1>3, <1>4, Typed, CallsAlways, FetchLoopAlways, NormaliseLoopAlways,
           DedupeLoopAlways, PTL DEF Spec

\* Whoever calls, the rows and the rejections add up to the quotes, and of the
\* quotes that run_live_ingest fetched just the rows are not reported.
THEOREM EveryQuoteAccountedForAlways == Spec => []EveryQuoteAccountedFor
<1>1. TInv /\ FetchLoop /\ CleanQuotes /\ Reports /\ FirstAcceptableKept => EveryQuoteAccountedFor
  <2> SUFFICES ASSUME TInv, FetchLoop, CleanQuotes, Reports, FirstAcceptableKept, caller = "lake"
               PROVE  EveryQuoteAccountedFor
    BY DEF EveryQuoteAccountedFor, Cleaned
  <2>1. fetched \in Seq(Quote) /\ DOMAIN fetched = 1..Len(fetched) /\ Len(fetched) \in Nat
    BY DEF TInv, TypeOK
  <2>2. ASSUME NEW i \in DOMAIN fetched, NEW j \in DOMAIN fetched,
               fetched[i].response = fetched[j].response
        PROVE  i = j
    <3>1. fetched[i] \in Quote
      BY <2>1
    <3>2. fetched[i].response \in Nat
      BY <3>1, MaxQuotesAssumption DEF Quote, Response
    <3>3. ~ (i < j) /\ ~ (j < i)
      BY <2>2, <3>2 DEF FetchLoop, InOrder
    <3> QED BY <2>1, <3>3
  <2>3. ASSUME entry # "direct", NEW i \in DOMAIN fetched
        PROVE  fetched[i] \in Range(kept) <=> ~ Reported(fetched[i])
    <3>1. Range(kept) = { fetched[k] : k \in { j \in DOMAIN fetched : FirstOk(fetched, j) } }
      BY <2>3 DEF FirstAcceptableKept, Cleaned, FirstOk
    <3>2. fetched[i] \in Range(kept) <=> FirstOk(fetched, i)
      BY <2>2, <3>1
    <3>3. fetched[i].response \in Dropped(fetched) <=> ~ FirstOk(fetched, i)
      BY <2>1, <2>2 DEF Dropped
    <3>4. ResponsesOf(rejected) = Dropped(fetched)
      BY DEF Reports
    <3>5. Reported(fetched[i]) <=> fetched[i].response \in ResponsesOf(rejected)
      BY DEF Reported, ResponsesOf
    <3> QED BY <3>2, <3>3, <3>4, <3>5
  <2> QED BY <2>3 DEF EveryQuoteAccountedFor, CleanQuotes
<1> QED BY <1>1, Typed, FetchLoopAlways, CleanQuotesAlways, ReportsAlways,
           FirstAcceptableKeptAlways, PTL

-----------------------------------------------------------------------------
(* What lands                                                              *)

\* A row is a quote that was fetched, or passed.
LEMMA KeptWasFetched ==
    TInv /\ Calls /\ PickLoop /\ CleanQuotes => Range(kept) \subseteq Range(fetched)
<1> SUFFICES ASSUME TInv, Calls, PickLoop, CleanQuotes PROVE Range(kept) \subseteq Range(fetched)
  OBVIOUS
<1>1. /\ DOMAIN fetched = 1..Len(fetched) /\ Len(fetched) \in Nat /\ next \in Nat \ {0}
      /\ caller \in {"clean_quotes", "lake"}
  BY DEF TInv, TypeOK
<1>2. \A n \in Nat : n <= Len(fetched) => FirstsTo(fetched, n) \subseteq Range(fetched)
  BY <1>1 DEF FirstsTo, Range
<1>3. CASE stage = "pick"
  <2>1. next - 1 \in Nat /\ next - 1 <= Len(fetched)
    BY <1>1, <1>3 DEF PickLoop
  <2>2. Range(kept) = FirstsTo(fetched, next - 1)
    BY <1>3 DEF PickLoop
  <2> QED BY <1>2, <2>1, <2>2
<1>4. CASE caller = "lake"
  BY <1>1, <1>2, <1>4 DEF CleanQuotes
<1>5. CASE caller = "clean_quotes" /\ stage # "pick"
  BY <1>5, NoneYet DEF Calls
<1> QED BY <1>1, <1>3, <1>4, <1>5

\* The symbols of the command line are distinct, so what lands for each of them
\* is the response its quote was read from.
THEOREM MainReplaysFromLandingAlways == Spec => []MainReplaysFromLanding
<1>1. TInv /\ Calls /\ FetchLoop /\ PickLoop /\ CleanQuotes => MainReplaysFromLanding
  <2> SUFFICES ASSUME TInv, Calls, FetchLoop, PickLoop, CleanQuotes, entry = "main",
                      NEW i \in DOMAIN kept
               PROVE  responses[kept[i].symbol] = kept[i].response
    BY DEF MainReplaysFromLanding, RecordsReplayFromLanding
  <2>1. kept[i] \in Range(fetched)
    BY KeptWasFetched DEF Range
  <2>2. PICK j \in DOMAIN fetched : kept[i] = fetched[j]
    BY <2>1 DEF Range
  <2> QED BY <2>2 DEF FetchLoop
<1> QED BY <1>1, Typed, CallsAlways, FetchLoopAlways, PickLoopAlways, CleanQuotesAlways, PTL

-----------------------------------------------------------------------------
(* The records of the lake                                                 *)

\* The records of the first n rows are n records, and grow with n.
LEMMA RecordsGrow ==
    ASSUME NEW qs \in Seq(Quote), NEW n \in 0..Len(qs)
    PROVE  /\ RecordsTo(qs, n) \in Seq(Record) /\ Len(RecordsTo(qs, n)) = n
           /\ DOMAIN RecordsTo(qs, n) = 1..n
           /\ \A i \in 1..n : RecordsTo(qs, n)[i] = RecordOf(qs[i])
           /\ n # 0 => RecordsTo(qs, n) = Append(RecordsTo(qs, n - 1), RecordOf(qs[n]))
<1>1. \A i \in 1..n : RecordOf(qs[i]) \in Record
  <2> TAKE i \in 1..n
  <2>1. qs[i] \in Quote
    OBVIOUS
  <2> QED BY <2>1, QuoteTypes
<1>2. n \in Nat
  OBVIOUS
<1> DEFINE f == [i \in 1..n |-> RecordOf(qs[i])]
<1>3. \A i \in 1..n : f[i] = RecordOf(qs[i]) /\ f[i] \in Record
  BY <1>1
<1>4. f \in Seq(Record) /\ Len(f) = n /\ DOMAIN f = 1..n
  BY <1>1, <1>2
<1>5. RecordsTo(qs, n) = f
  BY DEF RecordsTo
<1> HIDE DEF f
<1>6. ASSUME n # 0 PROVE f = Append(RecordsTo(qs, n - 1), RecordOf(qs[n]))
  <2>1. n \in Nat \ {0} /\ n \in 1..n
    BY <1>2, <1>6
  <2>2. Append([i \in 1..(n - 1) |-> f[i]], f[n]) = [i \in 1..n |-> f[i]]
    BY <1>3, <2>1, BuiltByAppending
  <2>3. [i \in 1..(n - 1) |-> f[i]] = RecordsTo(qs, n - 1)
    BY <1>2, <1>3 DEF RecordsTo
  <2>4. [i \in 1..n |-> f[i]] = f
    BY <1>3, <1>5 DEF RecordsTo
  <2> QED BY <1>3, <2>1, <2>2, <2>3, <2>4
<1> QED BY <1>3, <1>4, <1>5, <1>6

\* No row of a run is refused by the lake, and no two share an id.
LEMMA RowsAreRecords ==
    ASSUME TInv, FetchLoop, CleanQuotes, caller = "lake", entry # "direct"
    PROVE  /\ \A i \in DOMAIN kept : Acceptable(kept[i])
           /\ \A i, j \in DOMAIN kept : Id(kept[i]) = Id(kept[j]) => i = j
<1>1. /\ DOMAIN fetched = 1..Len(fetched) /\ Len(fetched) \in Nat /\ DOMAIN kept = 1..Len(kept)
      /\ Len(kept) \in Nat /\ kept \in Seq(Quote)
  BY DEF TInv, TypeOK
<1>2. ASSUME NEW i \in DOMAIN kept
      PROVE  \E k \in DOMAIN fetched : kept[i] = fetched[k] /\ First(fetched, k)
  BY <1>1 DEF CleanQuotes, FirstsTo, Range
<1>3. \A id \in OkIds(fetched) : id # Blank
  BY DEF OkIds, OkIdsTo, Acceptable
<1>4. ASSUME NEW i \in DOMAIN kept PROVE Acceptable(kept[i])
  <2>1. PICK k \in DOMAIN fetched : kept[i] = fetched[k] /\ First(fetched, k)
    BY <1>2
  <2> QED BY <1>3, <2>1 DEF First, FetchLoop, Acceptable
<1>5. ASSUME NEW i \in DOMAIN kept, NEW j \in DOMAIN kept, Id(kept[i]) = Id(kept[j])
      PROVE  i = j
  <2>1. PICK k \in DOMAIN fetched : kept[i] = fetched[k] /\ First(fetched, k)
    BY <1>2
  <2>2. PICK l \in DOMAIN fetched : kept[j] = fetched[l] /\ First(fetched, l)
    BY <1>2
  <2>3. Id(fetched[k]) = Id(fetched[l])
    BY <1>5, <2>1, <2>2
  <2>4. ~ (k < l) /\ ~ (l < k)
    BY <1>1, <2>1, <2>2, <2>3 DEF First
  <2>5. k = l
    BY <1>1, <2>4
  <2>6. kept[i].response = kept[j].response /\ kept[i].response \in Nat
    <3>1. kept[i] \in Quote
      BY <1>1
    <3> QED BY <2>1, <2>2, <2>5, <3>1, MaxQuotesAssumption DEF Quote, Response
  <2>7. ~ (i < j) /\ ~ (j < i)
    BY <2>6 DEF CleanQuotes, InOrder
  <2> QED BY <1>1, <2>7
<1> QED BY <1>4, <1>5

\* The lake's loops turn each row into a record.
LEMMA LakeLoopsAlways == Spec => []LakeLoops
<1>1. Init => LakeLoops
  BY DEF Init, LakeLoops
<1>2. TInv /\ Calls /\ FetchLoop /\ CleanQuotes /\ LakeLoops /\ [Next]_vars => LakeLoops'
  <2> SUFFICES ASSUME TInv, Calls, FetchLoop, CleanQuotes, LakeLoops, [Next]_vars,
                      caller' = "lake", entry' # "direct"
               PROVE  LakeLoops'
    BY DEF LakeLoops
  <2>1. /\ kept \in Seq(Quote) /\ Len(kept) \in Nat /\ DOMAIN kept = 1..Len(kept)
        /\ next \in Nat \ {0} /\ caller \in {"clean_quotes", "lake"}
    BY DEF TInv, TypeOK
  <2>2. RecordsTo(kept, 0) = <<>>
    BY <2>1, RecordsGrow
  <2>3. CASE EndPick
    <3>1. /\ normalised' = <<>> /\ records' = <<>> /\ kept' = kept /\ next' = 1
          /\ stage' = IF kept = <<>> THEN "done" ELSE "normalise"
      BY <2>3 DEF EndPick, Goto, cleaning
    <3>2. next' - 1 = 0 /\ next' <= Len(kept') + 1
      BY <2>1, <3>1
    <3>3. stage' = "done" => Len(kept) = 0
      BY <3>1
    <3> QED BY <2>2, <3>1, <3>2, <3>3 DEF LakeLoops
  <2>4. CASE Normalise
    <3>1. /\ caller = "lake" /\ entry # "direct" /\ stage = "normalise" /\ stage' = stage
          /\ kept' = kept /\ next' = next + 1 /\ quotes = kept /\ next <= Len(kept)
      BY <2>4 DEF Normalise, Pass, fetching, quotes
    <3>2. Acceptable(kept[next])
      BY <2>1, <3>1, RowsAreRecords
    <3>3. normalised' = Append(RecordsTo(kept, next - 1), RecordOf(kept[next]))
      BY <2>4, <3>1, <3>2 DEF Normalise, LakeLoops
    <3>4. next \in 0..Len(kept) /\ next # 0 /\ next' - 1 = next
      BY <2>1, <3>1
    <3>5. normalised' = RecordsTo(kept', next' - 1)
      BY <2>1, <3>1, <3>3, <3>4, RecordsGrow
    <3>6. next' <= Len(kept') + 1
      BY <2>1, <3>1
    <3> QED BY <3>1, <3>5, <3>6 DEF LakeLoops
  <2>5. CASE EndNormalise
    <3>1. /\ caller = "lake" /\ entry # "direct" /\ stage = "normalise" /\ stage' = "dedupe"
          /\ kept' = kept /\ next' = 1 /\ quotes = kept /\ next > Len(kept)
          /\ normalised' = normalised /\ records' = <<>>
      BY <2>5 DEF EndNormalise, Past, Goto, fetching, normalising, cleaning, quotes, Calls
    <3>2. next <= Len(kept) + 1 /\ normalised = RecordsTo(kept, next - 1)
      BY <3>1 DEF LakeLoops
    <3>3. next - 1 = Len(kept) /\ next' - 1 = 0 /\ next' <= Len(kept') + 1
      BY <2>1, <3>1, <3>2
    <3> QED BY <2>2, <3>1, <3>2, <3>3 DEF LakeLoops
  <2>6. CASE Dedupe
    <3> DEFINE r == normalised[next]
    <3>1. /\ caller = "lake" /\ entry # "direct" /\ stage = "dedupe" /\ stage' = stage
          /\ kept' = kept /\ next' = next + 1 /\ next <= Len(normalised)
          /\ normalised' = normalised
      BY <2>6 DEF Dedupe, Pass, fetching
    <3>2. normalised = RecordsTo(kept, Len(kept)) /\ records = RecordsTo(kept, next - 1)
      BY <3>1 DEF LakeLoops
    <3>3. Len(kept) \in 0..Len(kept) /\ Len(normalised) = Len(kept)
      BY <2>1, <3>2, RecordsGrow
    <3>4. next \in 1..Len(kept) /\ next - 1 \in 0..Len(kept)
      BY <2>1, <3>1, <3>3
    <3>5. r = RecordOf(kept[next])
      BY <2>1, <3>2, <3>3, <3>4, RecordsGrow
    <3>6. r.id \notin IdsOf(records)
      <4> SUFFICES ASSUME NEW i \in DOMAIN records PROVE records[i].id # r.id
        BY DEF IdsOf
      <4>1. i \in 1..(next - 1) /\ records[i] = RecordOf(kept[i])
        BY <2>1, <3>2, <3>4, RecordsGrow
      <4>2. i \in DOMAIN kept /\ next \in DOMAIN kept /\ i # next
        BY <2>1, <3>4, <4>1
      <4>3. Id(kept[i]) # Id(kept[next])
        BY <3>1, <4>2, RowsAreRecords
      <4> HIDE DEF r
      <4> QED BY <3>5, <4>1, <4>3 DEF RecordOf
    <3>7. records' = Append(RecordsTo(kept, next - 1), RecordOf(kept[next]))
      BY <2>6, <3>2, <3>5, <3>6 DEF Dedupe
    <3> HIDE DEF r
    <3>8. next \in 0..Len(kept) /\ next # 0 /\ next' - 1 = next /\ next' <= Len(kept') + 1
      BY <2>1, <3>1, <3>4
    <3>9. records' = RecordsTo(kept', next' - 1)
      BY <2>1, <3>1, <3>7, <3>8, RecordsGrow
    <3> QED BY <3>1, <3>2, <3>8, <3>9 DEF LakeLoops
  <2>7. CASE EndDedupe
    <3>1. /\ caller = "lake" /\ entry # "direct" /\ stage = "dedupe" /\ stage' = "done"
          /\ kept' = kept /\ records' = records /\ next > Len(normalised)
      BY <2>7 DEF EndDedupe, Past, Goto, fetching, normalising
    <3>2. /\ next <= Len(kept) + 1
          /\ normalised = RecordsTo(kept, Len(kept)) /\ records = RecordsTo(kept, next - 1)
      BY <3>1 DEF LakeLoops
    <3>3. Len(kept) \in 0..Len(kept) /\ Len(normalised) = Len(kept)
      BY <2>1, <3>2, RecordsGrow
    <3>4. next - 1 = Len(kept)
      BY <2>1, <3>1, <3>2, <3>3
    <3> QED BY <3>1, <3>2, <3>4 DEF LakeLoops
  <2>8. CASE Pick \/ TakeArg \/ EndArgs \/ Fetch \/ EndFetch
    BY <2>8 DEF Pick, TakeArg, EndArgs, Fetch, EndFetch, Pass, Past, normalising, Calls
  <2>9. CASE UNCHANGED vars
    BY <2>9 DEF vars, LakeLoops
  <2> QED BY <2>3, <2>4, <2>5, <2>6, <2>7, <2>8, <2>9
          DEF Next, FetchUsable, FetchUnusable, FetchFails
<1> QED BY <1>1, <1>2, Typed, CallsAlways, FetchLoopAlways, CleanQuotesAlways, PTL DEF Spec

\* The CSV and Bronze hold the same quotes, row for row, for any symbols and
\* any answers.
THEOREM LiveCsvAgreesWithBronzeAlways == Spec => []LiveCsvAgreesWithBronze
<1>1. TInv /\ Calls /\ LakeLoops => LiveCsvAgreesWithBronze
  <2> SUFFICES ASSUME TInv, Calls, LakeLoops, entry # "direct", stage = "done"
               PROVE  records = [i \in DOMAIN kept |-> RecordOf(kept[i])]
    BY DEF LiveCsvAgreesWithBronze, CsvAgreesWithBronze
  <2>1. DOMAIN kept = 1..Len(kept) /\ caller \in {"clean_quotes", "lake"}
    BY DEF TInv, TypeOK
  <2>2. CASE caller = "lake"
    BY <2>1, <2>2 DEF LakeLoops, RecordsTo
  <2>3. CASE caller = "clean_quotes"
    <3>1. records = <<>> /\ kept = <<>>
      BY <2>3 DEF Calls
    <3>2. <<>> = [i \in DOMAIN <<>> |-> RecordOf(<<>>[i])]
      OBVIOUS
    <3> QED BY <3>1, <3>2
  <2> QED BY <2>1, <2>2, <2>3
<1> QED BY <1>1, Typed, CallsAlways, LakeLoopsAlways, PTL
=============================================================================
