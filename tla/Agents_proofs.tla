---------------------------- MODULE Agents_proofs ----------------------------
(***************************************************************************)
(* Those who act, for any values of the constants: the live client, the    *)
(* runner's entries, the trader, the evolver, the scheduler and the plans. *)
(* They share no state, and each section proves what its module's runs     *)
(* check.                                                                  *)
(***************************************************************************)
EXTENDS DeribitClient, Entries, Trader, Evolver, Scheduler, DataTheorems

(* The entries, for any strategies, markets, expiries and order of the     *)
(* instances, although the feed may change its mind on the expiry between  *)
(* two of them.                                                            *)

OpenIsList == \E S : open \in Seq(S)

EntriesInductive == OpenIsList /\ NoTwins

------------------------------------------------------------------------------
\* The options of a trade that is open are open.
LEMMA HeldIsOpen ==
    ASSUME NEW i \in DOMAIN open
    PROVE  Symbols(open[i].expiry, open[i].legs) \subseteq OpenSymbols
  BY DEF OpenSymbols, ToSet

------------------------------------------------------------------------------
(* An entry. *)

\* The trade that is entered shares no option with an open one, if it was compared.
LEMMA EnterKeepsApart ==
    ASSUME NoTwins, OpenIsList, Enter
    PROVE  OpenIsList' /\ NoTwins'
  <1>1. PICK c \in Compared : \E plan \in Candidates(c) :
            open' = Append(open, [expiry |-> nearest, legs |-> plan.legs, compared |-> c])
    BY DEF Enter
  <1>2. PICK plan \in Candidates(c) :
            open' = Append(open, [expiry |-> nearest, legs |-> plan.legs, compared |-> c])
    BY <1>1
  <1> DEFINE new == [expiry |-> nearest, legs |-> plan.legs, compared |-> c]
  <1>3. new.compared => Symbols(new.expiry, new.legs) \cap OpenSymbols = {}
    BY <1>2 DEF Candidates, Duplicate
  <1>4. open' = Append(open, new)
    BY <1>2
  <1> HIDE DEF new
  <1>5. PICK S : open \in Seq(S)
    BY DEF OpenIsList
  <1>6. open \in Seq(S \cup {new}) /\ new \in S \cup {new}
    <2>1. Len(open) \in Nat /\ DOMAIN open = 1..Len(open)
      BY <1>5, LenProperties
    <2>2. \A k \in 1..Len(open) : open[k] \in S
      BY <1>5, ElementOfSeq
    <2>3. open = [k \in 1..Len(open) |-> open[k]]
      BY <1>5, SeqDef, <2>1
    <2> QED BY <2>1, <2>2, <2>3, SeqDef
  <1>7. /\ open' \in Seq(S \cup {new})
        /\ Len(open) \in Nat /\ DOMAIN open = 1..Len(open)
        /\ DOMAIN open' = 1..(Len(open) + 1)
        /\ \A k \in 1..Len(open) : open'[k] = open[k]
        /\ open'[Len(open) + 1] = new
    BY <1>4, <1>6, AppendProperties, LenProperties
  <1>8. OpenIsList'
    BY <1>7 DEF OpenIsList
  <1>9. ASSUME NEW i \in DOMAIN open'
        PROVE  \/ i \in DOMAIN open /\ open'[i] = open[i]
               \/ i = Len(open) + 1 /\ open'[i] = new
    BY <1>7, <1>9
  <1>10. ASSUME NEW i \in DOMAIN open', NEW j \in DOMAIN open', i < j, open'[j].compared
         PROVE  Symbols(open'[i].expiry, open'[i].legs)
                    \cap Symbols(open'[j].expiry, open'[j].legs) = {}
    <2>1. i \in DOMAIN open /\ open'[i] = open[i]
      BY <1>7, <1>10
    <2>2. CASE j \in DOMAIN open /\ open'[j] = open[j]
      BY <1>10, <2>1, <2>2 DEF NoTwins
    <2>3. CASE open'[j] = new
      <3>1. Symbols(open[i].expiry, open[i].legs) \subseteq OpenSymbols
        BY <2>1, HeldIsOpen
      <3> QED BY <1>3, <1>10, <2>1, <2>3, <3>1
    <2> QED BY <1>9, <2>2, <2>3
  <1>11. NoTwins'
    BY <1>10 DEF NoTwins, Symbols
  <1> QED BY <1>8, <1>11

\* Closing a trade leaves the others as they are.
LEMMA CloseKeepsApart ==
    ASSUME NoTwins, OpenIsList, CloseTrade
    PROVE  OpenIsList' /\ NoTwins'
  <1>1. PICK x \in DOMAIN open : open' = RemoveAt(open, x)
    BY DEF CloseTrade
  <1>2. PICK S : open \in Seq(S)
    BY DEF OpenIsList
  <1>3. Len(open) \in Nat /\ DOMAIN open = 1..Len(open)
    BY <1>2, LenProperties
  <1>4. /\ open' \in Seq(S)
        /\ DOMAIN open' = 1..(Len(open) - 1)
        /\ \A k \in 1..(Len(open) - 1) : open'[k] = IF k < x THEN open[k] ELSE open[k + 1]
    BY <1>1, <1>2, <1>3, RemovedAt DEF RemoveAt, LessElement
  <1> DEFINE was(k) == IF k < x THEN k ELSE k + 1
  <1>5. \A k \in DOMAIN open' : was(k) \in DOMAIN open /\ open'[k] = open[was(k)]
    BY <1>1, <1>3, <1>4
  <1>6. \A i, j \in DOMAIN open' : i < j => was(i) < was(j)
    BY <1>1, <1>3, <1>4
  <1> HIDE DEF was
  <1>7. \A i, j \in DOMAIN open' : i < j /\ open'[j].compared =>
            Symbols(open'[i].expiry, open'[i].legs)
                \cap Symbols(open'[j].expiry, open'[j].legs) = {}
    BY <1>5, <1>6 DEF NoTwins
  <1>8. OpenIsList'
    BY <1>4 DEF OpenIsList
  <1> QED BY <1>7, <1>8 DEF NoTwins, Symbols

------------------------------------------------------------------------------
\* The invariant that the entry runs keep, of which the statements below are
\* consequences.
THEOREM EntriesAlwaysInductive == EntriesSpec => []EntriesInductive
  <1>1. EntriesInit => EntriesInductive
    <2> SUFFICES ASSUME EntriesInit PROVE EntriesInductive
      OBVIOUS
    <2>1. open = <<>>
      BY DEF EntriesInit
    <2>2. OpenIsList
      BY <2>1, EmptySeq DEF OpenIsList
    <2>3. NoTwins
      BY <2>1, EmptySeq DEF NoTwins
    <2> QED BY <2>2, <2>3 DEF EntriesInductive
  <1>2. EntriesInductive /\ [EntriesNext]_entriesVars => EntriesInductive'
    <2> SUFFICES ASSUME OpenIsList, NoTwins, [EntriesNext]_entriesVars
                 PROVE  OpenIsList' /\ NoTwins'
      BY DEF EntriesInductive
    <2>1. ASSUME UNCHANGED open PROVE OpenIsList' /\ NoTwins'
      BY <2>1 DEF OpenIsList, NoTwins, Symbols
    <2>2. CASE Enter
      BY <2>2, EnterKeepsApart
    <2>3. CASE CloseTrade
      BY <2>3, CloseKeepsApart
    <2>4. CASE Tick \/ BuildContext \/ NameExpiry \/ Skip \/ UNCHANGED entriesVars
      BY <2>4, <2>1 DEF Tick, BuildContext, NameExpiry, Skip, entriesVars
    <2> QED BY <2>2, <2>3, <2>4 DEF EntriesNext
  <1> QED BY <1>1, <1>2, PTL DEF EntriesSpec

\* Two open trades share an option only if the later was not compared (the
\* comparison of __main__.py:1046-1077 with the instrument names of this moment,
\* which there is only when the feed names an expiry).
THEOREM NeverTwins == EntriesSpec => []NoTwins
  <1>1. EntriesInductive => NoTwins
    BY DEF EntriesInductive
  <1> QED BY <1>1, EntriesAlwaysInductive, PTL

------------------------------------------------------------------------------
(* The trader, for any replies, quantities and times. *)

TraderInductive == TraderTypeOK /\ TraderRestricts

\* The library's Max of two integers is the larger one (the source's max(a, b)).
LEMMA LargerOf ==
    ASSUME NEW a \in Int, NEW b \in Int
    PROVE  Max({a, b}) = IF a >= b THEN a ELSE b
  <1> DEFINE m == IF a >= b THEN a ELSE b
  <1>1. m \in {a, b} /\ \A y \in {a, b} : m >= y
    OBVIOUS
  <1>2. \A x \in {a, b} : (\A y \in {a, b} : x >= y) => x = m
    OBVIOUS
  <1> HIDE DEF m
  <1>3. Max({a, b}) = m
    BY ONLY <1>1, <1>2, Zenon DEF Max
  <1> QED BY <1>3 DEF m

\* The library's Min of two integers is the smaller one (the source's min(a, b)).
LEMMA SmallerOf ==
    ASSUME NEW a \in Int, NEW b \in Int
    PROVE  Min({a, b}) = IF a <= b THEN a ELSE b
  <1> DEFINE m == IF a <= b THEN a ELSE b
  <1>1. m \in {a, b} /\ \A y \in {a, b} : m <= y
    OBVIOUS
  <1>2. \A x \in {a, b} : (\A y \in {a, b} : x <= y) => x = m
    OBVIOUS
  <1> HIDE DEF m
  <1>3. Min({a, b}) = m
    BY ONLY <1>1, <1>2, Zenon DEF Min
  <1> QED BY <1>3 DEF m

\* Six judgements amount to one of three actions.
LEMMA AggregateCases ==
    ASSUME NEW j
    PROVE  /\ Aggregate(j) \in {"approve", "downsize", "veto"}
           /\ Aggregate(j) = "veto" <=> HardVeto(j)
           /\ Aggregate(j) = "approve" => Clean(j) /\ ~Downsizes(j)
           /\ ~HardVeto(j) /\ ~Downsizes(j) /\ Clean(j) => Aggregate(j) = "approve"
  BY DEF Aggregate

\* A decision: what it says and by whom.
WellDecided(d) == d.action \in Actions /\ d.qty \in Int /\ d.qty >= 1

\* The six-agent answer decides exactly when it is one of the judgments.
LEMMA SixDecides ==
    ASSUME NEW six
    PROVE  SixDecision(six) # None <=> six \in Judgments
  <1>1. [action |-> Aggregate(six), qty |-> 1].qty # None.qty
    BY DEF None
  <1>2. [action |-> Aggregate(six), qty |-> 1] # None
    BY <1>1, Zenon
  <1> QED BY <1>2 DEF SixDecision

\* The blocks the provider sends hold no probability where it is looked for.
LEMMA NothingProbed == ASSUME NEW b \in Blocks PROVE Probed(b) = None
  BY TraderAssumption DEF Probed, ProbeDecision, Probability

\* An answer is rejected, raises, or becomes a well-formed decision that was read in
\* the text.
LEMMA WhatIsParsed ==
    ASSUME NEW r \in TextReplies
    PROVE  \/ Parse(r) = None
           \/ Parse(r) = Raised
           \/ WellDecided(Parse(r)) /\ Parse(r).action \in Readings(r)
  <1>1. /\ {r.whole, r.braces, r.line} \subseteq Actions \cup {"nothing", "raises"}
        /\ r.first \in Actions \cup {"nothing"} /\ r.qty \in Int
    BY TraderAssumption
  <1>2. AtLeastOne(r.qty) \in Int /\ AtLeastOne(r.qty) >= 1
    BY <1>1, LargerOf DEF AtLeastOne
  <1> DEFINE said(x) == IF x = "raises" THEN Raised ELSE [action |-> x, qty |-> AtLeastOne(r.qty)]
             told(x) == IF x = "raises" THEN Raised ELSE [action |-> x, qty |-> 1]
  <1>3. ASSUME NEW x \in (Actions \cup {"nothing", "raises"}) \ {"nothing"}
        PROVE  /\ (said(x) = Raised \/ (WellDecided(said(x)) /\ said(x).action = x))
               /\ (told(x) = Raised \/ (WellDecided(told(x)) /\ told(x).action = x))
    <2>1. CASE x = "raises"
      <3>1. said(x) = Raised /\ told(x) = Raised
        BY <2>1, Zenon
      <3> HIDE DEF said, told
      <3> QED BY <3>1
    <2>2. CASE x # "raises"
      <3>1. said(x) = [action |-> x, qty |-> AtLeastOne(r.qty)] /\ told(x) = [action |-> x, qty |-> 1]
        BY <2>2
      <3>2. x \in Actions
        BY <1>3, <2>2
      <3> HIDE DEF said, told
      <3> QED BY <1>2, <3>1, <3>2 DEF WellDecided
    <2> QED BY <2>1, <2>2
  <1>4. Parse(r) = IF r.whole # "nothing" THEN said(r.whole)
                   ELSE IF r.braces # "nothing" THEN said(r.braces)
                   ELSE IF r.line # "nothing" THEN told(r.line)
                   ELSE IF r.first # "nothing" THEN told(r.first)
                   ELSE None
    BY DEF Parse
  <1> HIDE DEF said, told
  <1>5. CASE r.whole # "nothing"
    BY <1>1, <1>3, <1>4, <1>5 DEF Readings
  <1>6. CASE r.whole = "nothing" /\ r.braces # "nothing"
    BY <1>1, <1>3, <1>4, <1>6 DEF Readings
  <1>7. CASE r.whole = "nothing" /\ r.braces = "nothing" /\ r.line # "nothing"
    BY <1>1, <1>3, <1>4, <1>7 DEF Readings
  <1>8. CASE r.whole = "nothing" /\ r.braces = "nothing" /\ r.line = "nothing" /\ r.first # "nothing"
    BY <1>1, <1>3, <1>4, <1>8 DEF Readings
  <1>9. CASE r.whole = "nothing" /\ r.braces = "nothing" /\ r.line = "nothing" /\ r.first = "nothing"
    BY <1>4, <1>9
  <1> QED BY <1>5, <1>6, <1>7, <1>8, <1>9

\* Every decision is an exception or an action with a quantity of at least one;
\* a veto was read.
LEMMA WhatIsDecided ==
    ASSUME NEW six, NEW text \in TextReplies, NEW block \in Blocks
    PROVE  LET d == Decide(six, block, text) IN
           /\ d = Raised \/ WellDecided(d)
           /\ six \in Judgments => d = [action |-> Aggregate(six), qty |-> 1]
           /\ d # Raised /\ d.action = "veto" =>
                IF six \in Judgments THEN HardVeto(six) ELSE "veto" \in Readings(text)
  <1> DEFINE d == Decide(six, block, text)
  <1>1. Probed(block) = None
    BY NothingProbed
  <1>2. CASE six \in Judgments
    <2>1. d = [action |-> Aggregate(six), qty |-> 1]
      BY <1>2, SixDecides DEF Decide, SixDecision
    <2>2. d.action = Aggregate(six) /\ d.qty = 1
      BY <2>1
    <2>3. WellDecided(d)
      BY <2>2, AggregateCases DEF WellDecided, Actions
    <2> QED BY <1>2, <2>1, <2>2, <2>3, AggregateCases
  <1>3. CASE six \notin Judgments
    <2>1. d = IF Parse(text) # None THEN Parse(text) ELSE Fallback
      BY <1>1, <1>3, SixDecides DEF Decide, AskLLM
    <2>2. CASE Parse(text) = None
      BY <1>3, <2>1, <2>2 DEF Fallback, WellDecided, Actions
    <2>3. CASE Parse(text) # None
      <3>1. d = Parse(text)
        BY <2>1, <2>3
      <3> QED BY <1>3, <2>3, <3>1, WhatIsParsed
    <2> QED BY <2>2, <2>3
  <1> QED BY <1>2, <1>3

\* What is executed lies between one and what the risk engine allowed.
LEMMA WhatIsSized ==
    ASSUME NEW allowed \in Nat \ {0}, NEW d, d = Raised \/ WellDecided(d)
    PROVE  /\ Sized(allowed, d) \subseteq 1..allowed
           /\ Cardinality(Sized(allowed, d)) <= 1
           /\ Sized(allowed, d) = {} => d # Raised /\ d.action = "veto"
  <1>1. \A q : Cardinality({q}) = 1
    BY FS_Singleton
  <1>2. Cardinality({}) = 0
    BY FS_EmptySet
  <1>0. {allowed} \subseteq 1..allowed /\ {allowed} # {} /\ {} \subseteq 1..allowed
    OBVIOUS
  <1>3. CASE d = Raised
    <2>1. Sized(allowed, d) = {allowed}
      BY ONLY <1>3, Zenon DEF Sized
    <2> QED BY <1>0, <1>1, <2>1
  <1>4. CASE d # Raised /\ d.action = "veto"
    <2>1. Sized(allowed, d) = {}
      BY ONLY <1>4, Zenon DEF Sized
    <2> QED BY <1>0, <1>2, <1>4, <2>1
  <1>5. CASE d # Raised /\ d.action = "downsize"
    <2>1. d.qty \in Int /\ d.qty >= 1
      BY <1>5 DEF WellDecided
    <2> DEFINE m == IF d.qty <= allowed THEN d.qty ELSE allowed
    <2>2. Min({d.qty, allowed}) = m /\ m \in Int /\ m >= 1 /\ m <= allowed
      BY <2>1, SmallerOf
    <2> HIDE DEF m
    <2>3. Max({0, m}) = m
      BY <2>2, LargerOf
    <2>4. Sized(allowed, d) = {m}
      <3>1. d # Raised /\ d.action # "veto" /\ d.action = "downsize"
        BY <1>5
      <3>2. Sized(allowed, d) = {Max({0, Min({d.qty, allowed})})}
        BY ONLY <3>1, Zenon DEF Sized
      <3> QED BY ONLY <3>2, <2>2, <2>3
    <2>5. {m} \subseteq 1..allowed /\ {m} # {}
      BY <2>2
    <2>6. Cardinality({m}) = 1
      BY <1>1
    <2> QED BY ONLY <2>4, <2>5, <2>6
  <1>6. CASE d # Raised /\ d.action \notin {"veto", "downsize"}
    <2>1. d # Raised /\ d.action # "veto" /\ d.action # "downsize"
      BY <1>6
    <2>2. Sized(allowed, d) = {allowed}
      BY ONLY <2>1, Zenon DEF Sized
    <2> QED BY <1>0, <1>1, <2>2
  <1> QED BY <1>3, <1>4, <1>5, <1>6

\* What a worse market may be.
LEMMA WorseMarket ==
    ASSUME NEW s \in Judgments, NEW j \in Worsenings(s)
    PROVE  /\ j.regime = s.regime /\ j.direction = s.direction
           /\ j.toxic \in From(Toxic, s.toxic)
           /\ j.liquidity \in From(Liquidity, s.liquidity)
           /\ j.quotes \in From(Quotes, s.quotes)
           /\ j.inventory \in {s.inventory, "long_bias", "short_bias"}
  BY DEF Worsenings

\* In the list from a member on, the members before it no longer occur.
LEMMA FromOrder ==
    ASSUME NEW a, NEW b, NEW c, a # b, b # c, a # c, NEW x \in {a, b, c}, NEW t \in From(<<a, b, c>>, x)
    PROVE  /\ t \in {a, b, c}
           /\ x = c => t = c
           /\ x = b => t # a
  <1> DEFINE o == <<a, b, c>>
  <1>1. PICK k \in DOMAIN o : t = o[k] /\ \E n \in 1..k : o[n] = x
    BY DEF From
  <1>2. DOMAIN o = 1..3 /\ o[1] = a /\ o[2] = b /\ o[3] = c
    OBVIOUS
  <1> HIDE DEF o
  <1>3. k \in {1, 2, 3}
    BY <1>1, <1>2
  <1>4. PICK n \in 1..k : o[n] = x
    BY <1>1
  <1>5. n \in {1, 2, 3} /\ n <= k
    BY <1>3, <1>4
  <1> QED BY <1>1, <1>2, <1>3, <1>4, <1>5

\* The judges' panel, given judgments at least as bad each, decides at least as
\* strictly.
LEMMA WorseIsStricter ==
    ASSUME NEW s \in Judgments, NEW j \in Worsenings(s)
    PROVE  Strictness[Aggregate(j)] >= Strictness[Aggregate(s)]
  <1>1. /\ j.regime = s.regime /\ j.direction = s.direction
        /\ j.inventory \in {s.inventory, "long_bias", "short_bias"}
    BY WorseMarket
  <1>2. /\ s.toxic \in {"low", "normal", "high"} /\ s.liquidity \in {"no", "partial", "yes"}
        /\ s.quotes \in {"favorable", "normal", "unfavorable"}
        /\ s.inventory \in {"no_pressure", "long_bias", "short_bias"}
    BY DEF Judgments
  <1>3. /\ j.toxic \in {"low", "normal", "high"}
        /\ s.toxic = "high" => j.toxic = "high"
        /\ s.toxic = "normal" => j.toxic # "low"
    <2>1. j.toxic \in From(<<"low", "normal", "high">>, s.toxic)
      BY WorseMarket DEF Toxic
    <2> QED BY <1>2, <2>1, FromOrder
  <1>4. /\ j.liquidity \in {"no", "partial", "yes"}
        /\ s.liquidity = "yes" => j.liquidity = "yes"
        /\ s.liquidity = "partial" => j.liquidity # "no"
    <2>1. j.liquidity \in From(<<"no", "partial", "yes">>, s.liquidity)
      BY WorseMarket DEF Liquidity
    <2> QED BY <1>2, <2>1, FromOrder
  <1>5. s.quotes = "unfavorable" => j.quotes = "unfavorable"
    <2>1. j.quotes \in From(<<"favorable", "normal", "unfavorable">>, s.quotes)
      BY WorseMarket DEF Quotes
    <2> QED BY <1>2, <2>1, FromOrder
  <1>6. HardVeto(s) => HardVeto(j)
    BY <1>1, <1>3, <1>4 DEF HardVeto
  <1>7. Aggregate(j) = "approve" => Aggregate(s) = "approve"
    <2> SUFFICES ASSUME Clean(j), ~Downsizes(j), ~HardVeto(j)
                 PROVE  ~HardVeto(s) /\ ~Downsizes(s) /\ Clean(s)
      BY AggregateCases
    <2>1. Clean(s)
      BY <1>1 DEF Clean
    <2>2. ~HardVeto(s)
      BY <1>6
    <2>3. ~Downsizes(s)
      BY <1>1, <1>2, <1>3, <1>4, <1>5 DEF Downsizes, HardVeto
    <2> QED BY <2>1, <2>2, <2>3
  <1>8. /\ Aggregate(s) \in {"approve", "downsize", "veto"} /\ Aggregate(j) \in {"approve", "downsize", "veto"}
        /\ Aggregate(s) = "veto" => Aggregate(j) = "veto"
    BY <1>6, AggregateCases
  <1>9. Strictness["approve"] = 0 /\ Strictness["downsize"] = 1 /\ Strictness["veto"] = 2
    BY DEF Strictness
  <1> QED BY <1>7, <1>8, <1>9

\* Passing through the gate keeps the trader's invariant: what goes on is what was
\* proposed, or stricter.
LEMMA GateRestricts ==
    ASSUME TraderInductive, NEW written \in BOOLEAN, Gate(written)
    PROVE  TraderInductive'
  <1>1. PICK allowed \in 1..MaxQty, six \in SixReplies, text \in TextReplies, block \in Blocks :
            gate' = [allowed |-> allowed, six |-> six, text |-> text, block |-> block,
                     decision |-> Decide(six, block, text), written |-> written,
                     executed |-> Sized(allowed, IF written THEN Decide(six, block, text) ELSE Raised),
                     by |-> IF SixDecision(six) # None THEN "six"
                            ELSE IF Probed(block) # None THEN "probes" ELSE "text"]
    BY DEF Gate
  <1> DEFINE d == Decide(six, block, text)
             x == IF written THEN d ELSE Raised
  <1>2. /\ gate'.allowed = allowed /\ gate'.six = six /\ gate'.text = text
        /\ gate'.decision = d /\ gate'.executed = Sized(allowed, x)
        /\ gate'.by = IF six \in Judgments THEN "six" ELSE "text"
    BY <1>1, NothingProbed, SixDecides
  <1>12. gate'.written = written
    BY ONLY <1>1, Zenon
  <1>3. /\ d = Raised \/ WellDecided(d)
        /\ six \in Judgments => d = [action |-> Aggregate(six), qty |-> 1]
        /\ d # Raised /\ d.action = "veto" =>
                IF six \in Judgments THEN HardVeto(six) ELSE "veto" \in Readings(text)
    BY WhatIsDecided
  <1> HIDE DEF d
  <1>4. x = Raised \/ WellDecided(x)
    BY <1>3
  <1>5. allowed \in Nat \ {0} /\ MaxQty \in Nat /\ allowed <= MaxQty
    BY TraderAssumption
  <1>6. x # Raised => x = d
    OBVIOUS
  <1>13. written => x = d
    OBVIOUS
  <1> HIDE DEF x
  <1>7. /\ Sized(allowed, x) \subseteq 1..allowed
        /\ Cardinality(Sized(allowed, x)) <= 1
        /\ Sized(allowed, x) = {} => x # Raised /\ x.action = "veto"
    BY <1>4, <1>5, WhatIsSized
  <1>8. OnlyRestricts'
    BY <1>2, <1>7 DEF OnlyRestricts
  <1>9. OnlyVetoStops'
    BY <1>2, <1>3, <1>6, <1>7 DEF OnlyVetoStops
  <1>14. VetoStops'
    <2> SUFFICES ASSUME written, d.action = "veto" PROVE gate'.executed = {}
      BY <1>2, <1>12, Zenon DEF VetoStops
    <2>1. x = d
      BY ONLY <1>13, written, Zenon
    <2>2. d # Raised
      BY DEF Raised
    <2>3. Sized(allowed, x) = {}
      BY ONLY <2>1, <2>2, d.action = "veto", Zenon DEF Sized
    <2> QED BY <1>2, <2>3
  <1>10. WorseNeverLoosens'
    <2> SUFFICES ASSUME six \in Judgments, NEW j \in Worsenings(six)
                 PROVE  Strictness[Aggregate(j)] >= Strictness[d.action]
      BY <1>2 DEF WorseNeverLoosens
    <2>1. d.action = Aggregate(six)
      BY <1>3
    <2> QED BY <2>1, WorseIsStricter
  <1>11. TraderTypeOK'
    <2>1. phase' = "idle" /\ now' = now /\ lastIdle' = lastIdle
      BY DEF Gate
    <2>2. scores' \in BOOLEAN
      BY ONLY Gate(written), Zenon DEF Gate
    <2>3. produced' \in BOOLEAN
      <3>1. produced \in BOOLEAN
        BY DEF TraderInductive, TraderTypeOK
      <3>2. (produced \/ gate'.executed # {}) \in BOOLEAN
        OBVIOUS
      <3> QED BY ONLY <3>1, <3>2, Gate(written), Zenon DEF Gate
    <2>4. gate'.allowed \in 0..MaxQty /\ Cardinality(gate'.executed) <= 1
      BY <1>2, <1>5, <1>7
    <2>5. phase' \in {"plans", "idle", "wait"} /\ now' \in 0..MaxClock /\ lastIdle' \in 0..now'
      BY <2>1 DEF TraderInductive, TraderTypeOK
    <2> QED BY ONLY <2>2, <2>3, <2>4, <2>5, Zenon DEF TraderTypeOK
  <1> QED BY <1>8, <1>9, <1>10, <1>11, <1>14 DEF TraderInductive, TraderRestricts

\* Without a gate there is nothing to restrict.
LEMMA NoGateRestricts ==
    ASSUME gate = NoGate
    PROVE  TraderRestricts /\ gate.allowed \in 0..MaxQty /\ Cardinality(gate.executed) <= 1
  <1>1. gate.allowed = 0 /\ gate.executed = {} /\ gate.by = "nobody"
    BY DEF NoGate
  <1>2. Cardinality({}) = 0
    BY FS_EmptySet
  <1> QED BY <1>1, <1>2, TraderAssumption DEF TraderRestricts, OnlyRestricts, OnlyVetoStops, VetoStops, WorseNeverLoosens

\* Every state of the trader satisfies its inductive invariant.
THEOREM TraderAlwaysInductive == TraderSpec => []TraderInductive
  <1>1. TraderInit => TraderInductive
    <2> SUFFICES ASSUME TraderInit PROVE TraderInductive
      OBVIOUS
    <2>1. gate = NoGate /\ now \in 0..MaxClock /\ lastIdle \in 0..now /\ phase = "plans"
      BY TraderAssumption DEF TraderInit
    <2>2. produced \in BOOLEAN /\ scores \in BOOLEAN
      BY ONLY TraderInit, Zenon DEF TraderInit
    <2> QED BY <2>1, <2>2, NoGateRestricts DEF TraderInductive, TraderTypeOK
  <1>2. TraderInductive /\ [TraderNext]_traderVars => TraderInductive'
    <2> SUFFICES ASSUME TraderInductive, [TraderNext]_traderVars PROVE TraderInductive'
      OBVIOUS
    <2>1. CASE GateWritten
      BY <2>1, GateRestricts DEF GateWritten
    <2>2. CASE GateUnwritten
      BY <2>2, GateRestricts DEF GateUnwritten
    <2>3. ASSUME \/ gate' = NoGate \/ gate' = gate,
                 now' \in 0..MaxClock, lastIdle' \in 0..now', phase' \in {"plans", "idle", "wait"},
                 produced' \in BOOLEAN, scores' \in BOOLEAN
          PROVE  TraderInductive'
      <3>1. TraderRestricts' /\ gate'.allowed \in 0..MaxQty /\ Cardinality(gate'.executed) <= 1
        <4>1. CASE gate' = gate
          BY ONLY <4>1, TraderInductive, Zenon
             DEF TraderInductive, TraderTypeOK, TraderRestricts, OnlyRestricts, OnlyVetoStops, VetoStops, WorseNeverLoosens
        <4>2. CASE gate' = NoGate
          <5>1. gate'.allowed = 0 /\ gate'.executed = {} /\ gate'.by = "nobody"
            BY <4>2 DEF NoGate
          <5>2. Cardinality({}) = 0
            BY FS_EmptySet
          <5> QED BY <5>1, <5>2, TraderAssumption DEF TraderRestricts, OnlyRestricts, OnlyVetoStops, VetoStops, WorseNeverLoosens
        <4> QED BY <2>3, <4>1, <4>2
      <3> QED BY ONLY <2>3, <3>1, Zenon DEF TraderInductive, TraderTypeOK
    <2>4. now \in 0..MaxClock /\ lastIdle \in 0..now /\ phase \in {"plans", "idle", "wait"} /\ MaxClock \in Nat
      BY TraderAssumption DEF TraderInductive, TraderTypeOK
    <2>5. produced \in BOOLEAN /\ scores \in BOOLEAN
      BY ONLY TraderInductive, Zenon DEF TraderInductive, TraderTypeOK
    <2>6. ASSUME NoPlan \/ AnotherPlan \/ NotDue \/ AskIdle \/ NoContext \/ Wait \/ UNCHANGED traderVars
          PROVE  /\ gate' = NoGate \/ gate' = gate
                 /\ now' \in 0..MaxClock /\ lastIdle' \in 0..now' /\ phase' \in {"plans", "idle", "wait"}
      BY <2>4, <2>6 DEF NoPlan, AnotherPlan, NotDue, AskIdle, NoContext, Wait, traderVars
    <2>7. ASSUME NoPlan \/ AnotherPlan \/ NotDue \/ AskIdle \/ NoContext \/ Wait \/ UNCHANGED traderVars
          PROVE  produced' \in BOOLEAN /\ scores' \in BOOLEAN
      BY ONLY <2>5, <2>7, Zenon DEF NoPlan, AnotherPlan, NotDue, AskIdle, NoContext, Wait, traderVars
    <2> QED BY <2>1, <2>2, <2>3, <2>6, <2>7 DEF TraderNext
  <1> QED BY <1>1, <1>2, PTL DEF TraderSpec

\* Whatever the model says and however it fails, a plan is executed with a
\* quantity from one to the risk engine's or not at all, only what is read as a
\* veto stops it, a veto that is recorded does, and a worse market never loosens a
\* decision (trader.py:126-210 and 564-662, __main__.py:1104-1180).
THEOREM TraderAlwaysRestricts == TraderSpec => []TraderRestricts
  <1>1. TraderInductive => TraderRestricts
    BY DEF TraderInductive
  <1> QED BY <1>1, TraderAlwaysInductive, PTL


------------------------------------------------------------------------------
(* The evolver, for any settings, proposals and stops between two writes. *)

Value     == Int \cup {NaN, Text}
ReadValue == Value \cup {Missing}
Asked     == UNION {ToSet(a) : a \in Answers}
Statuses  == {"pending", "approved", "rejected", "deployed"}

\* A proposal on file.
IsFile(f) == /\ f = [diff |-> f.diff, auto |-> f.auto, status |-> f.status]
             /\ f.status \in Statuses

\* Few changes, of settings that exist, none of them of the number of positions.
Harmless(diff) ==
    /\ DOMAIN diff \subseteq Keys
    /\ Cardinality(DOMAIN diff) \in 1..2
    /\ \A k \in DOMAIN diff : Leaf[k] # "max_open_positions"

\* The proposal in hand is harmless and on file, and until it is applied it
\* moves no setting too far.
InHand ==
    /\ stage \in {"apply", "mark"} =>
         /\ Harmless(Head(queue).diff)
         /\ Head(queue).id \in DOMAIN files
         /\ files[Head(queue).id].auto = TRUE
         /\ files[Head(queue).id].diff = Head(queue).diff
    /\ stage = "apply" => \A k \in DOMAIN Head(queue).diff : ~TooBig(k, Head(queue).diff[k])

DeployedLow(f) == f.status = "deployed" => f.auto = TRUE /\ Cardinality(DOMAIN f.diff) \in 1..2

FilesKept == /\ DOMAIN files \subseteq Ids
             /\ \A i \in DOMAIN files : IsFile(files[i]) /\ DeployedLow(files[i])

QueueKept == /\ queue \in Seq(Asked) /\ reviews \in 0..MaxReviews
             /\ stage \in {"idle", "next", "apply", "mark"}
             /\ stage = "idle" <=> queue = <<>>

SettingsKept == settings \in [Keys -> ReadValue] /\ cutOff \subseteq Keys /\ PositionsKept

EvolverInductive == SettingsKept /\ QueueKept /\ FilesKept /\ InHand

\* What does not touch the file keeps what it says.
LEMMA SettingsStay ==
    ASSUME SettingsKept, settings' = settings, cutOff' = cutOff
    PROVE  SettingsKept'
  BY DEF SettingsKept, PositionsKept, Keys, ReadValue, Value

\* A proposal the model may hand to the evolver has an id and a finite, non-empty
\* change of known values.
LEMMA ProposalsAsked ==
    ASSUME NEW p \in Asked
    PROVE  /\ p.id \in Ids
           /\ p.diff \in [DOMAIN p.diff -> Value]
           /\ DOMAIN p.diff # {} /\ IsFiniteSet(DOMAIN p.diff)
  <1>1. PICK a \in Answers : p \in ToSet(a)
    BY DEF Asked
  <1>2. p.id \in Ids
    BY <1>1 DEF Ids
  <1> QED BY <1>1, <1>2, EvolverAssumption DEF Value

\* An answer of the model is a sequence of such proposals.
LEMMA AnswersAsked == ASSUME NEW a \in Answers PROVE a \in Seq(Asked)
  <1>1. a \in Seq(ToSet(a)) /\ ToSet(a) \subseteq Asked
    BY EvolverAssumption DEF Asked
  <1>2. Len(a) \in Nat /\ DOMAIN a = 1..Len(a) /\ a = [k \in 1..Len(a) |-> a[k]]
    BY <1>1, LenProperties
  <1>3. \A k \in 1..Len(a) : a[k] \in Asked
    BY <1>1, ElementOfSeq
  <1> QED BY <1>2, <1>3, SeqDef

\* Taking the first proposal off the queue leaves proposals.
LEMMA HeadAsked ==
    ASSUME queue \in Seq(Asked), queue # <<>>
    PROVE  /\ Head(queue) \in Asked /\ Tail(queue) \in Seq(Asked)
           /\ Len(queue) = 1 <=> Tail(queue) = <<>>
  <1>1. /\ Head(queue) \in Asked /\ Tail(queue) \in Seq(Asked)
        /\ Len(Tail(queue)) = Len(queue) - 1
    BY HeadTailProperties
  <1>2. Len(queue) \in Nat /\ (Tail(queue) = <<>> <=> Len(Tail(queue)) = 0)
    BY <1>1, EmptySeq, LenProperties
  <1> QED BY <1>1, <1>2

\* A setting is written to a line of its own name.
LEMMA LineHasName ==
    ASSUME NEW k \in Keys
    PROVE  LineOf(k) \in Keys /\ Leaf[LineOf(k)] = Leaf[k]
  <1> DEFINE S == {i \in DOMAIN Lines : Leaf[Lines[i]] = Leaf[k]}
             First(i) == /\ Leaf[Lines[i]] = Leaf[k]
                         /\ \A j \in 1..(i - 1) : Leaf[Lines[j]] # Leaf[k]
  <1>1. Len(Lines) \in Nat /\ DOMAIN Lines = 1..Len(Lines)
    BY EvolverAssumption, LenProperties
  <1>2. S \subseteq Nat
    BY <1>1
  <1>3. S # {}
    BY DEF Keys, ToSet
  <1>4. PICK m \in S : \A n \in S : m <= n
    <2> HIDE DEF S
    <2> QED BY <1>2, <1>3, LeastNumber
  <1>5. First(m)
    <2>1. ASSUME NEW j \in 1..(m - 1), Leaf[Lines[j]] = Leaf[k] PROVE FALSE
      <3>1. j \in S
        BY <1>1, <2>1
      <3> QED BY <1>1, <1>4, <3>1
    <2> QED BY <2>1
  <1>6. LineOf(k) = Lines[CHOOSE i \in DOMAIN Lines : First(i)]
    BY DEF LineOf
  <1>7. m \in DOMAIN Lines
    BY <1>4
  <1>8. /\ (CHOOSE i \in DOMAIN Lines : First(i)) \in DOMAIN Lines
        /\ First(CHOOSE i \in DOMAIN Lines : First(i))
    <2> HIDE DEF First
    <2> QED BY ONLY <1>5, <1>7, Zenon
  <1> QED BY <1>6, <1>8 DEF Keys, ToSet

\* A proposal that is neither invalid nor of high risk.
LEMMA LowIsHarmless ==
    ASSUME NEW p \in Asked, ~Invalid(p.diff), ~HighRisk(p.diff)
    PROVE  Harmless(p.diff) /\ \A k \in DOMAIN p.diff : ~TooBig(k, p.diff[k])
  <1>1. DOMAIN p.diff \subseteq Keys
    BY DEF Invalid
  <1>2. Cardinality(DOMAIN p.diff) \in 1..2
    <2>1. IsFiniteSet(DOMAIN p.diff) /\ DOMAIN p.diff # {}
      BY ProposalsAsked
    <2>2. Cardinality(DOMAIN p.diff) \in Nat /\ Cardinality(DOMAIN p.diff) # 0
      BY <2>1, FS_CardinalityType, FS_EmptySet
    <2>3. ~(Cardinality(DOMAIN p.diff) >= 3)
      BY DEF HighRisk
    <2> QED BY <2>2, <2>3
  <1> QED BY <1>1, <1>2 DEF HighRisk, Harmless

\* A status that is written changes nothing else.
LEMMA StatusWritten ==
    ASSUME FilesKept, NEW id \in Ids, NEW s \in Statuses,
           s = "deployed" => /\ id \in DOMAIN files /\ files[id].auto = TRUE
                             /\ Cardinality(DOMAIN files[id].diff) \in 1..2,
           files' = WithStatus(id, s)
    PROVE  /\ FilesKept'
           /\ DOMAIN files \subseteq DOMAIN files'
           /\ \A i \in DOMAIN files : files'[i].auto = files[i].auto /\ files'[i].diff = files[i].diff
  <1> DEFINE f == IF id \in DOMAIN files THEN [files[id] EXCEPT !.status = s]
                  ELSE [diff |-> <<>>, auto |-> FALSE, status |-> s]
  <1>1. files' = Filed(id, f)
    BY DEF WithStatus
  <1>2. id \in DOMAIN files =>
            f = [diff |-> files[id].diff, auto |-> files[id].auto, status |-> s]
    <2> SUFFICES ASSUME id \in DOMAIN files
                 PROVE  [files[id] EXCEPT !.status = s]
                            = [diff |-> files[id].diff, auto |-> files[id].auto, status |-> s]
      OBVIOUS
    <2>1. files[id] = [diff |-> files[id].diff, auto |-> files[id].auto, status |-> files[id].status]
      BY DEF FilesKept, IsFile
    <2>2. \A d, a, t : [[diff |-> d, auto |-> a, status |-> t] EXCEPT !.status = s]
                           = [diff |-> d, auto |-> a, status |-> s]
      OBVIOUS
    <2> QED BY ONLY <2>1, <2>2, Zenon
  <1>3. id \notin DOMAIN files => f = [diff |-> <<>>, auto |-> FALSE, status |-> s]
    OBVIOUS
  <1> HIDE DEF f
  <1>4. IsFile(f) /\ DeployedLow(f)
    <2>1. CASE id \in DOMAIN files
      BY <1>2, <2>1 DEF IsFile, DeployedLow
    <2>2. CASE id \notin DOMAIN files
      BY <1>3, <2>2 DEF IsFile, DeployedLow
    <2> QED BY <2>1, <2>2
  <1>5. id \in DOMAIN files => f.auto = files[id].auto /\ f.diff = files[id].diff
    BY <1>2
  <1>6. /\ DOMAIN files' = DOMAIN files \cup {id}
        /\ files'[id] = f
        /\ \A i \in DOMAIN files \ {id} : files'[i] = files[i]
    <2>1. files' = [i \in DOMAIN files \cup {id} |-> IF i = id THEN f ELSE files[i]]
      BY ONLY <1>1 DEF Filed
    <2> QED BY ONLY <2>1
  <1>7. \A i \in DOMAIN files' : IsFile(files'[i]) /\ DeployedLow(files'[i])
    BY <1>4, <1>6 DEF FilesKept
  <1>8. DOMAIN files' \subseteq Ids
    BY <1>6 DEF FilesKept
  <1>9. FilesKept'
    BY <1>7, <1>8 DEF FilesKept, Ids, IsFile, DeployedLow
  <1> QED BY <1>5, <1>6, <1>9

\* The initial state of the evolver satisfies its invariant.
LEMMA EvolverBegins == EvolverInit => EvolverInductive
  <1> SUFFICES ASSUME EvolverInit PROVE EvolverInductive
    OBVIOUS
  <1>1. SettingsKept
    BY EvolverAssumption DEF EvolverInit, Keys, ReadValue, Value, PositionsKept, SettingsKept
  <1>2. FilesKept
    <2>1. DOMAIN files = {}
      BY EmptySeq DEF EvolverInit
    <2> QED BY <2>1 DEF FilesKept
  <1>3. QueueKept
    BY EmptySeq, EvolverAssumption DEF EvolverInit, QueueKept
  <1>4. InHand
    BY DEF EvolverInit, InHand
  <1> QED BY <1>1, <1>2, <1>3, <1>4 DEF EvolverInductive

\* When the proposal at the head is done, none is in hand.
LEMMA DoneKeeps ==
    ASSUME QueueKept, stage # "idle", Done, reviews' = reviews
    PROVE  QueueKept' /\ InHand'
  <1>1. queue \in Seq(Asked) /\ queue # <<>>
    BY DEF QueueKept
  <1>2. queue' \in Seq(Asked) /\ (stage' = IF queue' = <<>> THEN "idle" ELSE "next")
    BY <1>1, HeadAsked DEF Done
  <1>3. QueueKept'
    BY <1>2 DEF QueueKept, Asked
  <1>4. InHand'
    BY <1>2 DEF InHand
  <1> QED BY <1>3, <1>4

\* Filing the first proposal, with its rails and deduplication, keeps the evolver's
\* invariant.
LEMMA FileKeeps ==
    ASSUME EvolverInductive, File
    PROVE  EvolverInductive'
  <1> DEFINE p == Head(queue)
  <1>1. /\ stage = "next" /\ ~Invalid(p.diff)
        /\ settings' = settings /\ cutOff' = cutOff /\ reviews' = reviews
        /\ queue \in Seq(Asked) /\ queue # <<>>
    BY DEF File, EvolverInductive, QueueKept
  <1>2. p \in Asked
    BY <1>1, HeadAsked
  <1>3. /\ DOMAIN files' = DOMAIN files \cup {p.id}
        /\ \A i \in DOMAIN files \ {p.id} : files'[i] = files[i]
        /\ files'[p.id].diff = p.diff /\ files'[p.id].status = "pending"
        /\ files'[p.id] = [diff |-> files'[p.id].diff, auto |-> files'[p.id].auto, status |-> files'[p.id].status]
        /\ ~HighRisk(p.diff) => files'[p.id].auto = TRUE
    <2> DEFINE low == ~HighRisk(p.diff)
               f == [diff |-> p.diff, auto |-> low, status |-> "pending"]
    <2>1. files' = Filed(p.id, f)
      BY DEF File
    <2>2. f.diff = p.diff /\ f.status = "pending" /\ f.auto = low
      BY ONLY Zenon
    <2>3. f = [diff |-> f.diff, auto |-> f.auto, status |-> f.status]
      BY ONLY <2>2, Zenon
    <2>4. ~HighRisk(p.diff) => low = TRUE
      OBVIOUS
    <2> HIDE DEF f, low, p
    <2>5. files' = [i \in DOMAIN files \cup {p.id} |-> IF i = p.id THEN f ELSE files[i]]
      BY ONLY <2>1 DEF Filed
    <2>6. /\ DOMAIN files' = DOMAIN files \cup {p.id}
          /\ \A i \in DOMAIN files \ {p.id} : files'[i] = files[i]
          /\ files'[p.id] = f
      BY ONLY <2>5
    <2> QED BY ONLY <2>2, <2>3, <2>4, <2>6, Zenon
  <1>4. FilesKept'
    <2>1. p.id \in Ids
      BY <1>2, ProposalsAsked
    <2>2. DOMAIN files' \subseteq Ids
      BY <1>3, <2>1 DEF EvolverInductive, FilesKept
    <2>3. \A i \in DOMAIN files' : IsFile(files'[i]) /\ DeployedLow(files'[i])
      <3>1. IsFile(files'[p.id]) /\ DeployedLow(files'[p.id])
        BY <1>3 DEF IsFile, DeployedLow, Statuses
      <3> QED BY <1>3, <3>1 DEF EvolverInductive, FilesKept
    <2> QED BY <2>2, <2>3 DEF FilesKept, Ids, IsFile, DeployedLow
  <1>5. CASE HighRisk(p.diff)
    <2>1. Done
      BY <1>5 DEF File
    <2>2. QueueKept' /\ InHand'
      BY <1>1, <2>1, DoneKeeps DEF EvolverInductive
    <2> QED BY <1>1, <1>4, <2>2, SettingsStay DEF EvolverInductive
  <1>6. CASE ~HighRisk(p.diff)
    <2>1. stage' = "apply" /\ queue' = queue
      BY <1>6 DEF File
    <2>2. QueueKept'
      BY <1>1, <2>1 DEF EvolverInductive, QueueKept, Asked
    <2>3. Harmless(p.diff) /\ \A k \in DOMAIN p.diff : ~TooBig(k, p.diff[k])
      BY <1>1, <1>2, <1>6, LowIsHarmless
    <2>4. InHand'
      <3>1. p.id \in DOMAIN files' /\ files'[p.id].auto = TRUE /\ files'[p.id].diff = p.diff
        BY <1>3, <1>6
      <3> QED BY ONLY <1>1, <2>1, <2>3, <3>1, Zenon DEF InHand, Harmless, TooBig, Number, Keys
    <2> QED BY <1>1, <1>4, <2>2, <2>4, SettingsStay DEF EvolverInductive
  <1> QED BY <1>5, <1>6

\* What the file says with the changes of the proposal in hand.
LEMMA WhatIsWritten ==
    ASSUME EvolverInductive, stage = "apply", NEW ones \in LastOnes(Head(queue).diff)
    PROVE  LET diff == Head(queue).diff
               text == Rewritten(diff, ones) IN
           /\ text \in [Keys -> ReadValue]
           /\ \A s \in Keys :
                \/ text[s] = settings[s]
                \/ \E k \in DOMAIN diff : k \in Keys /\ Leaf[k] = Leaf[s] /\ text[s] = diff[k]
  <1> DEFINE diff == Head(queue).diff
             text == Rewritten(diff, ones)
  <1>1. /\ queue \in Seq(Asked) /\ queue # <<>> /\ settings \in [Keys -> ReadValue]
        /\ DOMAIN diff \subseteq Keys
    BY DEF EvolverInductive, SettingsKept, QueueKept, InHand, Harmless
  <1>2. diff \in [DOMAIN diff -> Value]
    BY <1>1, HeadAsked, ProposalsAsked
  <1>3. ones \subseteq DOMAIN diff
    BY DEF LastOnes
  <1>4. text = [s \in Keys |-> IF \E k \in ones : LineOf(k) = s
                              THEN diff[CHOOSE k \in ones : LineOf(k) = s] ELSE settings[s]]
    BY DEF Rewritten
  <1> HIDE DEF diff, text
  <1>5. ASSUME NEW s \in Keys
        PROVE  \/ text[s] = settings[s]
               \/ \E k \in DOMAIN diff : k \in Keys /\ Leaf[k] = Leaf[s] /\ text[s] = diff[k]
    <2>1. CASE ~\E k \in ones : LineOf(k) = s
      BY <1>4, <2>1
    <2>2. CASE \E k \in ones : LineOf(k) = s
      <3> DEFINE k == CHOOSE k \in ones : LineOf(k) = s
      <3>1. k \in ones /\ LineOf(k) = s
        BY ONLY <2>2, Zenon
      <3>2. text[s] = diff[k]
        BY <1>4, <2>2
      <3> HIDE DEF k
      <3>3. k \in DOMAIN diff /\ k \in Keys
        BY <1>1, <1>3, <3>1
      <3>4. Leaf[k] = Leaf[s]
        BY <3>1, <3>3, LineHasName
      <3> QED BY <3>2, <3>3, <3>4
    <2> QED BY <2>1, <2>2
  <1>6. text \in [Keys -> ReadValue]
    <2>1. text = [s \in Keys |-> text[s]]
      BY ONLY <1>4
    <2>2. \A s \in Keys : text[s] \in ReadValue
      BY <1>1, <1>2, <1>5 DEF ReadValue
    <2> QED BY ONLY <2>1, <2>2
  <1> QED BY <1>5, <1>6 DEF diff, text

\* Writing a proposal's change to the file keeps the evolver's invariant.
LEMMA ApplyKeeps ==
    ASSUME EvolverInductive, Apply
    PROVE  EvolverInductive'
  <1>1. /\ stage = "apply" /\ stage' = "mark" /\ files' = files /\ queue' = queue
        /\ reviews' = reviews /\ cutOff' = cutOff
    BY DEF Apply
  <1>2. PICK ones \in LastOnes(Head(queue).diff) : settings' = Rewritten(Head(queue).diff, ones)
    BY DEF Apply
  <1>3. /\ settings' \in [Keys -> ReadValue]
        /\ \A s \in Keys :
             \/ settings'[s] = settings[s]
             \/ \E k \in DOMAIN Head(queue).diff :
                   k \in Keys /\ Leaf[k] = Leaf[s] /\ settings'[s] = Head(queue).diff[k]
    BY <1>1, <1>2, WhatIsWritten
  <1>4. \A k \in DOMAIN Head(queue).diff : Leaf[k] # "max_open_positions"
    BY <1>1 DEF EvolverInductive, InHand, Harmless
  <1>5. SettingsKept'
    BY <1>1, <1>3, <1>4 DEF EvolverInductive, SettingsKept, PositionsKept, Keys, ReadValue, Value
  <1>6. QueueKept'
    BY <1>1 DEF EvolverInductive, QueueKept, Asked
  <1>7. InHand'
    BY <1>1 DEF EvolverInductive, InHand, Harmless, Keys
  <1>8. FilesKept'
    BY <1>1 DEF EvolverInductive, FilesKept, IsFile, DeployedLow, Ids
  <1> QED BY <1>5, <1>6, <1>7, <1>8 DEF EvolverInductive

\* A write that is cut off: the lines it has finished are as they would be after it.
LEMMA WhatIsTorn ==
    ASSUME EvolverInductive, TearFile
    PROVE  \E ones \in LastOnes(Head(queue).diff) :
             /\ settings' \in [Keys -> ReadValue]
             /\ cutOff \subseteq cutOff' /\ cutOff' \subseteq Keys
             /\ \A s \in Keys \ cutOff' : settings'[s] = Rewritten(Head(queue).diff, ones)[s]
  <1> DEFINE diff == Head(queue).diff
  <1>1. PICK ones \in LastOnes(diff), n \in 0..(Len(Lines) - 1) :
            LET whole == {Lines[i] : i \in 1..n}
                text  == Rewritten(diff, ones)
            IN  \E piece \in CutLine(text[Lines[n + 1]]) :
                  /\ settings' = [s \in Keys |-> IF s \in whole THEN text[s]
                                                 ELSE IF s = Lines[n + 1] THEN piece ELSE Missing]
                  /\ cutOff' = cutOff \cup (Keys \ whole)
    BY DEF TearFile
  <1> DEFINE whole == {Lines[i] : i \in 1..n}
             text  == Rewritten(diff, ones)
  <1>2. PICK piece \in CutLine(text[Lines[n + 1]]) :
            /\ settings' = [s \in Keys |-> IF s \in whole THEN text[s]
                                           ELSE IF s = Lines[n + 1] THEN piece ELSE Missing]
            /\ cutOff' = cutOff \cup (Keys \ whole)
    BY <1>1
  <1>3. stage = "apply" /\ cutOff \subseteq Keys
    BY DEF TearFile, EvolverInductive, SettingsKept
  <1>4. text \in [Keys -> ReadValue]
    BY <1>3, WhatIsWritten
  <1>5. Lines[n + 1] \in Keys
    BY EvolverAssumption, LenProperties DEF Keys, ToSet
  <1>6. piece \in ReadValue
    <2>1. text[Lines[n + 1]] \in ReadValue
      BY <1>4, <1>5
    <2> DEFINE v == text[Lines[n + 1]]
    <2>2. piece \in CutLine(v) /\ v \in ReadValue
      BY <1>2, <2>1
    <2> HIDE DEF v
    <2>3. CASE Number(v)
      <3>1. v \in Int
        BY <2>2, <2>3 DEF Number, ReadValue, Value
      <3>2. v \div 10 \in Int
        BY <3>1
      <3>3. piece \in {Text, Missing, v \div 10}
        BY <2>2, <2>3 DEF CutLine
      <3> QED BY <3>2, <3>3 DEF ReadValue, Value
    <2>4. CASE ~Number(v)
      BY <2>2, <2>4 DEF CutLine, ReadValue, Value
    <2> QED BY <2>3, <2>4
  <1> HIDE DEF whole, text, diff
  <1>7. settings' \in [Keys -> ReadValue]
    BY <1>2, <1>4, <1>6 DEF ReadValue
  <1>8. cutOff \subseteq cutOff' /\ cutOff' \subseteq Keys
    BY <1>2, <1>3
  <1>9. \A s \in Keys \ cutOff' : settings'[s] = text[s]
    BY <1>2
  <1> QED BY <1>1, <1>7, <1>8, <1>9 DEF text, diff

\* A write that is cut off keeps the evolver's invariant.
LEMMA TearKeeps ==
    ASSUME EvolverInductive, TearFile
    PROVE  EvolverInductive'
  <1>1. /\ stage = "apply" /\ stage' = "idle" /\ files' = files /\ queue' = <<>>
        /\ reviews' = reviews
    BY DEF TearFile
  <1>2. PICK ones \in LastOnes(Head(queue).diff) :
             /\ settings' \in [Keys -> ReadValue]
             /\ cutOff \subseteq cutOff' /\ cutOff' \subseteq Keys
             /\ \A s \in Keys \ cutOff' : settings'[s] = Rewritten(Head(queue).diff, ones)[s]
    BY WhatIsTorn
  <1>3. \A s \in Keys \ cutOff' :
             \/ settings'[s] = settings[s]
             \/ \E k \in DOMAIN Head(queue).diff :
                   k \in Keys /\ Leaf[k] = Leaf[s] /\ settings'[s] = Head(queue).diff[k]
    BY <1>1, <1>2, WhatIsWritten
  <1>4. \A k \in DOMAIN Head(queue).diff : Leaf[k] # "max_open_positions"
    BY <1>1 DEF EvolverInductive, InHand, Harmless
  <1>5. SettingsKept'
    BY <1>2, <1>3, <1>4 DEF EvolverInductive, SettingsKept, PositionsKept, Keys, ReadValue, Value
  <1>6. QueueKept' /\ InHand'
    BY <1>1, EmptySeq DEF EvolverInductive, QueueKept, InHand, Asked
  <1>7. FilesKept'
    BY <1>1 DEF EvolverInductive, FilesKept, IsFile, DeployedLow, Ids
  <1> QED BY <1>5, <1>6, <1>7 DEF EvolverInductive

\* Marking the filed change as applied keeps the evolver's invariant.
LEMMA MarkKeeps ==
    ASSUME EvolverInductive, Mark
    PROVE  EvolverInductive'
  <1>1. /\ stage = "mark" /\ Done /\ settings' = settings /\ cutOff' = cutOff /\ reviews' = reviews
        /\ files' = WithStatus(Head(queue).id, "deployed")
    BY DEF Mark
  <1>2. Head(queue).id \in DOMAIN files
    BY <1>1 DEF EvolverInductive, InHand
  <1>3. Head(queue).id \in Ids /\ "deployed" \in Statuses /\ FilesKept
    BY <1>2 DEF EvolverInductive, FilesKept, Statuses
  <1>4. files[Head(queue).id].auto = TRUE /\ Cardinality(DOMAIN files[Head(queue).id].diff) \in 1..2
    BY <1>1 DEF EvolverInductive, InHand, Harmless
  <1>5. FilesKept'
    BY <1>1, <1>2, <1>3, <1>4, StatusWritten
  <1>6. QueueKept' /\ InHand'
    BY <1>1, DoneKeeps DEF EvolverInductive
  <1> QED BY <1>1, <1>5, <1>6, SettingsStay DEF EvolverInductive

\* Rejecting a proposal keeps the evolver's invariant.
LEMMA RejectKeeps ==
    ASSUME EvolverInductive, Reject
    PROVE  EvolverInductive'
  <1>1. /\ stage = "next" /\ Done /\ settings' = settings /\ cutOff' = cutOff /\ reviews' = reviews
        /\ files' = WithStatus(Head(queue).id, "rejected")
    BY DEF Reject
  <1>2. queue \in Seq(Asked) /\ queue # <<>>
    BY <1>1 DEF EvolverInductive, QueueKept
  <1>3. Head(queue).id \in Ids /\ "rejected" \in Statuses /\ FilesKept
    BY <1>2, HeadAsked, ProposalsAsked DEF EvolverInductive, Statuses
  <1>4. FilesKept'
    BY <1>1, <1>3, StatusWritten
  <1>5. QueueKept' /\ InHand'
    BY <1>1, DoneKeeps DEF EvolverInductive
  <1> QED BY <1>1, <1>4, <1>5, SettingsStay DEF EvolverInductive

\* The operator's verdict on a pending change keeps the evolver's invariant.
LEMMA HumanKeeps ==
    ASSUME EvolverInductive, HumanDecides
    PROVE  EvolverInductive'
  <1>1. PICK id \in DOMAIN files, s \in {"approved", "rejected"} : files' = WithStatus(id, s)
    BY DEF HumanDecides
  <1>2. settings' = settings /\ cutOff' = cutOff /\ queue' = queue /\ stage' = stage /\ reviews' = reviews
    BY DEF HumanDecides
  <1>3. id \in Ids /\ s \in Statuses /\ s # "deployed" /\ FilesKept
    BY <1>1 DEF EvolverInductive, FilesKept, Statuses
  <1>4. /\ FilesKept'
        /\ DOMAIN files \subseteq DOMAIN files'
        /\ \A i \in DOMAIN files : files'[i].auto = files[i].auto /\ files'[i].diff = files[i].diff
    BY <1>1, <1>3, StatusWritten
  <1>5. InHand'
    BY <1>2, <1>4 DEF EvolverInductive, InHand, Harmless, TooBig
  <1>6. QueueKept'
    BY <1>2 DEF EvolverInductive, QueueKept, Asked
  <1> QED BY <1>2, <1>4, <1>5, <1>6, SettingsStay DEF EvolverInductive

\* Every state of the evolver satisfies its inductive invariant.
THEOREM EvolverAlwaysInductive == EvolverSpec => []EvolverInductive
  <1>1. EvolverInductive /\ [EvolverNext]_evolverVars => EvolverInductive'
    <2> SUFFICES ASSUME EvolverInductive, [EvolverNext]_evolverVars PROVE EvolverInductive'
      OBVIOUS
    <2>1. CASE Review
      <3>1. /\ stage' = "next" /\ settings' = settings /\ cutOff' = cutOff /\ files' = files
            /\ reviews \in Nat /\ reviews' = reviews + 1 /\ reviews < MaxReviews /\ MaxReviews \in Nat
        BY <2>1, EvolverAssumption DEF Review, EvolverInductive, QueueKept
      <3>2. PICK a \in Answers : a # <<>> /\ queue' = a
        BY <2>1 DEF Review
      <3>3. QueueKept'
        BY <3>1, <3>2, AnswersAsked DEF QueueKept, Asked
      <3>4. InHand'
        BY <3>1 DEF InHand
      <3> QED BY <3>1, <3>3, <3>4, SettingsStay
             DEF EvolverInductive, FilesKept, IsFile, DeployedLow, Ids
    <2>2. CASE Stop
      <3>1. stage' = "idle" /\ queue' = <<>> /\ settings' = settings /\ cutOff' = cutOff /\ files' = files /\ reviews' = reviews
        BY <2>2 DEF Stop
      <3>2. QueueKept' /\ InHand'
        BY <3>1, EmptySeq DEF EvolverInductive, QueueKept, InHand, Asked
      <3> QED BY <3>1, <3>2, SettingsStay
             DEF EvolverInductive, FilesKept, IsFile, DeployedLow, Ids
    <2>3. CASE UNCHANGED evolverVars
      BY <2>3, SettingsStay
         DEF evolverVars, EvolverInductive, FilesKept, IsFile, DeployedLow, Ids,
             QueueKept, Asked, InHand, Harmless, TooBig, Keys
    <2> QED BY <2>1, <2>2, <2>3, RejectKeeps, FileKeeps, ApplyKeeps, TearKeeps, MarkKeeps, HumanKeeps DEF EvolverNext
  <1> QED BY <1>1, EvolverBegins, PTL DEF EvolverSpec

\* No proposal changes the number of positions, also in the presets, whatever is
\* proposed under whatever id, stopped midway or decided by a human, and what is
\* on file as deployed was rated low and has two keys at most
\* (agent/evolver.py:224-256).
THEOREM RailsAlwaysHold == EvolverSpec => []RailsHold
  <1>1. EvolverInductive => RailsHold
    <2> SUFFICES ASSUME EvolverInductive PROVE RailsHold
      OBVIOUS
    <2>1. ASSUME NEW i \in DOMAIN files, files[i].status = "deployed"
          PROVE  files[i].auto /\ Cardinality(DOMAIN files[i].diff) \in 1..2
      <3>1. files[i].auto = TRUE /\ Cardinality(DOMAIN files[i].diff) \in 1..2
        BY <2>1 DEF EvolverInductive, FilesKept, DeployedLow
      <3> QED BY ONLY <3>1, Zenon
    <2>2. DeployedWasLow
      BY ONLY <2>1, Zenon DEF DeployedWasLow
    <2> QED BY <2>2 DEF EvolverInductive, SettingsKept, RailsHold
  <1> QED BY <1>1, EvolverAlwaysInductive, PTL

\* A change of the file, whole or cut off, is that of the proposal in hand.
LEMMA ChangeIsOfProposal ==
    ASSUME EvolverInductive, [EvolverNext]_evolverVars, settings' # settings
    PROVE  /\ stage = "apply"
           /\ \E ones \in LastOnes(Head(queue).diff) :
                \A s \in Keys \ cutOff' : settings'[s] = Rewritten(Head(queue).diff, ones)[s]
  <1>1. Apply \/ TearFile
    BY DEF EvolverNext, evolverVars, Review, Reject, File, Mark, Stop, HumanDecides
  <1>2. stage = "apply"
    BY <1>1 DEF Apply, TearFile
  <1>3. CASE Apply
    BY <1>2, <1>3 DEF Apply
  <1>4. CASE TearFile
    BY <1>2, <1>4, WhatIsTorn
  <1> QED BY <1>1, <1>3, <1>4

\* A line that is not changed has changed by less than a fifth.
LEMMA NoChange == ASSUME NEW v \in Int PROVE ByAFifth(v, v)
  BY DEF ByAFifth, Distance

\* A change of the settings is on file before it is made, with the very diff, and,
\* of a setting whose name no other line has, it is by a fifth at most
\* (agent/evolver.py:96-133 and 262-312).
THEOREM ChangesAlwaysTracked == EvolverSpec => ChangesAreTracked
  <1>1. EvolverInductive /\ [EvolverNext]_evolverVars
            => [settings' # settings =>
                  LET p == Head(queue) IN
                  /\ p.id \in DOMAIN files
                  /\ files[p.id].auto /\ files[p.id].diff = p.diff]_evolverVars
    <2> SUFFICES ASSUME EvolverInductive, [EvolverNext]_evolverVars, settings' # settings
                 PROVE  /\ Head(queue).id \in DOMAIN files
                        /\ files[Head(queue).id].auto
                        /\ files[Head(queue).id].diff = Head(queue).diff
      OBVIOUS
    <2>1. stage = "apply"
      BY ChangeIsOfProposal
    <2>2. /\ Head(queue).id \in DOMAIN files
          /\ files[Head(queue).id].auto = TRUE
          /\ files[Head(queue).id].diff = Head(queue).diff
      BY <2>1 DEF EvolverInductive, InHand
    <2> QED BY ONLY <2>2, Zenon
  <1>2. EvolverInductive /\ [EvolverNext]_evolverVars
            => [settings' # settings => \A l \in Keys \ cutOff' :
                  /\ \A k \in Keys \ {l} : Leaf[k] # Leaf[l]
                  /\ Number(settings[l]) /\ settings[l] # 0 /\ Number(settings'[l])
                  => ByAFifth(settings[l], settings'[l])]_evolverVars
    <2> DEFINE diff == Head(queue).diff
    <2> SUFFICES ASSUME EvolverInductive, [EvolverNext]_evolverVars, settings' # settings,
                        NEW l \in Keys \ cutOff', \A k \in Keys \ {l} : Leaf[k] # Leaf[l],
                        Number(settings[l]), settings[l] # 0, Number(settings'[l])
                 PROVE  ByAFifth(settings[l], settings'[l])
      OBVIOUS
    <2>1. PICK ones \in LastOnes(diff) :
             \A s \in Keys \ cutOff' : settings'[s] = Rewritten(diff, ones)[s]
      BY ChangeIsOfProposal
    <2>2. stage = "apply"
      BY ChangeIsOfProposal
    <2>3. \/ settings'[l] = settings[l]
          \/ \E k \in DOMAIN diff : k \in Keys /\ Leaf[k] = Leaf[l] /\ settings'[l] = diff[k]
      BY <2>1, <2>2, WhatIsWritten
    <2>4. settings[l] \in Int
      BY DEF EvolverInductive, SettingsKept, ReadValue, Value, Number
    <2>5. CASE settings'[l] = settings[l]
      BY <2>4, <2>5, NoChange
    <2>6. CASE \E k \in DOMAIN diff : k \in Keys /\ Leaf[k] = Leaf[l] /\ settings'[l] = diff[k]
      <3>1. l \in DOMAIN diff /\ settings'[l] = diff[l]
        BY <2>6
      <3>2. ~TooBig(l, diff[l])
        BY <2>2, <3>1 DEF EvolverInductive, InHand
      <3> HIDE DEF diff
      <3>3. ~(100 * Distance(diff[l], settings[l]) > 20 * Distance(settings[l], 0))
        BY <3>1, <3>2 DEF TooBig, MAX_RELATIVE_CHANGE
      <3>4. diff[l] \in Int
        <4>1. queue \in Seq(Asked) /\ queue # <<>>
          BY <2>2 DEF EvolverInductive, QueueKept
        <4>2. diff \in [DOMAIN diff -> Value]
          BY <4>1, HeadAsked, ProposalsAsked DEF diff
        <4>3. diff[l] \in Value /\ Number(diff[l])
          BY <3>1, <4>2
        <4> QED BY <4>3 DEF Value, Number
      <3> QED BY <2>4, <3>1, <3>3, <3>4 DEF ByAFifth, Distance
    <2> QED BY <2>3, <2>5, <2>6
  <1> QED BY <1>1, <1>2, EvolverAlwaysInductive, PTL
         DEF EvolverSpec, ChangesAreTracked, RecordedFirst, OwnNameByAFifth

\* Settings, files and the review at work keep their types.
THEOREM EvolverTypeCorrect == EvolverSpec => []EvolverTypeOK
  <1>1. EvolverInductive => EvolverTypeOK
    <2> SUFFICES ASSUME EvolverInductive PROVE EvolverTypeOK
      OBVIOUS
    <2>1. \A k \in Keys : settings[k] \in Int \cup {NaN, Text, Missing}
      BY DEF EvolverInductive, SettingsKept, ReadValue, Value
    <2>2. \A i \in DOMAIN files : files[i].status \in {"pending", "approved", "rejected", "deployed"}
      BY DEF EvolverInductive, FilesKept, IsFile, Statuses
    <2> QED BY <2>1, <2>2 DEF EvolverInductive, SettingsKept, EvolverTypeOK, FilesKept, QueueKept
  <1> QED BY <1>1, EvolverAlwaysInductive, PTL


------------------------------------------------------------------------------
(* The scheduler, for any jobs and any time they take. *)

\* What p jobs may take.
Took(p) == p * MaxLong

\* Every job has had its turn in the pass, or its turn is still to come.
Visited(j) == place = 0 \/ j < place

\* A job nobody has paused or resumed since it last ran.
LeftAlone(j) == ~jobPaused[j] /\ j \notin resumed

\* The next run of a job that has run follows from its last one.
NextFollows == \A j \in J : last[j] # 0 => next[j] = ComputeNext(j, last[j], 1)

\* The job that runs was due when the pass began.
RunsWhenDue == began # NoJob => place # 0 /\ (last[place] # 0 => next[place] <= start)

\* The pass has taken no longer than the jobs it has run.
PassIsBounded ==
    /\ place = 0 => clock - start <= Took(N) + 1
    /\ place = 0 /\ ~waited => clock - start <= Took(N)
    /\ place # 0 /\ began = NoJob => clock - start <= Took(place - 1)
    /\ began # NoJob => began - start <= Took(place - 1) /\ clock - began <= MaxLong

\* After its turn a job is due after the beginning of the pass; before its turn
\* it is late by one pass at most.
TurnsKept ==
    \A j \in J : LeftAlone(j) =>
        IF Visited(j) THEN next[j] > start ELSE start - next[j] <= Took(N)

SchedulerInductive ==
    /\ SchedulerTypeOK /\ NextFollows /\ RunsWhenDue /\ PassIsBounded /\ TurnsKept /\ Spaced

\* A job more adds at most one longest job to the time a pass has taken.
LEMMA TookAdds ==
    ASSUME NEW p \in Nat
    PROVE  /\ Took(p) \in Nat /\ Took(p + 1) = Took(p) + MaxLong
           /\ MaxLong \in Nat
  <1>1. MaxLong \in Nat
    BY JobsAssumption
  <1>2. p * MaxLong \in Nat /\ (p + 1) * MaxLong = p * MaxLong + MaxLong
    BY <1>1
  <1> QED BY <1>1, <1>2 DEF Took

\* A pass that is further on may have taken longer.
LEMMA TookGrows ==
    ASSUME NEW p \in Nat, NEW q \in Nat, p <= q
    PROVE  Took(p) <= Took(q)
  <1>1. MaxLong \in Nat
    BY JobsAssumption
  <1>2. PICK d \in Nat : q = p + d
    <2>1. q - p \in Nat /\ q = p + (q - p)
      OBVIOUS
    <2> QED BY <2>1
  <1>3. (p + d) * MaxLong = p * MaxLong + d * MaxLong /\ d * MaxLong \in Nat /\ p * MaxLong \in Nat
    BY <1>1
  <1> QED BY <1>1, <1>2, <1>3 DEF Took

\* What the assumption on the jobs says, with the set of jobs written out.
LEMMA SomeJobs == N \in Nat \ {0} /\ J = 1..N /\ Jobs \in [J -> Nat] /\ Day \in Nat \ {0} /\ DailyAt \in 0..Day - 1
  <1>1. N \in Nat /\ Jobs \in [1..N -> Nat]
    BY JobsAssumption, LenProperties DEF N
  <1>2. N # 0
    BY JobsAssumption, EmptySeq, LenProperties DEF N
  <1> QED BY <1>1, <1>2, JobsAssumption DEF J

\* A day's slot is at its time of day.
LEMMA SlotOfDay ==
    ASSUME NEW q \in Nat
    PROVE  q * Day + DailyAt \in Nat /\ (q * Day + DailyAt) % Day = DailyAt
  <1> DEFINE x == q * Day + DailyAt
             d == x \div Day
             m == x % Day
  <1>1. Day \in Nat /\ Day > 0 /\ DailyAt \in Nat /\ DailyAt < Day
    BY SomeJobs
  <1>2. x \in Nat
    BY <1>1
  <1>3. d \in Int /\ m \in Int /\ x = Day * d + m /\ 0 <= m /\ m < Day
    BY <1>1, <1>2
  <1>4. x = q * Day + DailyAt
    OBVIOUS
  <1> HIDE DEF x, d, m
  <1>5. CASE d < q
    <2>1. Day * (q - d) >= Day
      BY <1>1, <1>3, <1>5
    <2>2. Day * (q - d) = Day * q - Day * d /\ Day * q = q * Day
      BY <1>1, <1>3
    <2> QED BY <2>1, <2>2, <1>1, <1>3, <1>4
  <1>6. CASE d > q
    <2>1. Day * (d - q) >= Day
      BY <1>1, <1>3, <1>6
    <2>2. Day * (d - q) = Day * d - Day * q /\ Day * q = q * Day
      BY <1>1, <1>3
    <2> QED BY <2>1, <2>2, <1>1, <1>3, <1>4
  <1>7. CASE d = q
    BY <1>1, <1>3, <1>4, <1>7 DEF x, m
  <1> QED BY <1>2, <1>3, <1>5, <1>6, <1>7 DEF x

\* The next run lies after what it is computed from, by the whole interval or
\* at the time of day.
LEMMA NextIsLater ==
    ASSUME NEW j \in J, NEW r \in Nat, NEW t \in Nat, NEW base \in Nat,
           base = IF r = 0 THEN t ELSE r
    PROVE  /\ ComputeNext(j, r, t) \in Nat
           /\ ComputeNext(j, r, t) > base
           /\ Jobs[j] # 0 => ComputeNext(j, r, t) = base + Jobs[j]
           /\ Jobs[j] = 0 => ComputeNext(j, r, t) % Day = DailyAt
  <1>1. Jobs[j] \in Nat /\ Day \in Nat /\ Day > 0 /\ DailyAt \in Nat /\ DailyAt < Day
    BY SomeJobs
  <1> DEFINE q == base \div Day
  <1>2. CASE Jobs[j] # 0
    BY <1>1, <1>2 DEF ComputeNext
  <1>3. CASE Jobs[j] = 0
    <2>1. q \in Nat /\ base - q * Day < Day /\ q * Day <= base
      BY <1>1
    <2>2. ComputeNext(j, r, t) = IF q * Day + DailyAt <= base THEN q * Day + DailyAt + Day
                                 ELSE q * Day + DailyAt
      BY <1>3 DEF ComputeNext
    <2> HIDE DEF q
    <2>3. (q + 1) * Day + DailyAt = q * Day + DailyAt + Day /\ q * Day + DailyAt \in Nat
      BY <1>1, <2>1
    <2>4. (q * Day + DailyAt) % Day = DailyAt /\ ((q + 1) * Day + DailyAt) % Day = DailyAt
      BY <2>1, SlotOfDay
    <2>5. CASE q * Day + DailyAt <= base
      <3>1. ComputeNext(j, r, t) = (q + 1) * Day + DailyAt
        BY <2>2, <2>3, <2>5
      <3>2. (q + 1) * Day + DailyAt \in Nat /\ (q + 1) * Day + DailyAt > base
        BY <1>1, <2>1, <2>3
      <3> QED BY <1>3, <3>1, <3>2, <2>4
    <2>6. CASE ~(q * Day + DailyAt <= base)
      BY <1>1, <1>3, <2>1, <2>2, <2>3, <2>4, <2>6
    <2> QED BY <2>5, <2>6
  <1> QED BY <1>2, <1>3

\* What has run leaves nothing of the time it was asked at.
LEMMA NextOfLast ==
    ASSUME NEW j \in J, NEW r \in Nat \ {0}, NEW t, NEW u
    PROVE  ComputeNext(j, r, t) = ComputeNext(j, r, u)
  BY DEF ComputeNext

\* The next run of a job that has run, and of any job.
LEMMA NextAfterLast ==
    ASSUME NEW j \in J, NEW r \in Nat \ {0}, NEW t \in Nat
    PROVE  /\ ComputeNext(j, r, t) \in Nat
           /\ ComputeNext(j, r, t) > r
           /\ Jobs[j] # 0 => ComputeNext(j, r, t) = r + Jobs[j]
           /\ Jobs[j] = 0 => ComputeNext(j, r, t) % Day = DailyAt
  <1>1. r \in Nat /\ r = IF r = 0 THEN t ELSE r
    OBVIOUS
  <1> QED BY <1>1, NextIsLater

\* The next due time computed for a job is a time.
LEMMA NextIsTime ==
    ASSUME NEW j \in J, NEW r \in Nat, NEW t \in Nat
    PROVE  ComputeNext(j, r, t) \in Nat
  <1> DEFINE base == IF r = 0 THEN t ELSE r
  <1>1. base \in Nat /\ base = IF r = 0 THEN t ELSE r
    OBVIOUS
  <1> HIDE DEF base
  <1> QED BY <1>1, NextIsLater

\* One turn more.
LEMMA TookTurn ==
    ASSUME NEW p \in Nat \ {0}
    PROVE  /\ Took(p - 1) \in Nat /\ Took(p) \in Nat /\ MaxLong \in Nat
           /\ Took(p) = Took(p - 1) + MaxLong
  <1> DEFINE q == p - 1
  <1>1. q \in Nat /\ q + 1 = p
    OBVIOUS
  <1> HIDE DEF q
  <1>2. Took(q) \in Nat /\ Took(q + 1) = Took(q) + MaxLong /\ MaxLong \in Nat
    BY <1>1, TookAdds
  <1>3. Took(p) = Took(q) + MaxLong
    BY ONLY <1>1, <1>2
  <1> QED BY <1>2, <1>3 DEF q

\* The initial state of the scheduler satisfies its invariant.
LEMMA SchedulerBegins == SchedulerInit => SchedulerInductive
  <1> SUFFICES ASSUME SchedulerInit PROVE SchedulerInductive
    OBVIOUS
  <1>1. \A j \in J : ComputeNext(j, 0, 1) \in Nat /\ ComputeNext(j, 0, 1) > 1
    <2>1. 1 \in Nat /\ 1 = IF 0 = 0 THEN 1 ELSE 0
      OBVIOUS
    <2> QED BY <2>1, NextIsLater
  <1>2. SchedulerTypeOK
    <2>1. /\ clock \in 1..MaxTime /\ start \in 1..clock /\ began \in {NoJob} \cup (start..clock)
          /\ last \in [J -> Nat] /\ next \in [J -> Nat] /\ before \in [J -> Nat]
          /\ jobPaused \in [J -> BOOLEAN] /\ place \in 0..N
          /\ resumed \subseteq J
      BY <1>1, SomeJobs, JobsAssumption DEF SchedulerInit
    <2>2. {waited, stopped} \subseteq BOOLEAN
      BY ONLY SchedulerInit, Zenon DEF SchedulerInit
    <2> QED BY ONLY <2>1, <2>2, Zenon DEF SchedulerTypeOK
  <1>3. NextFollows /\ RunsWhenDue
    BY DEF SchedulerInit, NextFollows, RunsWhenDue
  <1>4. PassIsBounded
    BY TookAdds, SomeJobs DEF SchedulerInit, PassIsBounded
  <1>5. TurnsKept
    BY <1>1 DEF SchedulerInit, TurnsKept, Visited
  <1>6. Spaced
    BY DEF SchedulerInit, Spaced
  <1> QED BY <1>2, <1>3, <1>4, <1>5, <1>6 DEF SchedulerInductive

\* What Spaced says of one job.
Apart(j) ==
    before[j] # 0 =>
        IF Jobs[j] # 0 THEN last[j] - before[j] >= Jobs[j]
        ELSE \E t \in before[j] + 1..last[j] : t % Day = DailyAt

\* A run that starts when the job is due is a slot after the one before.
LEMMA RunsApart ==
    ASSUME SchedulerInductive, EndJob
    PROVE  Spaced'
  <1>1. /\ place \in J /\ place \in 1..N /\ start \in Nat /\ start # 0 /\ last[place] \in Nat
        /\ last' = [last EXCEPT ![place] = start]
        /\ before' = [before EXCEPT ![place] = last[place]]
        /\ last \in [J -> Nat] /\ before \in [J -> Nat]
        /\ last[place] # 0 => next[place] <= start /\ next[place] = ComputeNext(place, last[place], 1)
    <2>1. /\ place \in 0..N /\ place # 0 /\ clock \in 1..MaxTime /\ start \in 1..clock
          /\ last \in [J -> Nat] /\ before \in [J -> Nat] /\ (last[place] # 0 => next[place] <= start)
      BY DEF SchedulerInductive, SchedulerTypeOK, RunsWhenDue, EndJob
    <2>2. place \in J /\ place \in 1..N /\ start \in Nat /\ start # 0 /\ last[place] \in Nat
      BY <2>1, SomeJobs
    <2>3. last[place] # 0 => next[place] = ComputeNext(place, last[place], 1)
      BY <2>2 DEF SchedulerInductive, NextFollows
    <2> QED BY <2>1, <2>2, <2>3 DEF EndJob
  <1>2. \A j \in J : Apart(j)
    BY DEF SchedulerInductive, Spaced, Apart
  <1>3. ASSUME NEW j \in J PROVE Apart(j)'
    <2>1. CASE j # place
      BY <1>1, <1>2, <2>1 DEF Apart
    <2>2. CASE j = place
      <3>1. last'[j] = start /\ before'[j] = last[j]
        BY <1>1, <2>2
      <3>2. CASE last[j] = 0
        BY <3>1, <3>2 DEF Apart
      <3>3. CASE last[j] # 0
        <4>1. /\ next[j] \in Nat /\ next[j] > last[j]
              /\ Jobs[j] # 0 => next[j] = last[j] + Jobs[j]
              /\ Jobs[j] = 0 => next[j] % Day = DailyAt
          <5>1. j \in J /\ last[j] \in Nat \ {0} /\ 1 \in Nat /\ next[j] = ComputeNext(j, last[j], 1)
            BY <1>1, <2>2, <3>3
          <5> QED BY ONLY <5>1, NextAfterLast
        <4>2. next[j] <= start /\ last[j] \in Nat /\ Jobs[j] \in Nat
          BY <1>1, <2>2, <3>3, SomeJobs
        <4> QED BY <1>1, <3>1, <4>1, <4>2 DEF Apart
      <3> QED BY <3>2, <3>3
    <2> QED BY <2>1, <2>2
  <1> QED BY <1>3 DEF Spaced, Apart

\* The end of a job, which stamps last_run and the next slot, keeps the scheduler's
\* invariant.
LEMMA EndJobKeeps ==
    ASSUME SchedulerInductive, EndJob
    PROVE  SchedulerInductive'
  <1>1. /\ place \in 1..N /\ J = 1..N /\ N \in Nat /\ began # NoJob /\ began' = NoJob
        /\ place' = (IF place = N THEN 0 ELSE place + 1)
        /\ last' = [last EXCEPT ![place] = start]
        /\ before' = [before EXCEPT ![place] = last[place]]
        /\ next' = [next EXCEPT ![place] = ComputeNext(place, start, clock)]
        /\ resumed' = resumed \ {place}
        /\ clock' = clock /\ jobPaused' = jobPaused /\ start' = start
        /\ waited' = waited /\ stopped' = stopped
    BY SomeJobs DEF SchedulerInductive, SchedulerTypeOK, RunsWhenDue, EndJob, AfterTurn
  <1>2. /\ clock \in 1..MaxTime /\ start \in 1..clock /\ began \in start..clock
        /\ last \in [J -> Nat] /\ next \in [J -> Nat] /\ before \in [J -> Nat]
        /\ jobPaused \in [J -> BOOLEAN] /\ resumed \subseteq J
    BY <1>1 DEF SchedulerInductive, SchedulerTypeOK
  <1>3. /\ ComputeNext(place, start, clock) \in Nat
        /\ ComputeNext(place, start, clock) > start
        /\ ComputeNext(place, start, clock) = ComputeNext(place, start, 1)
        /\ start \in Nat \ {0}
    <2>1. start \in Nat \ {0} /\ clock \in Nat /\ place \in J
      BY <1>1, <1>2
    <2> QED BY <2>1, NextAfterLast, NextOfLast
  <1>4. SchedulerTypeOK'
    <2>1. /\ clock' \in 1..MaxTime /\ start' \in 1..clock' /\ began' \in {NoJob} \cup (start'..clock')
          /\ last' \in [J -> Nat] /\ next' \in [J -> Nat] /\ before' \in [J -> Nat]
          /\ jobPaused' \in [J -> BOOLEAN] /\ place' \in 0..N /\ resumed' \subseteq J
      <3> HIDE DEF J, N
      <3>1. place \in J
        BY <1>1
      <3>2. last[place] \in Nat /\ start \in Nat
        BY <1>2, <1>3, <3>1
      <3>3. last' \in [J -> Nat] /\ next' \in [J -> Nat] /\ before' \in [J -> Nat]
        BY ONLY <1>1, <1>2, <1>3, <3>2
      <3>4. place' \in 0..N
        BY ONLY <1>1
      <3>5. resumed' \subseteq J /\ jobPaused' \in [J -> BOOLEAN]
        BY ONLY <1>1, <1>2
      <3>6. clock' \in 1..MaxTime /\ start' \in 1..clock' /\ began' \in {NoJob} \cup (start'..clock')
        BY ONLY <1>1, <1>2
      <3> QED BY <3>3, <3>4, <3>5, <3>6
    <2>2. {waited', stopped'} \subseteq BOOLEAN
      BY ONLY SchedulerInductive, <1>1, Zenon DEF SchedulerInductive, SchedulerTypeOK
    <2> QED BY ONLY <2>1, <2>2, Zenon DEF SchedulerTypeOK, J, N
  <1>5. NextFollows'
    BY <1>1, <1>2, <1>3 DEF SchedulerInductive, NextFollows
  <1>6. RunsWhenDue'
    BY <1>1 DEF RunsWhenDue
  <1>7. PassIsBounded'
    <2>3. /\ Took(place - 1) \in Nat /\ Took(place) \in Nat /\ MaxLong \in Nat
          /\ Took(place) = Took(place - 1) + MaxLong
      <3>1. place \in Nat \ {0}
        BY <1>1
      <3> QED BY <3>1, TookTurn
    <2>1. clock - start <= Took(place - 1) + MaxLong
      BY <1>1, <1>2, <2>3 DEF SchedulerInductive, PassIsBounded
    <2>4. place + 1 - 1 = place
      BY <1>1
    <2> DEFINE took == Took(place)
    <2>5. clock' - start' <= took /\ took \in Nat /\ began' = NoJob /\ clock' - start' \in Int
      BY <1>1, <1>2, <2>1, <2>3
    <2>6. CASE place = N
      <3>1. place' = 0 /\ took = Took(N)
        BY <1>1, <2>6
      <3> HIDE DEF took
      <3> QED BY <2>5, <3>1 DEF PassIsBounded
    <2>7. CASE place # N
      <3>1. place' # 0 /\ place' - 1 = place
        BY <1>1, <2>7
      <3>2. took = Took(place' - 1)
        BY <3>1
      <3> HIDE DEF took
      <3> QED BY <2>5, <3>1, <3>2 DEF PassIsBounded
    <2> QED BY <2>6, <2>7
  <1>8. TurnsKept'
    <2> SUFFICES ASSUME NEW j \in J, LeftAlone(j)'
                 PROVE  IF Visited(j)' THEN next'[j] > start' ELSE start' - next'[j] <= Took(N)
      BY DEF TurnsKept
    <2>1. CASE j = place
      BY <1>1, <1>2, <1>3, <2>1 DEF Visited
    <2>2. CASE j # place
      <3>1. LeftAlone(j) /\ next'[j] = next[j] /\ start' = start
        BY <1>1, <1>2, <2>2 DEF LeftAlone
      <3>2. Visited(j)' <=> Visited(j)
        BY <1>1, <2>2 DEF Visited
      <3> QED BY <3>1, <3>2 DEF SchedulerInductive, TurnsKept
    <2> QED BY <2>1, <2>2
  <1> QED BY <1>4, <1>5, <1>6, <1>7, <1>8, RunsApart DEF SchedulerInductive

\* Passing over a job that is disabled or not due keeps the scheduler's invariant.
LEMMA SkipJobKeeps ==
    ASSUME SchedulerInductive, SkipJob
    PROVE  SchedulerInductive'
  <1>1. /\ place \in 1..N /\ J = 1..N /\ N \in Nat /\ began = NoJob /\ ~Due(place)
        /\ place' = (IF place = N THEN 0 ELSE place + 1)
        /\ last' = last /\ before' = before /\ next' = next /\ resumed' = resumed
        /\ clock' = clock /\ jobPaused' = jobPaused /\ start' = start
        /\ waited' = waited /\ stopped' = stopped /\ began' = began
    BY SomeJobs DEF SchedulerInductive, SchedulerTypeOK, SkipJob, AfterTurn
  <1>2. /\ clock \in 1..MaxTime /\ start \in 1..clock
        /\ next \in [J -> Nat] /\ jobPaused \in [J -> BOOLEAN]
    BY <1>1 DEF SchedulerInductive, SchedulerTypeOK
  <1>3. SchedulerTypeOK'
    <2>1. place' \in 0..N
      BY <1>1
    <2> QED BY ONLY <1>1, <2>1, SchedulerInductive, Zenon DEF SchedulerInductive, SchedulerTypeOK, J, N
  <1>4. NextFollows' /\ RunsWhenDue' /\ Spaced'
    BY <1>1 DEF SchedulerInductive, NextFollows, RunsWhenDue, Spaced
  <1>5. PassIsBounded'
    <2>1. clock - start <= Took(place - 1)
      BY <1>1 DEF SchedulerInductive, PassIsBounded
    <2>3. /\ Took(place - 1) \in Nat /\ Took(place) \in Nat /\ MaxLong \in Nat
          /\ Took(place) = Took(place - 1) + MaxLong
      <3>1. place \in Nat \ {0}
        BY <1>1
      <3> QED BY <3>1, TookTurn
    <2>4. place + 1 - 1 = place
      BY <1>1
    <2> QED BY <1>1, <1>2, <2>1, <2>3, <2>4 DEF PassIsBounded
  <1>6. TurnsKept'
    <2> SUFFICES ASSUME NEW j \in J, LeftAlone(j)'
                 PROVE  IF Visited(j)' THEN next'[j] > start' ELSE start' - next'[j] <= Took(N)
      BY DEF TurnsKept
    <2>1. LeftAlone(j)
      BY <1>1 DEF LeftAlone
    <2>2. CASE j = place
      BY <1>1, <1>2, <2>1, <2>2 DEF Visited, Due, LeftAlone
    <2>3. CASE j # place
      <3>1. Visited(j)' <=> Visited(j)
        BY <1>1, <2>3 DEF Visited
      <3> QED BY <1>1, <2>1, <3>1 DEF SchedulerInductive, TurnsKept
    <2> QED BY <2>2, <2>3
  <1> QED BY <1>3, <1>4, <1>5, <1>6 DEF SchedulerInductive

\* A new pass of the loop keeps the scheduler's invariant.
LEMMA BeginPassKeeps ==
    ASSUME SchedulerInductive, BeginPass
    PROVE  SchedulerInductive'
  <1>1. /\ place = 0 /\ J = 1..N /\ N \in Nat /\ N # 0 /\ began = NoJob
        /\ place' = 1 /\ start' = clock /\ waited' = FALSE
        /\ last' = last /\ before' = before /\ next' = next /\ resumed' = resumed
        /\ clock' = clock /\ jobPaused' = jobPaused
        /\ stopped' = stopped /\ began' = began
    BY SomeJobs DEF SchedulerInductive, RunsWhenDue, BeginPass
  <1>2. /\ clock \in 1..MaxTime /\ start \in 1..clock /\ next \in [J -> Nat]
        /\ last \in [J -> Nat] /\ before \in [J -> Nat] /\ resumed \subseteq J
        /\ jobPaused \in [J -> BOOLEAN]
    BY <1>1 DEF SchedulerInductive, SchedulerTypeOK
  <1>3. SchedulerTypeOK'
    <2>1. /\ clock' \in 1..MaxTime /\ start' \in 1..clock' /\ began' \in {NoJob} \cup (start'..clock')
          /\ last' \in [J -> Nat] /\ next' \in [J -> Nat] /\ before' \in [J -> Nat]
          /\ jobPaused' \in [J -> BOOLEAN] /\ place' \in 0..N /\ resumed' \subseteq J
      BY <1>1, <1>2
    <2>2. {waited', stopped'} \subseteq BOOLEAN
      BY ONLY SchedulerInductive, <1>1, Zenon DEF SchedulerInductive, SchedulerTypeOK
    <2> QED BY ONLY <2>1, <2>2, Zenon DEF SchedulerTypeOK, J, N
  <1>4. NextFollows' /\ RunsWhenDue' /\ Spaced'
    BY <1>1 DEF SchedulerInductive, NextFollows, RunsWhenDue, Spaced
  <1>5. PassIsBounded'
    <2>1. Took(0) \in Nat
      BY TookAdds
    <2> QED BY <1>1, <1>2, <2>1 DEF PassIsBounded
  <1>6. TurnsKept'
    <2> SUFFICES ASSUME NEW j \in J, LeftAlone(j)'
                 PROVE  IF Visited(j)' THEN next'[j] > start' ELSE start' - next'[j] <= Took(N)
      BY DEF TurnsKept
    <2>1. LeftAlone(j) /\ Visited(j) /\ ~Visited(j)'
      BY <1>1 DEF LeftAlone, Visited
    <2>2. next[j] > start
      BY <2>1 DEF SchedulerInductive, TurnsKept
    <2>3. clock - start <= Took(N) + 1 /\ Took(N) \in Nat
      BY <1>1, TookAdds DEF SchedulerInductive, PassIsBounded
    <2> QED BY <1>1, <1>2, <2>1, <2>2, <2>3
  <1> QED BY <1>3, <1>4, <1>5, <1>6 DEF SchedulerInductive

\* Starting a due job keeps the scheduler's invariant.
LEMMA BeginJobKeeps ==
    ASSUME SchedulerInductive, BeginJob
    PROVE  SchedulerInductive'
  <1>1. /\ place \in 1..N /\ J = 1..N /\ N \in Nat /\ began = NoJob /\ began' = clock /\ Due(place)
        /\ last' = last /\ before' = before /\ next' = next /\ resumed' = resumed
        /\ clock' = clock /\ jobPaused' = jobPaused /\ start' = start /\ place' = place
        /\ waited' = waited /\ stopped' = stopped
    BY SomeJobs DEF SchedulerInductive, SchedulerTypeOK, BeginJob
  <1>2. clock \in 1..MaxTime /\ start \in 1..clock /\ next \in [J -> Nat]
    BY <1>1 DEF SchedulerInductive, SchedulerTypeOK
  <1>3. SchedulerTypeOK'
    <2>1. began' \in {NoJob} \cup (start'..clock')
      BY <1>1, <1>2
    <2> QED BY ONLY <1>1, <2>1, SchedulerInductive, Zenon DEF SchedulerInductive, SchedulerTypeOK, J, N
  <1>4. NextFollows' /\ RunsWhenDue' /\ Spaced'
    BY <1>1, <1>2 DEF SchedulerInductive, NextFollows, RunsWhenDue, Spaced, Due
  <1>5. PassIsBounded'
    <2>1. clock - start <= Took(place - 1) /\ MaxLong \in Nat
      BY <1>1, JobsAssumption DEF SchedulerInductive, PassIsBounded
    <2> QED BY <1>1, <1>2, <2>1 DEF PassIsBounded, NoJob
  <1>6. TurnsKept'
    BY <1>1 DEF SchedulerInductive, TurnsKept, LeftAlone, Visited
  <1> QED BY <1>3, <1>4, <1>5, <1>6 DEF SchedulerInductive

\* The clock keeps the scheduler's invariant: it never outruns the job that is
\* running.
LEMMA TimePassesKeeps ==
    ASSUME SchedulerInductive, TimePasses
    PROVE  SchedulerInductive'
  <1>1. /\ J = 1..N /\ N \in Nat /\ clock < MaxTime /\ clock' = clock + 1
        /\ last' = last /\ before' = before /\ next' = next /\ resumed' = resumed
        /\ jobPaused' = jobPaused /\ start' = start /\ place' = place
        /\ began' = began /\ stopped' = stopped
        /\ \/ began # NoJob /\ clock - began < MaxLong /\ waited' = waited
           \/ place = 0 /\ ~waited /\ waited' = TRUE
    BY SomeJobs DEF TimePasses
  <1>2. /\ clock \in 1..MaxTime /\ start \in 1..clock /\ next \in [J -> Nat]
        /\ began \in {NoJob} \cup (start..clock) /\ place \in 0..N
        /\ MaxTime \in Nat /\ MaxLong \in Nat
    BY <1>1, JobsAssumption DEF SchedulerInductive, SchedulerTypeOK
  <1>3. SchedulerTypeOK'
    <2>1. clock' \in 1..MaxTime /\ start' \in 1..clock' /\ began' \in {NoJob} \cup (start'..clock')
      BY <1>1, <1>2
    <2>2. waited' \in BOOLEAN
      BY ONLY <1>1, SchedulerInductive, Zenon DEF SchedulerInductive, SchedulerTypeOK
    <2> QED BY ONLY <1>1, <2>1, <2>2, SchedulerInductive, Zenon DEF SchedulerInductive, SchedulerTypeOK, J, N
  <1>4. NextFollows' /\ RunsWhenDue' /\ Spaced'
    BY <1>1 DEF SchedulerInductive, NextFollows, RunsWhenDue, Spaced
  <1>5. PassIsBounded'
    <2>1. CASE began # NoJob /\ clock - began < MaxLong
      <3>1. place # 0
        BY <2>1 DEF SchedulerInductive, RunsWhenDue
      <3> QED BY <1>1, <1>2, <2>1, <3>1 DEF SchedulerInductive, PassIsBounded, NoJob
    <2>2. CASE place = 0 /\ ~waited /\ waited' = TRUE
      <3>1. clock - start <= Took(N) /\ Took(N) \in Nat /\ began = NoJob
        BY <1>1, <2>2, TookAdds DEF SchedulerInductive, PassIsBounded, RunsWhenDue
      <3> QED BY <1>1, <1>2, <2>2, <3>1 DEF PassIsBounded
    <2> QED BY <1>1, <2>1, <2>2
  <1>6. TurnsKept'
    BY <1>1 DEF SchedulerInductive, TurnsKept, LeftAlone, Visited
  <1> QED BY <1>3, <1>4, <1>5, <1>6 DEF SchedulerInductive

\* Pausing a job from the operator's thread keeps the scheduler's invariant.
LEMMA PauseKeeps ==
    ASSUME SchedulerInductive, NEW k \in Pausable, Pause(k)
    PROVE  SchedulerInductive'
  <1>1. /\ J = 1..N /\ N \in Nat /\ jobPaused' = [jobPaused EXCEPT ![k] = TRUE]
        /\ last' = last /\ before' = before /\ next' = next /\ resumed' = resumed
        /\ clock' = clock /\ start' = start /\ place' = place
        /\ began' = began /\ stopped' = stopped /\ waited' = waited
    BY SomeJobs DEF Pause
  <1>2. jobPaused \in [J -> BOOLEAN]
    BY DEF SchedulerInductive, SchedulerTypeOK
  <1>3. SchedulerTypeOK'
    <2>1. jobPaused' \in [J -> BOOLEAN]
      BY ONLY <1>1, <1>2, Zenon
    <2> QED BY ONLY <1>1, <2>1, SchedulerInductive, Zenon DEF SchedulerInductive, SchedulerTypeOK, J, N
  <1>4. NextFollows' /\ RunsWhenDue' /\ Spaced' /\ PassIsBounded'
    BY <1>1 DEF SchedulerInductive, NextFollows, RunsWhenDue, Spaced, PassIsBounded
  <1>5. TurnsKept'
    <2>1. \A j \in J : LeftAlone(j)' => LeftAlone(j)
      <3> SUFFICES ASSUME NEW j \in J, LeftAlone(j)' PROVE LeftAlone(j)
        OBVIOUS
      <3>1. j = k \/ jobPaused'[j] = jobPaused[j]
        BY <1>1, <1>2
      <3> QED BY ONLY <1>1, <1>2, <3>1, LeftAlone(j)', Zenon DEF LeftAlone
    <2> QED BY <1>1, <2>1 DEF SchedulerInductive, TurnsKept, Visited
  <1> QED BY <1>3, <1>4, <1>5 DEF SchedulerInductive

\* Resuming a job from the operator's thread keeps the scheduler's invariant.
LEMMA ResumeKeeps ==
    ASSUME SchedulerInductive, NEW k \in Pausable, Resume(k)
    PROVE  SchedulerInductive'
  <1>1. /\ J = 1..N /\ N \in Nat /\ k \in J /\ jobPaused' = [jobPaused EXCEPT ![k] = FALSE]
        /\ next' = [next EXCEPT ![k] = ComputeNext(k, last[k], clock)]
        /\ resumed' = resumed \cup {k}
        /\ last' = last /\ before' = before
        /\ clock' = clock /\ start' = start /\ place' = place
        /\ began' = began /\ stopped' = stopped /\ waited' = waited
    BY SomeJobs, JobsAssumption DEF Resume, N
  <1>2. /\ jobPaused \in [J -> BOOLEAN] /\ next \in [J -> Nat] /\ last \in [J -> Nat]
        /\ clock \in 1..MaxTime /\ resumed \subseteq J
    BY DEF SchedulerInductive, SchedulerTypeOK
  <1>3. /\ ComputeNext(k, last[k], clock) \in Nat
        /\ last[k] # 0 => ComputeNext(k, last[k], clock) = ComputeNext(k, last[k], 1)
    <2>1. last[k] \in Nat /\ clock \in Nat
      BY <1>1, <1>2
    <2>2. ComputeNext(k, last[k], clock) \in Nat
      BY <1>1, <2>1, NextIsTime
    <2>3. last[k] # 0 => ComputeNext(k, last[k], clock) = ComputeNext(k, last[k], 1)
      BY <1>1, <2>1, NextOfLast
    <2> QED BY <2>2, <2>3
  <1>4. SchedulerTypeOK'
    <2>1. jobPaused' \in [J -> BOOLEAN]
      BY ONLY <1>1, <1>2, Zenon
    <2>2. next' \in [J -> Nat] /\ resumed' \subseteq J
      BY <1>1, <1>2, <1>3
    <2> QED BY ONLY <1>1, <2>1, <2>2, SchedulerInductive, Zenon DEF SchedulerInductive, SchedulerTypeOK, J, N
  <1>5. NextFollows'
    BY <1>1, <1>2, <1>3 DEF SchedulerInductive, NextFollows
  <1>6. RunsWhenDue'
    <2> SUFFICES ASSUME began # NoJob, last[place] # 0
                 PROVE  place # 0 /\ next'[place] <= start
      BY <1>1 DEF SchedulerInductive, RunsWhenDue
    <2>1. place \in J /\ place # 0 /\ next[place] <= start
      BY <1>1 DEF SchedulerInductive, RunsWhenDue, SchedulerTypeOK
    <2>2. next[place] = ComputeNext(place, last[place], 1)
      BY <2>1 DEF SchedulerInductive, NextFollows
    <2>3. next'[place] = next[place]
      BY <1>1, <1>2, <1>3, <2>1, <2>2
    <2> QED BY <2>1, <2>3
  <1>7. Spaced' /\ PassIsBounded'
    BY <1>1 DEF SchedulerInductive, Spaced, PassIsBounded
  <1>8. TurnsKept'
    <2>1. \A j \in J : LeftAlone(j)' => LeftAlone(j) /\ next'[j] = next[j]
      <3> SUFFICES ASSUME NEW j \in J, LeftAlone(j)' PROVE LeftAlone(j) /\ next'[j] = next[j]
        OBVIOUS
      <3>1. j # k
        BY <1>1 DEF LeftAlone
      <3>2. jobPaused'[j] = jobPaused[j] /\ next'[j] = next[j]
        BY <1>1, <1>2, <3>1
      <3> QED BY ONLY <1>1, <3>2, LeftAlone(j)', Zenon DEF LeftAlone
    <2> QED BY <1>1, <2>1 DEF SchedulerInductive, TurnsKept, Visited
  <1> QED BY <1>4, <1>5, <1>6, <1>7, <1>8 DEF SchedulerInductive

\* Every state of the scheduler satisfies its inductive invariant.
THEOREM SchedulerAlwaysInductive == SchedulerSpec => []SchedulerInductive
  <1>1. SchedulerInductive /\ [SchedulerNext]_schedulerVars => SchedulerInductive'
    <2> SUFFICES ASSUME SchedulerInductive, [SchedulerNext]_schedulerVars
                 PROVE  SchedulerInductive'
      OBVIOUS
    <2>1. CASE StopLoop \/ UNCHANGED schedulerVars
      <3>1. /\ last' = last /\ before' = before /\ next' = next /\ resumed' = resumed
            /\ clock' = clock /\ start' = start /\ place' = place /\ jobPaused' = jobPaused
            /\ began' = began /\ waited' = waited /\ (stopped' = TRUE \/ stopped' = stopped)
        BY <2>1 DEF StopLoop, schedulerVars
      <3>2. SchedulerTypeOK'
        BY ONLY <3>1, SchedulerInductive, Zenon DEF SchedulerInductive, SchedulerTypeOK, J, N
      <3>3. NextFollows' /\ RunsWhenDue' /\ Spaced' /\ PassIsBounded'
        BY <3>1 DEF SchedulerInductive, NextFollows, RunsWhenDue, Spaced, PassIsBounded
      <3>4. TurnsKept'
        BY <3>1 DEF SchedulerInductive, TurnsKept, LeftAlone, Visited
      <3> QED BY <3>2, <3>3, <3>4 DEF SchedulerInductive
    <2> QED BY <2>1, BeginPassKeeps, SkipJobKeeps, BeginJobKeeps, EndJobKeeps, TimePassesKeeps,
               PauseKeeps, ResumeKeeps DEF SchedulerNext
  <1> QED BY <1>1, SchedulerBegins, PTL DEF SchedulerSpec

\* No job runs twice for one slot, and a job that is due begins before every
\* other has run a third time (agent/scheduler.py:129-164, run_until).
THEOREM AlwaysKeepsSlots == SchedulerSpec => []SlotsKept
  <1>1. SchedulerInductive => SlotsKept
    <2> SUFFICES ASSUME SchedulerInductive, NEW j \in J, LeftAlone(j), ~(began # NoJob /\ place = j)
                 PROVE  clock - next[j] <= (2 * N - 1) * MaxLong
      BY DEF SchedulerInductive, SlotsKept, Punctual, LeftAlone
    <2>1. /\ clock \in 1..MaxTime /\ start \in 1..clock /\ next[j] \in Nat
          /\ began \in {NoJob} \cup (start..clock) /\ place \in 0..N /\ J = 1..N /\ N \in Nat \ {0}
      BY SomeJobs DEF SchedulerInductive, SchedulerTypeOK
    <2>2. N - 1 \in Nat /\ (N - 1) + 1 = N
      BY <2>1
    <2>3. /\ Took(N) \in Nat /\ Took(N - 1) \in Nat /\ MaxLong \in Nat
          /\ Took(N) = Took(N - 1) + MaxLong
      BY <2>1, <2>2, TookAdds
    <2>4. (2 * N - 1) * MaxLong = Took(N) + Took(N - 1)
      <3>1. (2 * N - 1) * MaxLong = N * MaxLong + (N - 1) * MaxLong
        BY <2>1, <2>3
      <3> QED BY <3>1 DEF Took
    <2>5. CASE place = 0
      <3>1. next[j] > start
        BY <2>5 DEF SchedulerInductive, TurnsKept, Visited
      <3>2. clock - start <= Took(N) + 1
        BY <2>5 DEF SchedulerInductive, PassIsBounded
      <3> QED BY <2>1, <2>3, <2>4, <3>1, <3>2
    <2>6. CASE place # 0
      <3>1. start - next[j] <= Took(N)
        BY <2>1, <2>3 DEF SchedulerInductive, TurnsKept
      <3>2. clock - start <= Took(N - 1) \/ next[j] > start
        <4>1. place - 1 \in Nat /\ (place - 1) + 1 = place /\ Took(place - 1) \in Nat
          <5>1. place - 1 \in Nat /\ (place - 1) + 1 = place
            BY <2>1, <2>6
          <5> QED BY <5>1, TookAdds
        <4>2. CASE began = NoJob
          <5>1. clock - start <= Took(place - 1)
            BY <2>6, <4>2 DEF SchedulerInductive, PassIsBounded
          <5>2. Took(place - 1) <= Took(N - 1)
            BY <2>1, <2>2, <4>1, TookGrows
          <5> QED BY <2>1, <2>3, <4>1, <5>1, <5>2
        <4>3. CASE began # NoJob /\ j > place
          <5>1. clock - start <= Took(place - 1) + MaxLong
            BY <2>1, <2>3, <4>1, <4>3 DEF SchedulerInductive, PassIsBounded
          <5>2. Took(place) = Took(place - 1) + MaxLong /\ Took(place) \in Nat /\ Took(place) <= Took(N - 1)
            BY <2>1, <2>2, <4>1, <4>3, TookAdds, TookGrows
          <5> QED BY <2>1, <2>3, <4>1, <5>1, <5>2
        <4>4. CASE began # NoJob /\ j < place
          BY <4>4 DEF SchedulerInductive, TurnsKept, Visited
        <4> QED BY <2>1, <4>2, <4>3, <4>4
      <3>3. CASE clock - start <= Took(N - 1)
        BY <2>1, <2>3, <2>4, <3>1, <3>3
      <3>4. CASE next[j] > start
        <4>1. clock - start <= Took(N)
          <5>1. place - 1 \in Nat /\ (place - 1) + 1 = place
            BY <2>1, <2>6
          <5>2. Took(place) = Took(place - 1) + MaxLong /\ Took(place - 1) \in Nat /\ Took(place) \in Nat
            BY <5>1, TookAdds
          <5>3. Took(place) <= Took(N)
            BY <2>1, TookGrows
          <5>4. clock - start <= Took(place - 1) + MaxLong
            BY <2>1, <2>3, <2>6, <5>2 DEF SchedulerInductive, PassIsBounded
          <5> QED BY <2>1, <2>3, <5>2, <5>3, <5>4
        <4> QED BY <2>1, <2>3, <2>4, <3>4, <4>1
      <3> QED BY <3>2, <3>3, <3>4
    <2> QED BY <2>5, <2>6
  <1> QED BY <1>1, SchedulerAlwaysInductive, PTL

\* The scheduler's times, places and flags keep their types.
THEOREM SchedulerTypeCorrect == SchedulerSpec => []SchedulerTypeOK
  <1>1. SchedulerInductive => SchedulerTypeOK
    BY DEF SchedulerInductive
  <1> QED BY <1>1, SchedulerAlwaysInductive, PTL


------------------------------------------------------------------------------
(* The live client, for any instruments, plans, faults and fills. *)

ClientOrder == [symbol : Instruments, qty : Int \ {0}, filled : Nat,
          state : {"open", "filled", "cancelled"}, closes : Nat]

SizeOf(o)    == IF o.qty > 0 THEN o.qty ELSE -o.qty
GoodOrder(o) == o.filled <= SizeOf(o) /\ (o.filled = SizeOf(o) <=> o.state = "filled")

BookKept == /\ book \in Seq(ClientOrder)
            /\ \A k \in DOMAIN book : GoodOrder(book[k]) /\ book[k].closes <= Len(book)

\* What a step does to the orders in the book: those that work fill or are
\* cancelled, the others stay as they are.
BookGoesOn ==
    /\ DOMAIN book \subseteq DOMAIN book'
    /\ \A k \in DOMAIN book :
         /\ book'[k].symbol = book[k].symbol /\ book'[k].qty = book[k].qty
         /\ book'[k].closes = book[k].closes /\ book'[k].filled >= book[k].filled
         /\ book[k].state # "open" => book'[k] = book[k]

\* The exchange numbers its orders 1, 2, ... without a hole, and the next number is
\* unused.
LEMMA BookNumbers ==
    ASSUME BookKept
    PROVE  /\ Len(book) \in Nat /\ DOMAIN book = 1..Len(book)
           /\ NextOrder = Len(book) + 1 /\ NextOrder \notin DOMAIN book
           /\ IsFiniteSet(DOMAIN book)
           /\ \A k \in DOMAIN book : book[k] \in ClientOrder /\ k \in Nat /\ k # 0
  <1>1. Len(book) \in Nat /\ DOMAIN book = 1..Len(book)
    BY LenProperties DEF BookKept
  <1>2. \A k \in 1..Len(book) : book[k] \in ClientOrder
    BY ElementOfSeq DEF BookKept
  <1>3. IsFiniteSet(1..Len(book))
    BY <1>1, FS_Interval
  <1> QED BY <1>1, <1>2, <1>3 DEF NextOrder

\* An order in place of another.
LEMMA BookChanged ==
    ASSUME BookKept, NEW k \in DOMAIN book, NEW o \in ClientOrder, GoodOrder(o),
           o.symbol = book[k].symbol, o.qty = book[k].qty, o.closes = book[k].closes,
           o.filled >= book[k].filled, book[k].state = "open", book' = [book EXCEPT ![k] = o]
    PROVE  /\ BookKept' /\ BookGoesOn /\ DOMAIN book' = DOMAIN book
           /\ book'[k] = o
           /\ \A j \in DOMAIN book : j # k => book'[j] = book[j]
  <1>1. Len(book) \in Nat /\ DOMAIN book = 1..Len(book) /\ \A j \in DOMAIN book : book[j] \in ClientOrder
    BY BookNumbers
  <1>2. /\ book' \in Seq(ClientOrder) /\ Len(book') = Len(book)
        /\ \A j \in 1..Len(book) : book'[j] = IF j = k THEN o ELSE book[j]
    BY <1>1, ExceptSeq DEF BookKept
  <1>3. DOMAIN book' = DOMAIN book
    BY <1>1, <1>2, LenProperties
  <1>4. BookKept'
    BY <1>1, <1>2, <1>3 DEF BookKept, ClientOrder, Instruments, GoodOrder, SizeOf
  <1>5. BookGoesOn
    <2>1. ASSUME NEW j \in DOMAIN book
          PROVE  /\ book'[j].symbol = book[j].symbol /\ book'[j].qty = book[j].qty
                 /\ book'[j].closes = book[j].closes /\ book'[j].filled >= book[j].filled
                 /\ book[j].state # "open" => book'[j] = book[j]
      <3>1. CASE j = k
        BY <1>1, <1>2, <3>1
      <3>2. CASE j # k
        <4>1. book'[j] = book[j] /\ book[j].filled \in Nat
          BY <1>1, <1>2, <3>2 DEF ClientOrder
        <4> QED BY <4>1
      <3> QED BY <3>1, <3>2
    <2> QED BY <1>3, <2>1 DEF BookGoesOn
  <1> QED BY <1>1, <1>2, <1>3, <1>4, <1>5

\* An order more.
LEMMA BookLonger ==
    ASSUME BookKept, NEW o \in ClientOrder, GoodOrder(o), o.closes <= Len(book), book' = Append(book, o)
    PROVE  /\ BookKept' /\ BookGoesOn
           /\ DOMAIN book' = DOMAIN book \cup {NextOrder} /\ book'[NextOrder] = o
           /\ \A j \in DOMAIN book : book'[j] = book[j]
  <1>1. Len(book) \in Nat /\ DOMAIN book = 1..Len(book) /\ \A j \in DOMAIN book : book[j] \in ClientOrder
    BY BookNumbers
  <1>2. /\ book' \in Seq(ClientOrder) /\ Len(book') = Len(book) + 1
        /\ \A j \in 1..Len(book) : book'[j] = book[j]
        /\ book'[Len(book) + 1] = o
    BY <1>1, AppendProperties DEF BookKept
  <1>3. DOMAIN book' = 1..(Len(book) + 1)
    BY <1>1, <1>2, LenProperties
  <1>4. DOMAIN book' = DOMAIN book \cup {NextOrder}
    BY <1>1, <1>3 DEF NextOrder
  <1>5. BookKept'
    <2>1. ASSUME NEW j \in DOMAIN book'
          PROVE  GoodOrder(book'[j]) /\ book'[j].closes <= Len(book')
      <3>1. CASE j \in DOMAIN book
        <4>1. book'[j] = book[j] /\ GoodOrder(book[j]) /\ book[j].closes <= Len(book) /\ book[j].closes \in Nat
          BY <1>1, <1>2, <3>1 DEF BookKept, ClientOrder
        <4> QED BY <1>1, <1>2, <4>1
      <3>2. CASE j = Len(book) + 1
        <4>1. o.closes \in Nat
          BY DEF ClientOrder
        <4> QED BY <1>1, <1>2, <3>2, <4>1
      <3> QED BY <1>1, <1>3, <3>1, <3>2
    <2> QED BY <1>2, <2>1 DEF BookKept, ClientOrder, Instruments, GoodOrder, SizeOf
  <1>6. BookGoesOn
    <2>1. \A j \in DOMAIN book : book'[j] = book[j] /\ book[j].filled \in Nat
      BY <1>1, <1>2 DEF ClientOrder
    <2> QED BY <1>4, <2>1 DEF BookGoesOn
  <1> QED BY <1>1, <1>2, <1>4, <1>5, <1>6 DEF NextOrder

\* Filling an order keeps it good.
LEMMA FilledIsGood ==
    ASSUME NEW o \in ClientOrder, NEW n \in 0..SizeOf(o), o.state = "open"
    PROVE  /\ Filled(o, n) \in ClientOrder /\ GoodOrder(Filled(o, n))
           /\ Filled(o, n).symbol = o.symbol /\ Filled(o, n).qty = o.qty
           /\ Filled(o, n).closes = o.closes /\ Filled(o, n).filled = n
           /\ Filled(o, n).state = IF n = SizeOf(o) THEN "filled" ELSE "open"
  <1>1. o.qty \in Int /\ o.qty # 0 /\ SizeOf(o) \in Nat /\ n \in Nat
    BY DEF ClientOrder, SizeOf
  <1>2. n \in {o.qty, -o.qty} <=> n = SizeOf(o)
    BY <1>1 DEF SizeOf
  <1> DEFINE s == IF n \in {o.qty, -o.qty} THEN "filled" ELSE o.state
             f == [symbol |-> o.symbol, qty |-> o.qty, filled |-> n, state |-> s, closes |-> o.closes]
  <1>3. Filled(o, n) = f
    BY DEF Filled
  <1>4. s = IF n = SizeOf(o) THEN "filled" ELSE "open"
    BY <1>2
  <1> HIDE DEF s
  <1>5. /\ f \in ClientOrder /\ f.symbol = o.symbol /\ f.qty = o.qty /\ f.closes = o.closes
        /\ f.filled = n /\ f.state = s /\ SizeOf(f) = SizeOf(o)
    BY <1>1, <1>4 DEF ClientOrder, SizeOf
  <1> HIDE DEF f
  <1>6. GoodOrder(f)
    BY <1>1, <1>4, <1>5 DEF GoodOrder
  <1> QED BY <1>3, <1>4, <1>5, <1>6

\* A fill at the exchange keeps the book well formed and adds no order.
LEMMA FillStep ==
    ASSUME BookKept, NEW k \in DOMAIN book, Fill(k)
    PROVE  BookKept' /\ BookGoesOn /\ DOMAIN book' = DOMAIN book
  <1> DEFINE o == book[k]
  <1>1. /\ o \in ClientOrder /\ o.state = "open" /\ GoodOrder(o) /\ o.filled \in Nat
        /\ book' = [book EXCEPT ![k] = Filled(o, o.filled + 1)]
    BY BookNumbers DEF Fill, Working, ClientOrder, BookKept
  <1>2. SizeOf(o) \in Nat /\ o.filled + 1 \in 0..SizeOf(o)
    BY <1>1 DEF GoodOrder, SizeOf, ClientOrder
  <1>3. /\ Filled(o, o.filled + 1) \in ClientOrder /\ GoodOrder(Filled(o, o.filled + 1))
        /\ Filled(o, o.filled + 1).symbol = o.symbol /\ Filled(o, o.filled + 1).qty = o.qty
        /\ Filled(o, o.filled + 1).closes = o.closes /\ Filled(o, o.filled + 1).filled >= o.filled
    BY <1>1, <1>2, FilledIsGood
  <1> QED BY <1>1, <1>3, BookChanged

\* An order that is sent.
LEMMA AcceptedIsGood ==
    ASSUME NEW l, l.symbol \in Instruments, l.qty \in Int \ {0}, NEW of \in Nat,
           NEW o \in Accepted(l, of)
    PROVE  /\ o \in ClientOrder /\ GoodOrder(o) /\ o.closes = of /\ o.qty = l.qty /\ o.symbol = l.symbol
  <1> DEFINE e == [symbol |-> l.symbol, qty |-> l.qty, filled |-> 0, state |-> "open", closes |-> of]
             n == IF l.qty > 0 THEN l.qty ELSE -l.qty
  <1>1. e \in ClientOrder /\ e.state = "open" /\ e.qty = l.qty /\ e.closes = of /\ e.symbol = l.symbol /\ SizeOf(e) = n
    BY DEF ClientOrder, SizeOf
  <1>2. o \in {Filled(e, m) : m \in 0..n}
    BY DEF Accepted
  <1> HIDE DEF e, n
  <1>3. PICK m \in 0..n : o = Filled(e, m)
    BY <1>2
  <1> QED BY <1>1, <1>3, FilledIsGood

\* A cancellation at the exchange finishes one order and leaves the others alone.
LEMMA CancelStep ==
    ASSUME BookKept, NEW k \in DOMAIN book, Working(k), CancelAtExchange(k)
    PROVE  /\ BookKept' /\ BookGoesOn /\ DOMAIN book' = DOMAIN book
           /\ book'[k].state = "cancelled"
           /\ \A j \in DOMAIN book : j # k => book'[j] = book[j]
  <1> DEFINE o == book[k]
             c == [symbol |-> o.symbol, qty |-> o.qty, filled |-> o.filled, state |-> "cancelled", closes |-> o.closes]
  <1>1. o \in ClientOrder /\ o.state = "open" /\ GoodOrder(o)
    BY BookNumbers DEF Working, BookKept
  <1>2. book' = [book EXCEPT ![k] = c]
    <2>1. o = [symbol |-> o.symbol, qty |-> o.qty, filled |-> o.filled, state |-> o.state, closes |-> o.closes]
      BY <1>1 DEF ClientOrder
    <2> HIDE DEF o
    <2>2. PICK a, b, d, s, e : o = [symbol |-> a, qty |-> b, filled |-> d, state |-> s, closes |-> e]
      BY ONLY <2>1, Zenon
    <2>5. o.symbol = a /\ o.qty = b /\ o.filled = d /\ o.closes = e
      BY ONLY <2>2
    <2>6. [o EXCEPT !.state = "cancelled"]
              = [symbol |-> a, qty |-> b, filled |-> d, state |-> "cancelled", closes |-> e]
      BY ONLY <2>2
    <2>3. [o EXCEPT !.state = "cancelled"] = c
      BY ONLY <2>5, <2>6, Zenon
    <2> HIDE DEF c
    <2>4. book' = [book EXCEPT ![k] = [o EXCEPT !.state = "cancelled"]]
      BY ONLY CancelAtExchange(k), Zenon DEF CancelAtExchange, o
    <2> QED BY ONLY <2>3, <2>4, Zenon
  <1>3. /\ c \in ClientOrder /\ GoodOrder(c) /\ c.symbol = o.symbol /\ c.qty = o.qty /\ c.closes = o.closes
        /\ c.filled >= o.filled /\ c.state = "cancelled"
    BY <1>1 DEF ClientOrder, GoodOrder, SizeOf
  <1> HIDE DEF c
  <1> QED BY <1>1, <1>2, <1>3, BookChanged

------------------------------------------------------------------------------
(* The copies of an order. *)

\* An object o that says final of its order b is right.
TrueOf(o, b) ==
    /\ o.status = "complete" => b.state = "filled" /\ o.filled = b.filled
    /\ o.status = "cancelled" => b.state = "cancelled"

CopiesTrue ==
    /\ DOMAIN mine \subseteq DOMAIN book /\ DOMAIN cache \subseteq DOMAIN book
    /\ mine \in [DOMAIN mine -> Object] /\ cache \in [DOMAIN cache -> Object]
    /\ \A k \in DOMAIN mine : TrueOf(mine[k], book[k])
    /\ \A k \in DOMAIN cache : TrueOf(cache[k], book[k])

\* What is final stays so.
LEMMA TrueStays ==
    ASSUME NEW o, NEW b, NEW c, TrueOf(o, b), b.state # "open" => c = b
    PROVE  TrueOf(o, c)
  BY DEF TrueOf

\* The object hydrated from an order of the exchange tells the truth about it.
LEMMA WhatIsRead ==
    ASSUME BookKept, NEW k \in DOMAIN book
    PROVE  Hydrated(k) \in Object /\ TrueOf(Hydrated(k), book[k])
  <1>1. book[k] \in ClientOrder
    BY BookNumbers
  <1> QED BY <1>1 DEF ClientOrder, Hydrated, Status, Object, TrueOf

\* The object made of a placement answer calls complete or cancelled only what is.
LEMMA WhatIsPlaced ==
    ASSUME NEW o \in ClientOrder
    PROVE  /\ Placed(o) \in Object
           /\ Placed(o).status = "complete" => o.state = "filled" /\ Placed(o).filled = o.filled
           /\ Placed(o).status = "cancelled" => o.state = "cancelled"
  BY DEF Placed, Status, Object, ClientOrder

\* A table that is extended or corrected.
LEMMA TableUpdated ==
    ASSUME NEW f, NEW g, NEW T,
           f \in [DOMAIN f -> T], g \in [DOMAIN g -> T]
    PROVE  /\ DOMAIN Updated(f, g) = DOMAIN f \cup DOMAIN g
           /\ Updated(f, g) \in [DOMAIN Updated(f, g) -> T]
           /\ \A x \in DOMAIN g : Updated(f, g)[x] = g[x]
           /\ \A x \in DOMAIN f \ DOMAIN g : Updated(f, g)[x] = f[x]
  BY DEF Updated

\* The copies stay true when neither table changes.
LEMMA CopiesStay ==
    ASSUME CopiesTrue, BookGoesOn, mine' = mine, cache' = cache
    PROVE  CopiesTrue'
  <1>1. \A k \in DOMAIN mine : TrueOf(mine[k], book'[k])
    BY TrueStays DEF CopiesTrue, BookGoesOn
  <1>2. \A k \in DOMAIN cache : TrueOf(cache[k], book'[k])
    BY TrueStays DEF CopiesTrue, BookGoesOn
  <1>3. DOMAIN mine \subseteq DOMAIN book' /\ DOMAIN cache \subseteq DOMAIN book'
    BY DEF CopiesTrue, BookGoesOn
  <1> QED BY <1>1, <1>2, <1>3 DEF CopiesTrue, Object

\* Reading orders into the cache.
LEMMA ReadingKeepsCopies ==
    ASSUME BookKept, CopiesTrue, book' = book, mine' = mine,
           NEW rows \in SUBSET DOMAIN book, cache' = Updated(cache, [k \in rows |-> Hydrated(k)])
    PROVE  CopiesTrue' /\ DOMAIN cache' = DOMAIN cache \cup rows
  <1> DEFINE g == [k \in rows |-> Hydrated(k)]
  <1>1. \A k \in rows : Hydrated(k) \in Object /\ TrueOf(Hydrated(k), book[k])
    BY WhatIsRead
  <1>2. DOMAIN g = rows /\ g \in [rows -> Object] /\ \A k \in rows : g[k] = Hydrated(k)
    BY <1>1
  <1>3. cache \in [DOMAIN cache -> Object]
    BY DEF CopiesTrue
  <1>4. cache' = Updated(cache, g)
    OBVIOUS
  <1> HIDE DEF g
  <1>5. /\ DOMAIN cache' = DOMAIN cache \cup rows
        /\ cache' \in [DOMAIN cache' -> Object]
        /\ \A k \in rows : cache'[k] = Hydrated(k)
        /\ \A k \in DOMAIN cache \ rows : cache'[k] = cache[k]
    BY <1>2, <1>3, <1>4, TableUpdated
  <1>6. \A k \in DOMAIN cache' : TrueOf(cache'[k], book[k])
    BY <1>1, <1>5 DEF CopiesTrue
  <1>7. DOMAIN cache' \subseteq DOMAIN book
    BY <1>5 DEF CopiesTrue
  <1> QED BY <1>5, <1>6, <1>7 DEF CopiesTrue, TrueOf, Object

\* An order that is accepted and answered.
LEMMA PlaceStep ==
    ASSUME BookKept, CopiesTrue, NEW l, l.symbol \in Instruments, l.qty \in Int \ {0},
           NEW of \in 0..Len(book), PlaceOrder(l, of)
    PROVE  /\ BookKept' /\ BookGoesOn /\ CopiesTrue'
           /\ DOMAIN book' = DOMAIN book \cup {NextOrder}
           /\ \A j \in DOMAIN book : book'[j] = book[j]
           /\ book'[NextOrder].closes = of /\ book'[NextOrder].qty = l.qty
           /\ book'[NextOrder] \in ClientOrder
           /\ DOMAIN mine' = DOMAIN mine \cup {NextOrder}
           /\ \A j \in DOMAIN mine : mine'[j] = mine[j]
  <1>0. Len(book) \in Nat /\ NextOrder \notin DOMAIN book /\ of \in Nat
    BY BookNumbers
  <1>1. PICK o \in Accepted(l, of) :
            /\ book' = Append(book, o)
            /\ mine' = Updated(mine, [k \in {NextOrder} |-> Placed(o)])
    BY DEF PlaceOrder
  <1>2. cache' = cache
    BY DEF PlaceOrder
  <1>3. o \in ClientOrder /\ GoodOrder(o) /\ o.closes = of /\ o.qty = l.qty
    BY <1>0, AcceptedIsGood
  <1>4. o.closes <= Len(book)
    BY <1>0, <1>3
  <1>5. /\ BookKept' /\ BookGoesOn
        /\ DOMAIN book' = DOMAIN book \cup {NextOrder} /\ book'[NextOrder] = o
        /\ \A j \in DOMAIN book : book'[j] = book[j]
    BY <1>1, <1>3, <1>4, BookLonger
  <1> DEFINE g == [k \in {NextOrder} |-> Placed(o)]
             n == NextOrder
  <1>6. /\ Placed(o) \in Object
        /\ Placed(o).status = "complete" => o.state = "filled" /\ Placed(o).filled = o.filled
        /\ Placed(o).status = "cancelled" => o.state = "cancelled"
    BY <1>3, WhatIsPlaced
  <1>7. DOMAIN g = {n} /\ g \in [{n} -> Object] /\ g[n] = Placed(o) /\ mine' = Updated(mine, g)
    BY <1>1, <1>6
  <1>8. mine \in [DOMAIN mine -> Object] /\ n \notin DOMAIN mine
    BY <1>0 DEF CopiesTrue
  <1> HIDE DEF g, n
  <1>9. /\ DOMAIN mine' = DOMAIN mine \cup {n}
        /\ mine' \in [DOMAIN mine' -> Object]
        /\ mine'[n] = Placed(o)
        /\ \A k \in DOMAIN mine : mine'[k] = mine[k]
    <2>1. g \in [DOMAIN g -> Object] /\ mine \in [DOMAIN mine -> Object]
      BY <1>7, <1>8
    <2>2. /\ DOMAIN Updated(mine, g) = DOMAIN mine \cup DOMAIN g
          /\ Updated(mine, g) \in [DOMAIN Updated(mine, g) -> Object]
          /\ \A x \in DOMAIN g : Updated(mine, g)[x] = g[x]
          /\ \A x \in DOMAIN mine \ DOMAIN g : Updated(mine, g)[x] = mine[x]
      BY ONLY <2>1, TableUpdated
    <2> QED BY <1>7, <1>8, <2>2
  <1>10. \A k \in DOMAIN mine : TrueOf(mine[k], book'[k])
    BY <1>5, TrueStays DEF CopiesTrue, BookGoesOn
  <1>11. \A k \in DOMAIN mine' : TrueOf(mine'[k], book'[k])
    BY <1>5, <1>6, <1>9, <1>10 DEF TrueOf, n
  <1>12. \A k \in DOMAIN cache : TrueOf(cache[k], book'[k])
    BY <1>5, TrueStays DEF CopiesTrue, BookGoesOn
  <1>13. CopiesTrue'
    BY <1>2, <1>5, <1>9, <1>11, <1>12 DEF CopiesTrue, n, Object
  <1> QED BY <1>3, <1>5, <1>9, <1>13 DEF n

\* An order whose answer is lost or that never arrived.
LEMMA PlaceFailsStep ==
    ASSUME BookKept, CopiesTrue, NEW l, l.symbol \in Instruments, l.qty \in Int \ {0},
           NEW of \in 0..Len(book), PlaceOrderFails(l, of)
    PROVE  BookKept' /\ BookGoesOn /\ CopiesTrue'
  <1>0. Len(book) \in Nat /\ of \in Nat
    BY BookNumbers
  <1>1. mine' = mine /\ cache' = cache
    BY DEF PlaceOrderFails
  <1>2. CASE book' = book
    <2>1. BookKept' /\ BookGoesOn
      BY <1>2, BookNumbers DEF BookKept, BookGoesOn, ClientOrder, Instruments, GoodOrder, SizeOf
    <2> QED BY <1>1, <2>1, CopiesStay
  <1>3. CASE \E o \in Accepted(l, of) : book' = Append(book, o)
    <2>1. PICK o \in Accepted(l, of) : book' = Append(book, o)
      BY <1>3
    <2>2. o \in ClientOrder /\ GoodOrder(o) /\ o.closes = of
      BY <1>0, AcceptedIsGood
    <2>3. o.closes <= Len(book)
      BY <1>0, <2>2
    <2>4. BookKept' /\ BookGoesOn
      BY <2>1, <2>2, <2>3, BookLonger
    <2> QED BY <1>1, <2>4, CopiesStay
  <1> QED BY <1>2, <1>3 DEF PlaceOrderFails

\* The request that cancels an order which the cache knows.
LEMMA CancelKeepsCopies ==
    ASSUME BookKept, CopiesTrue, NEW k \in DOMAIN cache, CancelOrder(k)
    PROVE  /\ BookKept' /\ BookGoesOn /\ CopiesTrue' /\ DOMAIN book' = DOMAIN book
           /\ book'[k].state = "cancelled" /\ mine' = mine /\ DOMAIN cache' = DOMAIN cache
           /\ \A j \in DOMAIN book : j # k => book'[j] = book[j]
  <1>1. k \in DOMAIN book /\ Working(k) /\ CancelAtExchange(k) /\ mine' = mine
        /\ cache' = [cache EXCEPT ![k].status = "cancelled"]
    BY DEF CancelOrder, CopiesTrue
  <1>2. /\ BookKept' /\ BookGoesOn /\ DOMAIN book' = DOMAIN book
        /\ book'[k].state = "cancelled"
        /\ \A j \in DOMAIN book : j # k => book'[j] = book[j]
    BY <1>1, CancelStep
  <1> DEFINE c == [filled |-> cache[k].filled, status |-> "cancelled"]
  <1>3. c \in Object /\ c.status = "cancelled" /\ [cache[k] EXCEPT !.status = "cancelled"] = c
    <2>1. cache[k] \in Object
      BY DEF CopiesTrue
    <2> QED BY <2>1 DEF Object
  <1>4. cache' = [cache EXCEPT ![k] = [cache[k] EXCEPT !.status = "cancelled"]]
    BY ONLY <1>1, Zenon
  <1> HIDE DEF c
  <1>5. cache' = [cache EXCEPT ![k] = c]
    BY ONLY <1>3, <1>4, Zenon
  <1>6. /\ DOMAIN cache' = DOMAIN cache /\ cache' \in [DOMAIN cache' -> Object] /\ cache'[k] = c
        /\ \A j \in DOMAIN cache : j # k => cache'[j] = cache[j]
    BY <1>3, <1>5 DEF CopiesTrue
  <1>7. \A j \in DOMAIN cache : TrueOf(cache[j], book'[j])
    BY <1>2, TrueStays DEF CopiesTrue, BookGoesOn
  <1>8. \A j \in DOMAIN cache' : TrueOf(cache'[j], book'[j])
    BY <1>2, <1>3, <1>6, <1>7 DEF TrueOf
  <1>9. \A j \in DOMAIN mine : TrueOf(mine[j], book'[j])
    BY <1>2, TrueStays DEF CopiesTrue, BookGoesOn
  <1>10. CopiesTrue'
    BY <1>1, <1>2, <1>6, <1>8, <1>9 DEF CopiesTrue, Object
  <1> QED BY <1>1, <1>2, <1>6, <1>10

------------------------------------------------------------------------------
(* Trades, and what the runner's thread is in. *)

Trade == [orders : Seq(Nat), closed : BOOLEAN]

OrdersOf(t) == Range(trades[t].orders)

TradesKept ==
    /\ trades \in Seq(Trade)
    /\ \A t \in DOMAIN trades : OrdersOf(t) \subseteq DOMAIN mine /\ IsInjective(trades[t].orders)
    /\ \A s, t \in DOMAIN trades : s # t => OrdersOf(s) \cap OrdersOf(t) = {}

OpeningKept ==
    /\ op.plan \in Seq(ClientLeg)
    /\ op.placed \in Seq(Nat) /\ Range(op.placed) \subseteq DOMAIN mine /\ IsInjective(op.placed)
    /\ \A t \in DOMAIN trades : Range(op.placed) \cap OrdersOf(t) = {}

ClosingKept ==
    /\ op.trade \in DOMAIN trades
    /\ op.todo \in Seq(Nat) /\ Range(op.todo) \subseteq OrdersOf(op.trade) /\ IsInjective(op.todo)

OpKept ==
    /\ op.kind = "open" => OpeningKept
    /\ op.kind = "close" => ClosingKept
    /\ op.kind = "list" => op.found \subseteq DOMAIN cache
    /\ op.kind = "positions" => op.back.kind \in {"idle", "unwind"}

\* What a smooth kill switch has still to cancel.
NoneWorks == \A k \in DOMAIN book : ~Working(k)
KillKept ==
    /\ op.kind = "list" /\ op.smooth =>
         \A k \in DOMAIN book : Working(k) =>
            k \in op.found \/ \E kind \in op.todo : book[k].symbol \in kind
    /\ op.kind = "positions" /\ op.back.kind = "unwind" /\ op.back.smooth => NoneWorks
    /\ op.kind \in {"unwind", "killed"} /\ op.smooth => NoneWorks

\* The orders that no close has gone out for.
Waits(k) ==
    \/ \E t \in DOMAIN trades :
          k \in OrdersOf(t) /\ ~trades[t].closed /\ ~(op.kind = "close" /\ op.trade = t)
    \/ op.kind = "open" /\ k \in Range(op.placed)
    \/ op.kind = "close" /\ k \in Range(op.todo)

ClosedBy(k) == SumFunctionOnSet([c \in DOMAIN book |-> Size(c)], {c \in DOMAIN book : book[c].closes = k})

ClosesKept ==
    faults = 0 => \A k \in DOMAIN book :
        /\ ClosedBy(k) <= book[k].filled
        /\ Waits(k) => \A c \in DOMAIN book : book[c].closes # k

ClientInductive ==
    /\ BookKept /\ CopiesTrue /\ TradesKept /\ OpKept /\ KillKept /\ ClosesKept /\ faults \in Nat

------------------------------------------------------------------------------
\* A list without its head.
LEMMA HeadAndTail ==
    ASSUME NEW s \in Seq(Nat), s # <<>>, IsInjective(s)
    PROVE  /\ Head(s) \in Range(s) /\ Head(s) \in Nat
           /\ Tail(s) \in Seq(Nat) /\ IsInjective(Tail(s))
           /\ Range(Tail(s)) \subseteq Range(s) \ {Head(s)}
  <1>1. /\ Head(s) \in Nat /\ Tail(s) \in Seq(Nat) /\ Len(Tail(s)) = Len(s) - 1
        /\ \A i \in 1..Len(Tail(s)) : Tail(s)[i] = s[i + 1]
    BY HeadTailProperties
  <1>2. Len(s) \in Nat /\ DOMAIN s = 1..Len(s) /\ Len(s) # 0 /\ Head(s) = s[1]
    BY LenProperties, EmptySeq
  <1>3. DOMAIN Tail(s) = 1..(Len(s) - 1)
    BY <1>1, LenProperties
  <1>4. Head(s) \in Range(s)
    BY <1>2 DEF Range
  <1>5. IsInjective(Tail(s))
    BY <1>1, <1>2, <1>3 DEF IsInjective
  <1>6. ASSUME NEW x \in Range(Tail(s)) PROVE x \in Range(s) \ {Head(s)}
    <2>1. PICK i \in DOMAIN Tail(s) : x = Tail(s)[i]
      BY DEF Range
    <2>2. i \in 1..(Len(s) - 1) /\ x = s[i + 1] /\ i + 1 \in DOMAIN s /\ i + 1 # 1 /\ 1 \in DOMAIN s
      BY <1>1, <1>2, <1>3, <2>1
    <2>3. x \in Range(s)
      BY <2>2 DEF Range
    <2>4. s[i + 1] # s[1]
      BY <2>2 DEF IsInjective
    <2> QED BY <1>2, <2>2, <2>3, <2>4
  <1> QED BY <1>1, <1>4, <1>5, <1>6

\* A list with one more.
LEMMA OneMore ==
    ASSUME NEW s \in Seq(Nat), NEW x \in Nat, x \notin Range(s), IsInjective(s)
    PROVE  /\ Append(s, x) \in Seq(Nat) /\ IsInjective(Append(s, x))
           /\ Range(Append(s, x)) = Range(s) \cup {x}
  <1> DEFINE a == Append(s, x)
  <1>1. /\ a \in Seq(Nat) /\ Len(a) = Len(s) + 1
        /\ \A i \in 1..Len(s) : a[i] = s[i]
        /\ a[Len(s) + 1] = x
    BY AppendProperties
  <1>2. Len(s) \in Nat /\ DOMAIN s = 1..Len(s)
    BY LenProperties
  <1>3. DOMAIN a = 1..(Len(s) + 1)
    BY <1>1, LenProperties
  <1> HIDE DEF a
  <1>4. \A i \in DOMAIN a : \/ i \in DOMAIN s /\ a[i] = s[i]
                            \/ i = Len(s) + 1 /\ a[i] = x
    BY <1>1, <1>2, <1>3
  <1>5. \A i \in DOMAIN s : i \in DOMAIN a /\ a[i] = s[i] /\ s[i] # x
    BY <1>1, <1>2, <1>3 DEF Range
  <1>6. IsInjective(a)
    BY <1>4, <1>5 DEF IsInjective
  <1>7. Len(s) + 1 \in DOMAIN a
    BY <1>2, <1>3
  <1>8. Range(a) = Range(s) \cup {x}
    BY <1>1, <1>4, <1>5, <1>7 DEF Range
  <1> QED BY <1>1, <1>6, <1>8 DEF a

\* A trade's orders are numbers of the client's.
LEMMA TradeHas ==
    ASSUME TradesKept, NEW t \in DOMAIN trades
    PROVE  /\ trades[t] \in Trade /\ trades[t].orders \in Seq(Nat)
           /\ Len(trades) \in Nat /\ DOMAIN trades = 1..Len(trades)
  <1>1. Len(trades) \in Nat /\ DOMAIN trades = 1..Len(trades)
    BY LenProperties DEF TradesKept
  <1>2. trades[t] \in Trade
    BY <1>1, ElementOfSeq DEF TradesKept
  <1> QED BY <1>1, <1>2 DEF Trade

\* The trades stay right under a step that leaves them alone and forgets no object.
LEMMA TradesStay ==
    ASSUME TradesKept, trades' = trades, DOMAIN mine \subseteq DOMAIN mine'
    PROVE  TradesKept'
  <1>1. \A t \in DOMAIN trades : OrdersOf(t)' = OrdersOf(t)
    BY DEF OrdersOf
  <1> QED BY <1>1 DEF TradesKept, Trade

\* A step that changes none of the orders.
LEMMA BookStays ==
    ASSUME BookKept, CopiesTrue, UNCHANGED <<book, mine, cache>>
    PROVE  BookKept' /\ BookGoesOn /\ CopiesTrue' /\ DOMAIN book' = DOMAIN book
  <1>1. BookKept' /\ BookGoesOn
    <2>1. \A k \in DOMAIN book : book[k].filled \in Nat
      BY BookNumbers DEF ClientOrder
    <2> QED BY <2>1 DEF BookKept, BookGoesOn, ClientOrder, Instruments, GoodOrder, SizeOf
  <1> QED BY <1>1, CopiesStay

------------------------------------------------------------------------------
(* What the closing orders amount to. *)

\* A sum stays what it is while orders only fill or are cancelled,
LEMMA ClosedByStays ==
    ASSUME BookGoesOn, DOMAIN book' = DOMAIN book, NEW k
    PROVE  ClosedBy(k)' = ClosedBy(k)
  <1>1. \A c \in DOMAIN book : Size(c)' = Size(c) /\ book'[c].closes = book[c].closes
    BY DEF BookGoesOn, Size
  <1>2. [c \in DOMAIN book' |-> Size(c)'] = [c \in DOMAIN book |-> Size(c)]
    BY <1>1
  <1>3. {c \in DOMAIN book' : book'[c].closes = k} = {c \in DOMAIN book : book[c].closes = k}
    BY <1>1
  <1> QED BY <1>2, <1>3 DEF ClosedBy

\* The closing orders stay within what they close, in a step that adds no order and lets
\* none wait that did not.
LEMMA ClosesStay ==
    ASSUME BookKept, BookKept', BookGoesOn, DOMAIN book' = DOMAIN book, ClosesKept,
           faults' = 0 => faults = 0,
           faults' = 0 => \A k \in DOMAIN book : Waits(k)' => Waits(k)
    PROVE  ClosesKept'
  <1> SUFFICES ASSUME faults' = 0, NEW k \in DOMAIN book'
               PROVE  /\ ClosedBy(k)' <= book'[k].filled
                      /\ Waits(k)' => \A c \in DOMAIN book' : book'[c].closes # k
    BY DEF ClosesKept
  <1>1. ClosedBy(k)' = ClosedBy(k)
    BY ClosedByStays
  <1>2. ClosedBy(k) <= book[k].filled /\ book[k].filled <= book'[k].filled
    BY DEF ClosesKept, BookGoesOn
  <1>3. book[k].filled \in Nat /\ book'[k].filled \in Nat /\ ClosedBy(k) \in Int
    <2>1. book[k].filled \in Nat
      BY BookNumbers DEF ClientOrder
    <2>2. \A c \in DOMAIN book : Size(c) \in Nat
      BY BookNumbers DEF ClientOrder, Size
    <2> DEFINE f == [c \in DOMAIN book |-> Size(c)]
               S == {c \in DOMAIN book : book[c].closes = k}
    <2>3. IsFiniteSet(S) /\ \A c \in S : f[c] \in Int
      BY <2>2, BookNumbers, FS_Subset
    <2>4. ClosedBy(k) = SumFunctionOnSet(f, S)
      BY DEF ClosedBy
    <2> HIDE DEF f, S
    <2>5. ClosedBy(k) \in Int
      BY <2>3, <2>4, SumInt
    <2>6. book'[k].filled \in Nat
      <3>1. book' \in Seq(ClientOrder)
        BY DEF BookKept, ClientOrder, Instruments
      <3>2. DOMAIN book' = 1..Len(book') /\ Len(book') \in Nat
        BY <3>1, LenProperties
      <3>3. book'[k] \in ClientOrder
        BY <3>1, <3>2, ElementOfSeq
      <3> QED BY <3>3 DEF ClientOrder
    <2> QED BY <2>1, <2>5, <2>6
  <1>4. Waits(k)' => \A c \in DOMAIN book' : book'[c].closes # k
    BY DEF ClosesKept, BookGoesOn
  <1> QED BY <1>1, <1>2, <1>3, <1>4

\* One that closes k first takes what it asks for, and no other sum changes.
LEMMA ClosedByLonger ==
    ASSUME BookKept, BookKept', DOMAIN book' = DOMAIN book \cup {NextOrder},
           \A j \in DOMAIN book : book'[j] = book[j],
           NEW k \in DOMAIN book'
    PROVE  /\ book'[NextOrder].closes # k => ClosedBy(k)' = ClosedBy(k)
           /\ book'[NextOrder].closes = k /\ (\A c \in DOMAIN book : book[c].closes # k)
                 => ClosedBy(k)' = SizeOf(book'[NextOrder])
           /\ k = NextOrder => ClosedBy(k) = 0
  <1> DEFINE n == NextOrder
             f == [c \in DOMAIN book |-> Size(c)]
             g == [c \in DOMAIN book' |-> Size(c)']
             S == {c \in DOMAIN book : book[c].closes = k}
             T == {c \in DOMAIN book' : book'[c].closes = k}
  <1>1. /\ n \notin DOMAIN book /\ n = Len(book) + 1 /\ Len(book) \in Nat
        /\ \A c \in DOMAIN book : Size(c) \in Int
        /\ IsFiniteSet(DOMAIN book)
    BY BookNumbers DEF Size, ClientOrder
  <1>2. IsFiniteSet(S) /\ \A c \in S : c \in DOMAIN book
    BY <1>1, FS_Subset
  <1>3. \A c \in DOMAIN book : g[c] = f[c] /\ f[c] \in Int
    BY <1>1 DEF Size
  <1>4. ClosedBy(k) = SumFunctionOnSet(f, S) /\ ClosedBy(k)' = SumFunctionOnSet(g, T)
    BY DEF ClosedBy
  <1>5. T = IF book'[n].closes = k THEN S \cup {n} ELSE S
    BY <1>1
  <1>6. g[n] = SizeOf(book'[n]) /\ n \in DOMAIN book'
    BY DEF Size, SizeOf
  <1>7. S = {c \in DOMAIN book : book[c].closes = k}
    OBVIOUS
  <1>8. \A c \in DOMAIN book : book[c].closes <= Len(book) /\ book[c].closes \in Nat
    BY BookNumbers DEF BookKept, ClientOrder
  <1>9. book'[n].qty \in Int
    <2>1. book' \in Seq(ClientOrder)
      BY DEF BookKept, ClientOrder, Instruments
    <2>2. DOMAIN book' = 1..Len(book') /\ Len(book') \in Nat
      BY <2>1, LenProperties
    <2>3. book'[n] \in ClientOrder
      BY <1>6, <2>1, <2>2, ElementOfSeq
    <2> QED BY <2>3 DEF ClientOrder
  <1>10. SizeOf(book'[n]) \in Int
    <2> HIDE DEF n
    <2> QED BY <1>9 DEF SizeOf
  <1> HIDE DEF n, f, g, S, T
  <1>11. SumFunctionOnSet(g, S) = SumFunctionOnSet(f, S)
    BY <1>2, <1>3, SumEqual
  <1>12. ASSUME book'[n].closes # k PROVE ClosedBy(k)' = ClosedBy(k)
    BY <1>4, <1>5, <1>11, <1>12
  <1>13. ASSUME book'[n].closes = k, \A c \in DOMAIN book : book[c].closes # k
         PROVE  ClosedBy(k)' = SizeOf(book'[n])
    <2>1. S = {}
      BY <1>7, <1>13
    <2>2. T = {} \cup {n}
      BY <1>5, <1>13, <2>1
    <2>3. IsFiniteSet({}) /\ n \notin {} /\ \A y \in {} \cup {n} : g[y] \in Int
      BY <1>6, <1>10, FS_EmptySet
    <2>4. SumFunctionOnSet(g, {} \cup {n}) = g[n] + SumFunctionOnSet(g, {})
      BY <2>3, SumAdd
    <2>5. SumFunctionOnSet(g, {}) = 0
      BY SumEmpty
    <2> QED BY <1>4, <1>6, <1>10, <2>2, <2>4, <2>5
  <1>14. ASSUME k = n PROVE ClosedBy(k) = 0
    <2>1. S = {}
      BY <1>1, <1>7, <1>8, <1>14
    <2> QED BY <1>4, <2>1, SumEmpty
  <1> QED BY <1>12, <1>13, <1>14 DEF n

\* An order that closes nothing.
LEMMA ClosesWhileOpening ==
    ASSUME BookKept, BookKept', BookGoesOn, ClosesKept,
           DOMAIN book' = DOMAIN book \cup {NextOrder},
           \A j \in DOMAIN book : book'[j] = book[j],
           book'[NextOrder].closes = 0, faults' = faults,
           \A k \in DOMAIN book' : Waits(k)' => Waits(k) \/ k = NextOrder
    PROVE  ClosesKept'
  <1>0. faults' = faults /\ book'[NextOrder].closes = 0
    OBVIOUS
  <1> SUFFICES ASSUME faults = 0, NEW k \in DOMAIN book'
               PROVE  /\ ClosedBy(k)' <= book'[k].filled
                      /\ Waits(k)' => \A c \in DOMAIN book' : book'[c].closes # k
    BY <1>0 DEF ClosesKept
  <1>1. /\ NextOrder \notin DOMAIN book /\ NextOrder = Len(book) + 1 /\ Len(book) \in Nat
        /\ DOMAIN book = 1..Len(book)
        /\ \A c \in DOMAIN book : book[c].closes <= Len(book) /\ book[c].closes \in Nat
    BY BookNumbers DEF BookKept, ClientOrder
  <1>2. k # 0
    BY <1>1
  <1>3. ClosedBy(k)' = ClosedBy(k) /\ (k = NextOrder => ClosedBy(k) = 0)
    BY <1>0, <1>2, ClosedByLonger
  <1>4. CASE k \in DOMAIN book
    <2>1. ClosedBy(k) <= book[k].filled /\ (Waits(k) => \A c \in DOMAIN book : book[c].closes # k)
      BY <1>4 DEF ClosesKept
    <2> QED BY <1>0, <1>1, <1>2, <1>3, <1>4, <2>1
  <1>5. CASE k = NextOrder
    <2>1. book'[k].filled \in Nat
      <3>1. book' \in Seq(ClientOrder)
        BY DEF BookKept, ClientOrder, Instruments
      <3>2. DOMAIN book' = 1..Len(book') /\ Len(book') \in Nat
        BY <3>1, LenProperties
      <3>3. book'[k] \in ClientOrder
        BY <3>1, <3>2, ElementOfSeq
      <3> QED BY <3>3 DEF ClientOrder
    <2>2. \A c \in DOMAIN book' : book'[c].closes # k
      BY <1>0, <1>1, <1>2, <1>5
    <2> QED BY <1>3, <1>5, <2>1, <2>2
  <1> QED BY <1>4, <1>5

\* An order that closes h, which waited, by what h has filled.
LEMMA ClosesWhileClosing ==
    ASSUME BookKept, BookKept', BookGoesOn, ClosesKept,
           DOMAIN book' = DOMAIN book \cup {NextOrder},
           \A j \in DOMAIN book : book'[j] = book[j],
           NEW h \in DOMAIN book, book'[NextOrder].closes = h, Waits(h),
           SizeOf(book'[NextOrder]) = book[h].filled, faults' = faults,
           \A k \in DOMAIN book' : Waits(k)' => Waits(k) /\ k \in DOMAIN book /\ k # h
    PROVE  ClosesKept'
  <1>0. faults' = faults /\ book'[NextOrder].closes = h
    OBVIOUS
  <1> SUFFICES ASSUME faults = 0, NEW k \in DOMAIN book'
               PROVE  /\ ClosedBy(k)' <= book'[k].filled
                      /\ Waits(k)' => \A c \in DOMAIN book' : book'[c].closes # k
    BY <1>0 DEF ClosesKept
  <1>1. /\ NextOrder \notin DOMAIN book /\ NextOrder = Len(book) + 1 /\ Len(book) \in Nat
        /\ DOMAIN book = 1..Len(book)
        /\ \A c \in DOMAIN book : book[c].closes <= Len(book) /\ book[c].closes \in Nat /\ book[c].filled \in Nat
    BY BookNumbers DEF BookKept, ClientOrder
  <1>2. \A c \in DOMAIN book : book[c].closes # h
    BY DEF ClosesKept
  <1>3. /\ k # h => ClosedBy(k)' = ClosedBy(k)
        /\ k = h => ClosedBy(k)' = SizeOf(book'[NextOrder])
        /\ k = NextOrder => ClosedBy(k) = 0
    BY <1>0, <1>2, ClosedByLonger
  <1>4. CASE k \in DOMAIN book
    <2>1. ClosedBy(k) <= book[k].filled /\ (Waits(k) => \A c \in DOMAIN book : book[c].closes # k)
      BY <1>4 DEF ClosesKept
    <2>2. ClosedBy(k)' <= book'[k].filled
      BY <1>1, <1>3, <1>4, <2>1
    <2> QED BY <1>0, <1>1, <1>4, <2>1, <2>2
  <1>5. CASE k = NextOrder
    <2>1. book'[k].filled \in Nat
      <3>1. book' \in Seq(ClientOrder)
        BY DEF BookKept, ClientOrder, Instruments
      <3>2. DOMAIN book' = 1..Len(book') /\ Len(book') \in Nat
        BY <3>1, LenProperties
      <3>3. book'[k] \in ClientOrder
        BY <3>1, <3>2, ElementOfSeq
      <3> QED BY <3>3 DEF ClientOrder
    <2>2. k # h
      BY <1>1, <1>5
    <2> QED BY <1>1, <1>3, <1>5, <2>1, <2>2
  <1> QED BY <1>4, <1>5

\* Once a fault has occurred nothing is claimed of the closing orders.
LEMMA ClosesVoid == ASSUME faults \in Nat, Fault PROVE ClosesKept' /\ faults' \in Nat
  BY DEF Fault, ClosesKept

------------------------------------------------------------------------------
(* The steps. *)

\* One in which the thread stays where it is.
LEMMA SameOpKeeps ==
    ASSUME ClientInductive, BookKept', BookGoesOn, CopiesTrue', DOMAIN book' = DOMAIN book,
           DOMAIN mine' = DOMAIN mine, DOMAIN cache \subseteq DOMAIN cache',
           UNCHANGED <<trades, op, faults>>
    PROVE  ClientInductive'
  <1>1. BookKept /\ CopiesTrue /\ TradesKept /\ OpKept /\ KillKept /\ ClosesKept /\ faults \in Nat
    BY DEF ClientInductive
  <1>2. TradesKept'
    BY <1>1, TradesStay
  <1>3. \A t \in DOMAIN trades : OrdersOf(t)' = OrdersOf(t)
    BY DEF OrdersOf
  <1>4. OpKept'
    BY <1>1, <1>3 DEF OpKept, OpeningKept, ClosingKept, ClientLeg, Instruments
  <1>5. \A k \in DOMAIN book : Waits(k)' => Waits(k)
    BY <1>3 DEF Waits
  <1>6. ClosesKept'
    BY <1>1, <1>5, ClosesStay
  <1>7. \A k \in DOMAIN book : (Working(k)' => Working(k)) /\ book'[k].symbol = book[k].symbol
    BY DEF BookGoesOn, Working
  <1>8. KillKept'
    BY <1>1, <1>7 DEF KillKept, NoneWorks
  <1> QED BY <1>1, <1>2, <1>4, <1>6, <1>8 DEF ClientInductive

\* One between operations that neither open nor close a trade.
LEMMA OtherOpKeeps ==
    ASSUME ClientInductive, CopiesTrue', UNCHANGED <<book, mine, trades>>,
           faults' = faults \/ Fault,
           op.kind \notin {"open", "close"}, op'.kind \notin {"open", "close"}, OpKept', KillKept'
    PROVE  ClientInductive'
  <1>1. BookKept /\ CopiesTrue /\ TradesKept /\ OpKept /\ KillKept /\ ClosesKept /\ faults \in Nat
    BY DEF ClientInductive
  <1>2. TradesKept'
    BY <1>1, TradesStay
  <1>3. \A t \in DOMAIN trades : OrdersOf(t)' = OrdersOf(t)
    BY DEF OrdersOf
  <1>4. BookKept' /\ BookGoesOn
    <2>1. \A k \in DOMAIN book : book[k].filled \in Nat
      BY <1>1, BookNumbers DEF ClientOrder
    <2> QED BY <1>1, <2>1 DEF BookKept, BookGoesOn, ClientOrder, Instruments, GoodOrder, SizeOf
  <1>5. \A k \in DOMAIN book : Waits(k)' => Waits(k)
    BY <1>3 DEF Waits
  <1>6. faults' \in Nat /\ (faults' = 0 => faults = 0)
    BY <1>1 DEF Fault
  <1>7. ClosesKept'
    BY <1>1, <1>4, <1>5, <1>6, ClosesStay
  <1> QED BY <1>2, <1>4, <1>6, <1>7 DEF ClientInductive

\* The exchange fills an order.
LEMMA FillKeeps == ASSUME ClientInductive, NEW k \in DOMAIN book, Fill(k) PROVE ClientInductive'
  <1>1. BookKept /\ CopiesTrue
    BY DEF ClientInductive
  <1>2. BookKept' /\ BookGoesOn /\ DOMAIN book' = DOMAIN book
    BY <1>1, FillStep
  <1>3. mine' = mine /\ cache' = cache /\ UNCHANGED <<trades, op, faults>>
    BY DEF Fill
  <1>4. CopiesTrue'
    BY <1>1, <1>2, <1>3, CopiesStay
  <1> QED BY <1>2, <1>3, <1>4, SameOpKeeps

\* Reading one order, whose answer updates the cached object in place, keeps the
\* client's invariant.
LEMMA GetOrderKeeps == ASSUME ClientInductive, GetOrder PROVE ClientInductive'
  <1>1. BookKept /\ CopiesTrue
    BY DEF ClientInductive
  <1>2. PICK k \in DOMAIN mine : cache' = Updated(cache, [j \in {k} |-> Hydrated(j)])
    BY DEF GetOrder
  <1>3. /\ book' = book /\ mine' = mine /\ UNCHANGED <<trades, op, faults>>
        /\ {k} \in SUBSET DOMAIN book
    BY <1>1 DEF GetOrder, Fine, CopiesTrue
  <1>4. CopiesTrue' /\ DOMAIN cache' = DOMAIN cache \cup {k}
    BY <1>1, <1>2, <1>3, ReadingKeepsCopies
  <1>5. BookKept' /\ BookGoesOn
    <2>1. \A j \in DOMAIN book : book[j].filled \in Nat
      BY <1>1, BookNumbers DEF ClientOrder
    <2> QED BY <1>1, <1>3, <2>1 DEF BookKept, BookGoesOn, ClientOrder, Instruments, GoodOrder, SizeOf
  <1> QED BY <1>3, <1>4, <1>5, SameOpKeeps

\* Neither the connection nor the cooldown matters.
LEMMA NothingKeeps ==
    ASSUME ClientInductive, UNCHANGED <<book, mine, cache, trades, op, faults>>
    PROVE  ClientInductive'
  <1>1. BookKept /\ CopiesTrue
    BY DEF ClientInductive
  <1>2. BookKept' /\ BookGoesOn /\ CopiesTrue' /\ DOMAIN book' = DOMAIN book
    BY <1>1, BookStays
  <1> QED BY <1>2, SameOpKeeps

\* The positions are read, for themselves or at the end of a kill.
LEMMA PositionsKeep ==
    ASSUME ClientInductive, Connect \/ GetPositions \/ ReadKind \/ EndPositions
    PROVE  ClientInductive'
  <1>1. BookKept /\ CopiesTrue /\ OpKept /\ KillKept
    BY DEF ClientInductive
  <1>2. UNCHANGED <<book, mine, cache, trades>>
    BY DEF Connect, GetPositions, ReadKind, EndPositions
  <1>3. CopiesTrue'
    BY <1>1, <1>2, BookStays
  <1>4. CASE Connect \/ GetPositions
    <2>1. op = Idle /\ op' = Reading(Kinds, Empty, Idle) /\ faults' = faults
      BY <1>4 DEF Connect, GetPositions, Fine
    <2>2. op.kind = "idle" /\ op'.kind = "positions" /\ op'.back = Idle /\ op'.back.kind = "idle"
      BY <2>1 DEF Idle, Reading
    <2>3. OpKept' /\ KillKept'
      BY <2>2 DEF OpKept, KillKept
    <2> QED BY <1>2, <1>3, <2>1, <2>2, <2>3, OtherOpKeeps
  <1>5. CASE ReadKind
    <2>1. PICK todo, found : op.kind = "positions" /\ op' = Reading(todo, found, op.back)
                             /\ (faults' = faults \/ Fault)
      BY <1>5 DEF ReadKind, Fine
    <2>2. op'.kind = "positions" /\ op'.back = op.back
      BY <2>1 DEF Reading
    <2>3. OpKept'
      BY <1>1, <2>1, <2>2 DEF OpKept
    <2>4. NoneWorks' <=> NoneWorks
      BY <1>2 DEF NoneWorks, Working
    <2>5. KillKept'
      BY <1>1, <2>1, <2>2, <2>4 DEF KillKept
    <2> QED BY <1>2, <1>3, <2>1, <2>2, <2>3, <2>5, OtherOpKeeps
  <1>6. CASE EndPositions
    <2>1. op.kind = "positions" /\ op' = op.back /\ faults' = faults
      BY <1>6 DEF EndPositions, Fine
    <2>2. op'.kind \in {"idle", "unwind"}
      BY <1>1, <2>1 DEF OpKept
    <2>3. OpKept'
      BY <2>2 DEF OpKept
    <2>4. NoneWorks' <=> NoneWorks
      BY <1>2 DEF NoneWorks, Working
    <2>5. KillKept'
      BY <1>1, <2>1, <2>2, <2>4 DEF KillKept
    <2> QED BY <1>2, <1>3, <2>1, <2>2, <2>3, <2>5, OtherOpKeeps
  <1> QED BY <1>4, <1>5, <1>6

\* The kill switch begins to list, has cancelled, or is done.
LEMMA KillSwitchKeeps ==
    ASSUME ClientInductive, Kill \/ CancelsDone \/ CloseAllPositions \/ AfterKill
    PROVE  ClientInductive'
  <1>1. BookKept /\ CopiesTrue /\ OpKept /\ KillKept
    BY DEF ClientInductive
  <1>2. UNCHANGED <<book, mine, cache, trades, faults>>
    BY DEF Kill, CancelsDone, CloseAllPositions, AfterKill, Fine
  <1>3. CopiesTrue'
    BY <1>1, <1>2, BookStays
  <1>4. NoneWorks' <=> NoneWorks
    BY <1>2 DEF NoneWorks, Working
  <1>5. CASE Kill
    <2>1. op.kind = "idle" /\ op'.kind = "list" /\ op'.todo = Kinds /\ op'.found = {}
      BY <1>5 DEF Kill, Idle, Listing
    <2>2. OpKept'
      BY <2>1 DEF OpKept
    <2>3. \A k \in DOMAIN book : \E kind \in Kinds : book[k].symbol \in kind
      <3>1. \A k \in DOMAIN book : book[k].symbol \in Instruments
        BY <1>1, BookNumbers DEF ClientOrder
      <3> QED BY <3>1 DEF Instruments, Kinds
    <2>4. KillKept'
      BY <1>2, <2>1, <2>3 DEF KillKept
    <2> QED BY <1>2, <1>3, <2>1, <2>2, <2>4, OtherOpKeeps
  <1>6. CASE CancelsDone
    <2>1. /\ op.kind = "list" /\ op.todo = {} /\ op.found = {}
          /\ op'.kind = "positions" /\ op'.back = [kind |-> "unwind", smooth |-> op.smooth]
      BY <1>6 DEF CancelsDone, Reading
    <2> DEFINE smooth == op.smooth
               back == op'.back
    <2>2. back.kind = "unwind" /\ back.smooth = smooth
      BY <2>1
    <2>3. OpKept'
      BY <2>1, <2>2 DEF OpKept
    <2>4. smooth => NoneWorks
      BY <1>1, <2>1 DEF KillKept, NoneWorks
    <2>5. back.smooth => NoneWorks
      BY ONLY <2>2, <2>4, Zenon
    <2>6. KillKept'
      BY <1>4, <2>1, <2>5 DEF KillKept
    <2> QED BY <1>2, <1>3, <2>1, <2>3, <2>6, OtherOpKeeps
  <1>7. CASE CloseAllPositions
    <2>1. op.kind = "unwind" /\ op'.kind = "killed" /\ op'.smooth = op.smooth
      BY <1>7 DEF CloseAllPositions
    <2>2. OpKept'
      BY <2>1 DEF OpKept
    <2>3. op.smooth => NoneWorks
      BY <1>1, <2>1 DEF KillKept
    <2>4. op'.smooth => NoneWorks
      BY ONLY <2>1, <2>3, Zenon
    <2>5. KillKept'
      BY <1>4, <2>1, <2>4 DEF KillKept
    <2> QED BY <1>2, <1>3, <2>1, <2>2, <2>5, OtherOpKeeps
  <1>8. CASE AfterKill
    <2>1. op.kind = "killed" /\ op'.kind = "idle"
      BY <1>8 DEF AfterKill, Idle
    <2>2. OpKept' /\ KillKept'
      BY <2>1 DEF OpKept, KillKept
    <2> QED BY <1>2, <1>3, <2>1, <2>2, OtherOpKeeps
  <1> QED BY <1>5, <1>6, <1>7, <1>8

\* It lists the orders of a kind, or fails to.
LEMMA ListKindKeeps == ASSUME ClientInductive, ListKind PROVE ClientInductive'
  <1>1. BookKept /\ CopiesTrue /\ OpKept /\ KillKept
    BY DEF ClientInductive
  <1>2. UNCHANGED <<book, mine, trades>> /\ op.kind = "list"
    BY DEF ListKind
  <1> DEFINE rows(kind) == {k \in DOMAIN book : Working(k) /\ book[k].symbol \in kind}
  <1>3. PICK kind \in op.todo :
            \/ /\ Fine
               /\ cache' = Updated(cache, [k \in rows(kind) |-> Hydrated(k)])
               /\ op' = Listing(op.todo \ {kind}, op.found \cup rows(kind), op.smooth)
            \/ /\ Fault /\ cache' = cache
               /\ op' = Listing(op.todo \ {kind}, op.found, FALSE)
    BY DEF ListKind
  <1>4. CASE /\ Fine
             /\ cache' = Updated(cache, [k \in rows(kind) |-> Hydrated(k)])
             /\ op' = Listing(op.todo \ {kind}, op.found \cup rows(kind), op.smooth)
    <2>1. rows(kind) \in SUBSET DOMAIN book
      OBVIOUS
    <2>2. \A k \in DOMAIN book : k \in rows(kind) <=> Working(k) /\ book[k].symbol \in kind
      OBVIOUS
    <2>3. /\ op'.kind = "list" /\ op'.todo = op.todo \ {kind}
          /\ op'.found = op.found \cup rows(kind) /\ op'.smooth = op.smooth
      BY <1>4 DEF Listing
    <2>4. cache' = Updated(cache, [k \in rows(kind) |-> Hydrated(k)]) /\ faults' = faults
      BY <1>4 DEF Fine
    <2> HIDE DEF rows
    <2>5. CopiesTrue' /\ DOMAIN cache' = DOMAIN cache \cup rows(kind)
      BY <1>1, <1>2, <2>1, <2>4, ReadingKeepsCopies
    <2>6. OpKept'
      BY <1>1, <1>2, <2>3, <2>5 DEF OpKept
    <2>7. op.smooth => \A k \in DOMAIN book : Working(k) =>
              k \in op.found \/ \E q \in op.todo : book[k].symbol \in q
      BY <1>1, <1>2 DEF KillKept
    <2>8. op.smooth => \A k \in DOMAIN book : Working(k) =>
              k \in op'.found \/ \E q \in op'.todo : book[k].symbol \in q
      <3> SUFFICES ASSUME op.smooth, NEW k \in DOMAIN book, Working(k), k \notin op'.found
                   PROVE  \E q \in op'.todo : book[k].symbol \in q
        OBVIOUS
      <3>1. k \notin op.found /\ k \notin rows(kind)
        BY <2>3
      <3>2. PICK q \in op.todo : book[k].symbol \in q
        BY <2>7, <3>1
      <3>3. q # kind
        BY <2>2, <3>1, <3>2
      <3> QED BY <2>3, <3>2, <3>3
    <2>9. op'.smooth => \A k \in DOMAIN book : Working(k) =>
              k \in op'.found \/ \E q \in op'.todo : book[k].symbol \in q
      BY ONLY <2>3, <2>8, Zenon
    <2>10. KillKept'
      <3>1. \A k \in DOMAIN book : Working(k)' <=> Working(k)
        BY <1>2 DEF Working
      <3> QED BY <1>2, <2>3, <2>9, <3>1 DEF KillKept
    <2> QED BY <1>2, <2>3, <2>4, <2>5, <2>6, <2>10, OtherOpKeeps
  <1>5. CASE Fault /\ cache' = cache /\ op' = Listing(op.todo \ {kind}, op.found, FALSE)
    <2>1. op'.kind = "list" /\ op'.found = op.found /\ op'.smooth = FALSE
      BY <1>5 DEF Listing
    <2>2. CopiesTrue'
      BY <1>1, <1>2, <1>5, BookStays
    <2>3. OpKept'
      BY <1>1, <1>2, <1>5, <2>1 DEF OpKept
    <2>4. KillKept'
      BY <2>1 DEF KillKept
    <2> QED BY <1>2, <1>5, <2>1, <2>2, <2>3, <2>4, OtherOpKeeps
  <1> QED BY <1>3, <1>4, <1>5

\* It has one cancelled, or finds that it no longer works, or fails to.
LEMMA CancelNextKeeps == ASSUME ClientInductive, CancelNext PROVE ClientInductive'
  <1>1. BookKept /\ CopiesTrue /\ OpKept /\ KillKept /\ TradesKept /\ ClosesKept /\ faults \in Nat
    BY DEF ClientInductive
  <1>2. UNCHANGED trades /\ op.kind = "list" /\ op.todo = {}
    BY DEF CancelNext
  <1>3. PICK k \in op.found :
            \/ CancelOrder(k) /\ op' = Listing({}, op.found \ {k}, op.smooth)
            \/ CancelRefused(k) /\ op' = Listing({}, op.found \ {k}, op.smooth)
            \/ CancelFails(k) /\ op' = Listing({}, op.found \ {k}, FALSE)
    BY DEF CancelNext
  <1>4. k \in DOMAIN cache /\ op.found \subseteq DOMAIN cache
    BY <1>1, <1>2 DEF OpKept
  <1>5. \A t \in DOMAIN trades : OrdersOf(t)' = OrdersOf(t)
    BY <1>2 DEF OrdersOf
  <1>6. op'.kind = "list" /\ op'.todo = {} /\ op'.found = op.found \ {k}
    BY <1>3 DEF Listing
  <1>7. \A j \in DOMAIN book : Waits(j)' => Waits(j)
    BY <1>2, <1>5, <1>6 DEF Waits
  <1>8. op.smooth => \A j \in DOMAIN book : Working(j) => j \in op.found
    BY <1>1, <1>2 DEF KillKept
  <1>9. ASSUME BookKept', BookGoesOn, CopiesTrue', DOMAIN book' = DOMAIN book,
               mine' = mine, DOMAIN cache' = DOMAIN cache, faults' = faults \/ Fault, KillKept'
        PROVE  ClientInductive'
    <2>1. TradesKept'
      BY <1>1, <1>2, <1>9, TradesStay
    <2>2. OpKept'
      BY <1>4, <1>6, <1>9 DEF OpKept
    <2>3. faults' \in Nat /\ (faults' = 0 => faults = 0)
      BY <1>1, <1>9 DEF Fault
    <2>4. ClosesKept'
      BY <1>1, <1>7, <1>9, <2>3, ClosesStay
    <2> QED BY <1>9, <2>1, <2>2, <2>3, <2>4 DEF ClientInductive
  <1>10. ASSUME BookGoesOn, DOMAIN book' = DOMAIN book, op'.smooth = op.smooth,
                k \in DOMAIN book => ~Working(k)'
         PROVE  KillKept'
    <2>1. op'.smooth => \A j \in DOMAIN book' : Working(j)' => j \in op'.found
      <3>1. \A j \in DOMAIN book : Working(j)' => Working(j)
        BY <1>10 DEF BookGoesOn, Working
      <3>2. op'.smooth => \A j \in DOMAIN book : Working(j) => j \in op.found
        BY ONLY <1>8, <1>10, Zenon
      <3> QED BY <1>6, <1>10, <3>1, <3>2
    <2> QED BY <1>6, <2>1 DEF KillKept
  <1>11. CASE CancelOrder(k) /\ op' = Listing({}, op.found \ {k}, op.smooth)
    <2>1. /\ BookKept' /\ BookGoesOn /\ CopiesTrue' /\ DOMAIN book' = DOMAIN book
          /\ book'[k].state = "cancelled" /\ mine' = mine /\ DOMAIN cache' = DOMAIN cache
      BY <1>1, <1>4, <1>11, CancelKeepsCopies
    <2>2. faults' = faults /\ op'.smooth = op.smooth /\ ~Working(k)'
      BY <1>11, <2>1 DEF CancelOrder, Fine, Listing, Working
    <2> QED BY <1>9, <1>10, <2>1, <2>2
  <1>12. CASE CancelRefused(k) /\ op' = Listing({}, op.found \ {k}, op.smooth)
    <2>1. UNCHANGED <<book, cache, mine, faults>> /\ op'.smooth = op.smooth
      BY <1>12 DEF CancelRefused, Fine, Listing
    <2>2. BookKept' /\ BookGoesOn /\ CopiesTrue' /\ DOMAIN book' = DOMAIN book
      BY <1>1, <2>1, BookStays
    <2>3. ~Working(k)
      <3>1. TrueOf(cache[k], book[k]) /\ Known(k) /\ Cached(k) = cache[k]
        BY <1>1, <1>4 DEF CopiesTrue, Known, Cached
      <3>2. ~(cache[k].status # "complete" /\ Working(k))
        BY <1>12, <3>1 DEF CancelRefused
      <3> QED BY <3>1, <3>2 DEF TrueOf, Working
    <2>4. ~Working(k)'
      BY <2>1, <2>3 DEF Working
    <2> QED BY <1>9, <1>10, <2>1, <2>2, <2>4
  <1>13. CASE CancelFails(k) /\ op' = Listing({}, op.found \ {k}, FALSE)
    <2>1. UNCHANGED <<cache, mine>> /\ Fault /\ op'.smooth = FALSE
      BY <1>13 DEF CancelFails, Listing
    <2>2. BookKept' /\ BookGoesOn /\ CopiesTrue' /\ DOMAIN book' = DOMAIN book
      <3>1. CASE book' = book
        BY <1>1, <2>1, <3>1, BookStays
      <3>2. CASE Working(k) /\ CancelAtExchange(k)
        <4>1. k \in DOMAIN book
          BY <1>1, <1>4 DEF CopiesTrue
        <4>2. BookKept' /\ BookGoesOn /\ DOMAIN book' = DOMAIN book
          BY <1>1, <3>2, <4>1, CancelStep
        <4> QED BY <1>1, <2>1, <4>2, CopiesStay
      <3> QED BY <1>13, <3>1, <3>2 DEF CancelFails
    <2>3. KillKept'
      BY <1>6, <2>1 DEF KillKept
    <2> QED BY <1>9, <2>1, <2>2, <2>3
  <1> QED BY <1>3, <1>11, <1>12, <1>13

\* What closes an order that has filled asks for what it filled.
LEMMA WhatCloses ==
    ASSUME BookKept, CopiesTrue, NEW k \in DOMAIN mine, Closes(k)
    PROVE  /\ Against(k).symbol \in Instruments /\ Against(k).qty \in Int \ {0}
           /\ k \in 0..Len(book) /\ k \in DOMAIN book
           /\ (IF Against(k).qty > 0 THEN Against(k).qty ELSE -Against(k).qty) = book[k].filled
  <1>1. /\ k \in DOMAIN book /\ TrueOf(mine[k], book[k]) /\ mine[k].status = "complete"
    BY DEF CopiesTrue, Closes
  <1>2. /\ book[k] \in ClientOrder /\ GoodOrder(book[k]) /\ k \in 0..Len(book)
    BY <1>1, BookNumbers DEF BookKept
  <1> DEFINE q == book[k].qty
             f == book[k].filled
             a == IF q > 0 THEN -f ELSE f
  <1>3. mine[k].filled = f /\ f = SizeOf(book[k])
    BY <1>1, <1>2 DEF TrueOf, GoodOrder
  <1>4. q \in Int /\ q # 0 /\ f = IF q > 0 THEN q ELSE -q
    BY <1>2, <1>3 DEF ClientOrder, SizeOf
  <1>5. Against(k).qty = a /\ Against(k).symbol = book[k].symbol
    BY <1>3 DEF Against
  <1> HIDE DEF q, f
  <1>6. a \in Int /\ a # 0 /\ (IF a > 0 THEN a ELSE -a) = f
    BY <1>4
  <1> HIDE DEF a
  <1> QED BY <1>1, <1>2, <1>5, <1>6 DEF ClientOrder, f

\* A plan is begun.
LEMMA ExecutePlanKeeps == ASSUME ClientInductive, ExecutePlan PROVE ClientInductive'
  <1>1. BookKept /\ CopiesTrue /\ TradesKept /\ ClosesKept /\ faults \in Nat
    BY DEF ClientInductive
  <1>2. UNCHANGED <<book, mine, cache, trades, faults>> /\ op.kind = "idle"
    BY DEF ExecutePlan, Fine, Idle
  <1>3. PICK p \in Plans : op' = Opening(p, <<>>)
    BY DEF ExecutePlan
  <1>4. op'.kind = "open" /\ op'.plan = p /\ op'.placed = <<>> /\ p \in Seq(ClientLeg)
    BY <1>3, PlansAssumption DEF Opening
  <1>5. op'.placed \in Seq(Nat) /\ Range(op'.placed) = {} /\ IsInjective(op'.placed)
    BY <1>4, EmptySeq DEF Range, IsInjective
  <1>6. OpKept'
    BY <1>4, <1>5 DEF OpKept, OpeningKept, ClientLeg, Instruments
  <1>7. KillKept'
    BY <1>4 DEF KillKept
  <1>8. BookKept' /\ BookGoesOn /\ CopiesTrue' /\ DOMAIN book' = DOMAIN book
    BY <1>1, <1>2, BookStays
  <1>9. TradesKept'
    BY <1>1, <1>2, TradesStay
  <1>10. \A t \in DOMAIN trades : OrdersOf(t)' = OrdersOf(t)
    BY <1>2 DEF OrdersOf
  <1>11. \A k \in DOMAIN book : Waits(k)' => Waits(k)
    BY <1>2, <1>4, <1>5, <1>10 DEF Waits
  <1>12. ClosesKept'
    BY <1>1, <1>2, <1>8, <1>11, ClosesStay
  <1> QED BY <1>1, <1>2, <1>6, <1>7, <1>8, <1>9, <1>12 DEF ClientInductive

\* A leg is placed,
LEMMA PlaceLegKeeps == ASSUME ClientInductive, PlaceLeg PROVE ClientInductive'
  <1>1. BookKept /\ CopiesTrue /\ TradesKept /\ ClosesKept /\ faults \in Nat /\ OpKept
    BY DEF ClientInductive
  <1>2. /\ op.kind = "open" /\ op.plan # <<>> /\ PlaceOrder(Head(op.plan), 0)
        /\ op' = Opening(Tail(op.plan), Append(op.placed, NextOrder)) /\ trades' = trades
    BY DEF PlaceLeg
  <1>3. OpeningKept
    BY <1>1, <1>2 DEF OpKept
  <1>4. Head(op.plan) \in ClientLeg /\ Tail(op.plan) \in Seq(ClientLeg)
    BY <1>2, <1>3, HeadTailProperties DEF OpeningKept
  <1>5. /\ Len(book) \in Nat /\ NextOrder = Len(book) + 1 /\ NextOrder \notin DOMAIN book
        /\ NextOrder \notin DOMAIN mine /\ 0 \in 0..Len(book)
    BY <1>1, BookNumbers DEF CopiesTrue
  <1>6. Head(op.plan).symbol \in Instruments /\ Head(op.plan).qty \in Int \ {0}
    BY <1>4 DEF ClientLeg
  <1>7. /\ BookKept' /\ BookGoesOn /\ CopiesTrue'
        /\ DOMAIN book' = DOMAIN book \cup {NextOrder}
        /\ \A j \in DOMAIN book : book'[j] = book[j]
        /\ book'[NextOrder].closes = 0
        /\ DOMAIN mine' = DOMAIN mine \cup {NextOrder}
    BY <1>1, <1>2, <1>5, <1>6, PlaceStep
  <1>8. faults' = faults
    BY <1>2 DEF PlaceOrder, Fine
  <1>9. /\ op'.kind = "open" /\ op'.plan = Tail(op.plan)
        /\ op'.placed = Append(op.placed, NextOrder)
    BY <1>2 DEF Opening
  <1>10. /\ op.placed \in Seq(Nat) /\ IsInjective(op.placed) /\ NextOrder \notin Range(op.placed)
         /\ NextOrder \in Nat
    BY <1>3, <1>5 DEF OpeningKept
  <1>11. /\ op'.placed \in Seq(Nat) /\ IsInjective(op'.placed)
         /\ Range(op'.placed) = Range(op.placed) \cup {NextOrder}
    BY <1>9, <1>10, OneMore
  <1>12. \A t \in DOMAIN trades : OrdersOf(t)' = OrdersOf(t) /\ OrdersOf(t) \subseteq DOMAIN mine
    BY <1>1, <1>2 DEF OrdersOf, TradesKept
  <1> DEFINE n == NextOrder
  <1>13. OpKept'
    <2> HIDE DEF n
    <2>1. /\ op'.plan \in Seq(ClientLeg) /\ Range(op'.placed) \subseteq DOMAIN mine'
          /\ \A t \in DOMAIN trades' : Range(op'.placed) \cap OrdersOf(t)' = {}
      <3>1. Range(op.placed) \subseteq DOMAIN mine
            /\ \A t \in DOMAIN trades : Range(op.placed) \cap OrdersOf(t) = {}
        BY <1>3 DEF OpeningKept
      <3>2. \A t \in DOMAIN trades : n \notin OrdersOf(t)
        BY <1>5, <1>12 DEF n
      <3>3. Range(op'.placed) = Range(op.placed) \cup {n} /\ DOMAIN mine' = DOMAIN mine \cup {n}
        BY <1>7, <1>11 DEF n
      <3> QED BY <1>2, <1>4, <1>9, <1>12, <3>1, <3>2, <3>3
    <2> QED BY <1>9, <1>11, <2>1 DEF OpKept, OpeningKept, ClientLeg, Instruments
  <1>14. KillKept'
    BY <1>9 DEF KillKept
  <1>15. TradesKept'
    BY <1>1, <1>2, <1>7, TradesStay
  <1>16. \A k \in DOMAIN book' : Waits(k)' => Waits(k) \/ k = NextOrder
    <2>1. \A k : k \in Range(op'.placed) => k \in Range(op.placed) \/ k = NextOrder
      BY <1>11
    <2> QED BY <1>2, <1>9, <1>12, <2>1 DEF Waits
  <1>17. ClosesKept'
    BY <1>1, <1>7, <1>8, <1>16, ClosesWhileOpening
  <1> QED BY <1>1, <1>7, <1>8, <1>13, <1>14, <1>15, <1>17 DEF ClientInductive

\* or the exception leaves execute_plan or close_trade.
LEMMA FailsKeep == ASSUME ClientInductive, LegFails \/ CloseFails PROVE ClientInductive'
  <1>1. BookKept /\ CopiesTrue /\ TradesKept /\ faults \in Nat /\ OpKept
    BY DEF ClientInductive
  <1>2. PICK l, of : /\ PlaceOrderFails(l, of) /\ l.symbol \in Instruments /\ l.qty \in Int \ {0}
                     /\ of \in 0..Len(book) /\ op' = Idle /\ trades' = trades
    <2>1. CASE LegFails
      <3>1. /\ op.kind = "open" /\ op.plan # <<>> /\ PlaceOrderFails(Head(op.plan), 0)
            /\ op' = Idle /\ trades' = trades
        BY <2>1 DEF LegFails
      <3>2. Head(op.plan) \in ClientLeg
        BY <1>1, <3>1, HeadTailProperties DEF OpKept, OpeningKept
      <3>3. 0 \in 0..Len(book)
        BY <1>1, BookNumbers
      <3> QED BY <3>1, <3>2, <3>3 DEF ClientLeg
    <2>2. CASE CloseFails
      <3>1. /\ op.kind = "close" /\ op.todo # <<>> /\ Closes(Head(op.todo))
            /\ PlaceOrderFails(Against(Head(op.todo)), Head(op.todo))
            /\ op' = Idle /\ trades' = trades
        BY <2>2 DEF CloseFails
      <3>2. Head(op.todo) \in Range(op.todo) /\ ClosingKept
        BY <1>1, <3>1, HeadAndTail DEF OpKept, ClosingKept
      <3>3. Head(op.todo) \in DOMAIN mine
        BY <1>1, <3>2 DEF ClosingKept, TradesKept
      <3>4. /\ Against(Head(op.todo)).symbol \in Instruments
            /\ Against(Head(op.todo)).qty \in Int \ {0} /\ Head(op.todo) \in 0..Len(book)
        BY <1>1, <3>1, <3>3, WhatCloses
      <3> QED BY <3>1, <3>4
    <2> QED BY <2>1, <2>2
  <1>3. BookKept' /\ BookGoesOn /\ CopiesTrue'
    BY <1>1, <1>2, PlaceFailsStep
  <1>4. mine' = mine /\ Fault
    BY <1>2 DEF PlaceOrderFails
  <1>5. op'.kind = "idle"
    BY <1>2 DEF Idle
  <1>6. OpKept' /\ KillKept'
    BY <1>5 DEF OpKept, KillKept
  <1>7. TradesKept'
    BY <1>1, <1>2, <1>4, TradesStay
  <1>8. ClosesKept' /\ faults' \in Nat
    BY <1>1, <1>4, ClosesVoid
  <1> QED BY <1>3, <1>6, <1>7, <1>8 DEF ClientInductive

\* The trade that is recorded has the orders that were placed.
LEMMA RecordTradeKeeps == ASSUME ClientInductive, RecordTrade PROVE ClientInductive'
  <1>1. BookKept /\ CopiesTrue /\ TradesKept /\ ClosesKept /\ faults \in Nat /\ OpKept
    BY DEF ClientInductive
  <1> DEFINE new == [orders |-> op.placed, closed |-> FALSE]
             n == Len(trades) + 1
  <1>2. /\ op.kind = "open" /\ op'.kind = "idle" /\ trades' = Append(trades, new)
        /\ UNCHANGED <<book, mine, cache, faults>>
    BY DEF RecordTrade, Fine, Idle
  <1>3. OpeningKept
    BY <1>1, <1>2 DEF OpKept
  <1>4. new \in Trade /\ new.orders = op.placed /\ new.closed = FALSE
    BY <1>3 DEF OpeningKept, Trade
  <1> HIDE DEF new
  <1>5. Len(trades) \in Nat /\ DOMAIN trades = 1..Len(trades)
    BY <1>1, LenProperties DEF TradesKept
  <1>6. /\ trades' \in Seq(Trade) /\ Len(trades') = Len(trades) + 1
        /\ \A t \in 1..Len(trades) : trades'[t] = trades[t]
        /\ trades'[Len(trades) + 1] = new
    BY <1>1, <1>2, <1>4, AppendProperties DEF TradesKept
  <1>7. /\ DOMAIN trades' = DOMAIN trades \cup {n} /\ n \notin DOMAIN trades
        /\ \A t \in DOMAIN trades : trades'[t] = trades[t]
        /\ trades'[n] = new
    <2>1. DOMAIN trades' = 1..(Len(trades) + 1)
      BY <1>5, <1>6, LenProperties
    <2> QED BY <1>5, <1>6, <2>1
  <1> HIDE DEF n
  <1>8. /\ \A t \in DOMAIN trades : OrdersOf(t)' = OrdersOf(t)
        /\ Range(trades'[n].orders) = Range(op.placed)
    BY <1>4, <1>7 DEF OrdersOf
  <1>9. TradesKept'
    <2>1. \A t \in DOMAIN trades' : Range(trades'[t].orders) \subseteq DOMAIN mine /\ IsInjective(trades'[t].orders)
      BY <1>1, <1>3, <1>4, <1>7, <1>8 DEF TradesKept, OpeningKept, OrdersOf
    <2>2. \A s, t \in DOMAIN trades : s # t => Range(trades'[s].orders) \cap Range(trades'[t].orders) = {}
      BY <1>1, <1>7 DEF TradesKept, OrdersOf
    <2>3. \A t \in DOMAIN trades : Range(op.placed) \cap Range(trades'[t].orders) = {}
      BY <1>3, <1>7 DEF OpeningKept, OrdersOf
    <2>4. \A s, t \in DOMAIN trades' : s # t => Range(trades'[s].orders) \cap Range(trades'[t].orders) = {}
      BY <1>7, <1>8, <2>2, <2>3
    <2> QED BY <1>2, <1>6, <2>1, <2>4 DEF TradesKept, OrdersOf, Trade
  <1>10. OpKept' /\ KillKept'
    BY <1>2 DEF OpKept, KillKept
  <1>11. BookKept' /\ BookGoesOn /\ CopiesTrue' /\ DOMAIN book' = DOMAIN book
    BY <1>1, <1>2, BookStays
  <1>12. \A k \in DOMAIN book : Waits(k)' => Waits(k)
    <2> SUFFICES ASSUME NEW k \in DOMAIN book, Waits(k)' PROVE Waits(k)
      OBVIOUS
    <2>1. PICK t \in DOMAIN trades' : k \in Range(trades'[t].orders) /\ ~trades'[t].closed
      BY <1>2 DEF Waits, OrdersOf
    <2>2. CASE t \in DOMAIN trades
      BY <1>2, <1>7, <2>1, <2>2 DEF Waits, OrdersOf
    <2>3. CASE t = n
      BY <1>2, <1>8, <2>1, <2>3 DEF Waits
    <2> QED BY <1>7, <2>2, <2>3
  <1>13. ClosesKept'
    BY <1>1, <1>2, <1>11, <1>12, ClosesStay
  <1> QED BY <1>1, <1>2, <1>9, <1>10, <1>11, <1>13 DEF ClientInductive

\* A trade begins to be closed: none of its orders has been.
LEMMA BeginCloseKeeps == ASSUME ClientInductive, BeginClose PROVE ClientInductive'
  <1>1. BookKept /\ CopiesTrue /\ TradesKept /\ ClosesKept /\ faults \in Nat
    BY DEF ClientInductive
  <1>2. UNCHANGED <<book, mine, cache, trades, faults>> /\ op.kind = "idle"
    BY DEF BeginClose, Fine, Idle
  <1>3. PICK t \in OpenTrades : op' = Closing(t, trades[t].orders)
    BY DEF BeginClose
  <1>4. /\ op'.kind = "close" /\ op'.trade = t /\ op'.todo = trades[t].orders
        /\ t \in DOMAIN trades /\ ~trades[t].closed
    BY <1>3 DEF Closing, OpenTrades
  <1>5. \A u \in DOMAIN trades : OrdersOf(u)' = OrdersOf(u)
    BY <1>2 DEF OrdersOf
  <1>6. op'.todo \in Seq(Nat) /\ Range(op'.todo) = OrdersOf(t) /\ IsInjective(op'.todo)
    BY <1>1, <1>4, TradeHas DEF OrdersOf, TradesKept
  <1>7. OpKept'
    BY <1>2, <1>4, <1>5, <1>6 DEF OpKept, ClosingKept
  <1>8. KillKept'
    BY <1>4 DEF KillKept
  <1>9. BookKept' /\ BookGoesOn /\ CopiesTrue' /\ DOMAIN book' = DOMAIN book
    BY <1>1, <1>2, BookStays
  <1>10. TradesKept'
    BY <1>1, <1>2, TradesStay
  <1>11. \A k \in DOMAIN book : Waits(k)' => Waits(k)
    <2> SUFFICES ASSUME NEW k \in DOMAIN book, Waits(k)' PROVE Waits(k)
      OBVIOUS
    <2>1. \E u \in DOMAIN trades : k \in OrdersOf(u) /\ ~trades[u].closed
      BY <1>2, <1>4, <1>5, <1>6 DEF Waits
    <2> QED BY <1>2, <2>1 DEF Waits
  <1>12. ClosesKept'
    BY <1>1, <1>2, <1>9, <1>11, ClosesStay
  <1> QED BY <1>1, <1>2, <1>7, <1>8, <1>9, <1>10, <1>12 DEF ClientInductive

\* The next leg of a trade that is closed.
LEMMA NextToClose ==
    ASSUME OpKept, TradesKept, op.kind = "close", op.todo # <<>>, trades' = trades,
           op' = Closing(op.trade, Tail(op.todo))
    PROVE  /\ ClosingKept /\ Head(op.todo) \in Range(op.todo) /\ Head(op.todo) \in DOMAIN mine
           /\ OpKept' /\ KillKept'
           /\ \A k : Waits(k)' => Waits(k) /\ k # Head(op.todo)
  <1>1. ClosingKept
    BY DEF OpKept
  <1> DEFINE h == Head(op.todo)
  <1>2. /\ h \in Range(op.todo) /\ Tail(op.todo) \in Seq(Nat) /\ IsInjective(Tail(op.todo))
        /\ Range(Tail(op.todo)) \subseteq Range(op.todo) \ {h}
    BY <1>1, HeadAndTail DEF ClosingKept
  <1>3. h \in OrdersOf(op.trade) /\ h \in DOMAIN mine /\ op.trade \in DOMAIN trades
    BY <1>1, <1>2 DEF ClosingKept, TradesKept
  <1>4. op'.kind = "close" /\ op'.trade = op.trade /\ op'.todo = Tail(op.todo)
    BY DEF Closing
  <1>5. \A u \in DOMAIN trades : OrdersOf(u)' = OrdersOf(u)
    BY DEF OrdersOf
  <1> HIDE DEF h
  <1>6. OpKept'
    BY <1>1, <1>2, <1>3, <1>4, <1>5 DEF OpKept, ClosingKept
  <1>7. KillKept'
    BY <1>4 DEF KillKept
  <1>8. ASSUME NEW k, Waits(k)' PROVE Waits(k) /\ k # h
    <2>1. CASE k \in Range(op'.todo)
      BY <1>2, <1>4, <2>1 DEF Waits
    <2>2. CASE \E t \in DOMAIN trades : k \in OrdersOf(t) /\ ~trades[t].closed /\ t # op.trade
      BY <1>3, <2>2 DEF Waits, TradesKept
    <2> QED BY <1>4, <1>5, <1>8, <2>1, <2>2 DEF Waits
  <1> QED BY <1>1, <1>2, <1>3, <1>6, <1>7, <1>8 DEF h

\* It is passed over,
LEMMA SkipLegKeeps == ASSUME ClientInductive, SkipLeg PROVE ClientInductive'
  <1>1. BookKept /\ CopiesTrue /\ TradesKept /\ ClosesKept /\ faults \in Nat /\ OpKept
    BY DEF ClientInductive
  <1>2. /\ UNCHANGED <<book, mine, cache, trades, faults>> /\ op.kind = "close" /\ op.todo # <<>>
        /\ op' = Closing(op.trade, Tail(op.todo))
    BY DEF SkipLeg, Fine
  <1>3. OpKept' /\ KillKept' /\ \A k : Waits(k)' => Waits(k)
    BY <1>1, <1>2, NextToClose
  <1>4. BookKept' /\ BookGoesOn /\ CopiesTrue' /\ DOMAIN book' = DOMAIN book
    BY <1>1, <1>2, BookStays
  <1>5. TradesKept'
    BY <1>1, <1>2, TradesStay
  <1>6. ClosesKept'
    BY <1>1, <1>2, <1>3, <1>4, ClosesStay
  <1> QED BY <1>1, <1>2, <1>3, <1>4, <1>5, <1>6 DEF ClientInductive

\* or an order against it goes out.
LEMMA CloseLegKeeps == ASSUME ClientInductive, CloseLeg PROVE ClientInductive'
  <1>1. BookKept /\ CopiesTrue /\ TradesKept /\ ClosesKept /\ faults \in Nat /\ OpKept
    BY DEF ClientInductive
  <1> DEFINE h == Head(op.todo)
             l == Against(h)
  <1>2. /\ op.kind = "close" /\ op.todo # <<>> /\ Closes(h) /\ PlaceOrder(l, h)
        /\ op' = Closing(op.trade, Tail(op.todo)) /\ trades' = trades
    BY DEF CloseLeg
  <1>3. /\ ClosingKept /\ h \in Range(op.todo) /\ h \in DOMAIN mine /\ OpKept' /\ KillKept'
        /\ \A k : Waits(k)' => Waits(k) /\ k # h
    BY <1>1, <1>2, NextToClose
  <1>4. /\ l.symbol \in Instruments /\ l.qty \in Int \ {0} /\ h \in 0..Len(book) /\ h \in DOMAIN book
        /\ (IF l.qty > 0 THEN l.qty ELSE -l.qty) = book[h].filled
    BY <1>1, <1>2, <1>3, WhatCloses
  <1> HIDE DEF h, l
  <1>5. /\ BookKept' /\ BookGoesOn /\ CopiesTrue'
        /\ DOMAIN book' = DOMAIN book \cup {NextOrder}
        /\ \A j \in DOMAIN book : book'[j] = book[j]
        /\ book'[NextOrder].closes = h /\ book'[NextOrder].qty = l.qty
        /\ DOMAIN mine' = DOMAIN mine \cup {NextOrder}
    BY <1>1, <1>2, <1>4, PlaceStep
  <1>6. faults' = faults
    BY <1>2 DEF PlaceOrder, Fine
  <1>7. TradesKept'
    BY <1>1, <1>2, <1>5, TradesStay
  <1>8. SizeOf(book'[NextOrder]) = book[h].filled
    BY <1>4, <1>5 DEF SizeOf
  <1>9. Waits(h)
    BY <1>2, <1>3 DEF Waits
  <1>10. \A k \in DOMAIN book' : Waits(k)' => Waits(k) /\ k \in DOMAIN book /\ k # h
    <2>1. \A k : Waits(k) => k \in DOMAIN mine
      BY <1>1, <1>2, <1>3 DEF Waits, TradesKept, ClosingKept
    <2>2. DOMAIN mine \subseteq DOMAIN book
      BY <1>1 DEF CopiesTrue
    <2> QED BY <1>3, <2>1, <2>2
  <1>11. ClosesKept'
    BY <1>1, <1>4, <1>5, <1>6, <1>8, <1>9, <1>10, ClosesWhileClosing
  <1> QED BY <1>1, <1>3, <1>5, <1>6, <1>7, <1>11 DEF ClientInductive

\* The trade is closed.
LEMMA EndCloseKeeps == ASSUME ClientInductive, EndClose PROVE ClientInductive'
  <1>1. BookKept /\ CopiesTrue /\ TradesKept /\ ClosesKept /\ faults \in Nat /\ OpKept
    BY DEF ClientInductive
  <1> DEFINE u == op.trade
             c == [orders |-> trades[u].orders, closed |-> TRUE]
  <1>2. /\ op.kind = "close" /\ op'.kind = "idle" /\ UNCHANGED <<book, mine, cache, faults>>
        /\ trades' = [trades EXCEPT ![u].closed = TRUE]
    BY DEF EndClose, Fine, Idle
  <1>3. u \in DOMAIN trades
    BY <1>1, <1>2 DEF OpKept, ClosingKept
  <1>4. trades[u] \in Trade /\ Len(trades) \in Nat /\ DOMAIN trades = 1..Len(trades)
    BY <1>1, <1>3, TradeHas
  <1>5. [trades[u] EXCEPT !.closed = TRUE] = c /\ c \in Trade /\ c.orders = trades[u].orders /\ c.closed = TRUE
    <2>1. ASSUME NEW x \in Trade, NEW v \in BOOLEAN
          PROVE  /\ [x EXCEPT !.closed = v] = [orders |-> x.orders, closed |-> v]
                 /\ [x EXCEPT !.closed = v] \in Trade
      BY <2>1 DEF Trade
    <2>2. trades[u] \in Trade /\ TRUE \in BOOLEAN
      BY <1>4
    <2>3. [trades[u] EXCEPT !.closed = TRUE] = c /\ [trades[u] EXCEPT !.closed = TRUE] \in Trade
      BY <2>1, <2>2
    <2>4. c.orders = trades[u].orders /\ c.closed = TRUE
      BY ONLY Zenon DEF c
    <2> HIDE DEF c
    <2> QED BY <2>3, <2>4
  <1>6. trades' = [trades EXCEPT ![u] = [trades[u] EXCEPT !.closed = TRUE]]
    BY ONLY <1>2, Zenon
  <1> HIDE DEF c
  <1>7. trades' = [trades EXCEPT ![u] = c]
    BY ONLY <1>5, <1>6, Zenon
  <1> HIDE DEF u
  <1>8. trades' \in Seq(Trade) /\ DOMAIN trades' = DOMAIN trades /\ trades'[u] = c
        /\ \A t \in DOMAIN trades : t # u => trades'[t] = trades[t]
    <2>1. /\ trades' \in Seq(Trade) /\ Len(trades') = Len(trades)
          /\ \A t \in 1..Len(trades) : trades'[t] = IF t = u THEN c ELSE trades[t]
      BY <1>1, <1>3, <1>4, <1>5, <1>7, ExceptSeq DEF TradesKept
    <2>2. DOMAIN trades' = 1..Len(trades)
      BY <2>1, LenProperties
    <2> QED BY <1>3, <1>4, <2>1, <2>2
  <1>9. \A t \in DOMAIN trades : trades'[t].orders = trades[t].orders
    BY <1>5, <1>8
  <1>10. TradesKept'
    BY <1>1, <1>2, <1>8, <1>9 DEF TradesKept, OrdersOf, Trade
  <1>11. OpKept' /\ KillKept'
    BY <1>2 DEF OpKept, KillKept
  <1>12. BookKept' /\ BookGoesOn /\ CopiesTrue' /\ DOMAIN book' = DOMAIN book
    BY <1>1, <1>2, BookStays
  <1>13. \A k \in DOMAIN book : Waits(k)' => Waits(k)
    <2> SUFFICES ASSUME NEW k \in DOMAIN book, Waits(k)' PROVE Waits(k)
      OBVIOUS
    <2>1. PICK t \in DOMAIN trades : k \in Range(trades'[t].orders) /\ ~trades'[t].closed
      BY <1>2, <1>8 DEF Waits, OrdersOf
    <2>2. t # u
      BY <1>5, <1>8, <2>1
    <2> QED BY <1>8, <2>1, <2>2 DEF Waits, OrdersOf, u
  <1>14. ClosesKept'
    BY <1>1, <1>2, <1>12, <1>13, ClosesStay
  <1> QED BY <1>1, <1>2, <1>10, <1>11, <1>12, <1>14 DEF ClientInductive

------------------------------------------------------------------------------
\* The initial state of the client satisfies its invariant.
LEMMA ClientBegins == ClientInit => ClientInductive
  <1> SUFFICES ASSUME ClientInit PROVE ClientInductive
    OBVIOUS
  <1>1. /\ book = <<>> /\ mine = Empty /\ cache = Empty /\ trades = <<>> /\ op.kind = "idle" /\ faults = 0
    BY DEF ClientInit, Idle
  <1>2. DOMAIN book = {} /\ DOMAIN mine = {} /\ DOMAIN cache = {} /\ DOMAIN trades = {}
    BY <1>1, EmptySeq DEF Empty
  <1>3. BookKept
    BY <1>1, <1>2, EmptySeq DEF BookKept
  <1>4. CopiesTrue
    BY <1>1, <1>2 DEF CopiesTrue, Empty
  <1>5. TradesKept
    BY <1>1, <1>2, EmptySeq DEF TradesKept
  <1> QED BY <1>1, <1>2, <1>3, <1>4, <1>5 DEF ClientInductive, OpKept, KillKept, ClosesKept

\* The parts of the inductive invariant are kept by every step.
THEOREM ClientAlwaysInductive == ClientSpec => []ClientInductive
  <1>1. ASSUME ClientInductive, ClientNext PROVE ClientInductive'
    <2>1. CASE \E k \in DOMAIN book : Fill(k)
      BY <1>1, <2>1, FillKeeps
    <2>2. CASE Connect \/ GetPositions \/ ReadKind \/ EndPositions
      BY <1>1, <2>2, PositionsKeep
    <2>3. CASE Disconnect \/ CooldownOver
      BY <1>1, <2>3, NothingKeeps DEF Disconnect, CooldownOver, Fine
    <2>4. CASE GetOrder
      BY <1>1, <2>4, GetOrderKeeps
    <2>5. CASE ExecutePlan
      BY <1>1, <2>5, ExecutePlanKeeps
    <2>6. CASE PlaceLeg
      BY <1>1, <2>6, PlaceLegKeeps
    <2>7. CASE LegFails \/ CloseFails
      BY <1>1, <2>7, FailsKeep
    <2>8. CASE RecordTrade
      BY <1>1, <2>8, RecordTradeKeeps
    <2>9. CASE BeginClose
      BY <1>1, <2>9, BeginCloseKeeps
    <2>10. CASE SkipLeg
      BY <1>1, <2>10, SkipLegKeeps
    <2>11. CASE CloseLeg
      BY <1>1, <2>11, CloseLegKeeps
    <2>12. CASE EndClose
      BY <1>1, <2>12, EndCloseKeeps
    <2>13. CASE Kill \/ CancelsDone \/ CloseAllPositions \/ AfterKill
      BY <1>1, <2>13, KillSwitchKeeps
    <2>14. CASE ListKind
      BY <1>1, <2>14, ListKindKeeps
    <2>15. CASE CancelNext
      BY <1>1, <2>15, CancelNextKeeps
    <2> QED BY <1>1, <2>1, <2>2, <2>3, <2>4, <2>5, <2>6, <2>7, <2>8, <2>9, <2>10, <2>11, <2>12,
               <2>13, <2>14, <2>15 DEF ClientNext
  <1>2. ASSUME ClientInductive, UNCHANGED clientVars PROVE ClientInductive'
    BY <1>2, NothingKeeps DEF clientVars
  <1>3. ClientInductive /\ [ClientNext]_clientVars => ClientInductive'
    BY <1>1, <1>2
  <1> QED BY <1>3, ClientBegins, PTL DEF ClientSpec

\* What the client and the trades take for final is final at the exchange, and
\* no close that has met no failed request trades more than its leg had filled,
\* with answers lost at any request (deribit_client.py:276-364, 514-576,
\* order_manager.py:354-397), and the kill switch cancels what works.
THEOREM ClientAlwaysRight == ClientSpec => []ClientIsRight
  <1>1. ASSUME ClientInductive PROVE ClientIsRight
    <2>1. CopiesTrue /\ ClosesKept
      BY <1>1 DEF ClientInductive
    <2>2. FinalIsTrue
      <3>1. \A k \in DOMAIN mine : TrueOf(mine[k], book[k])
        BY <2>1 DEF CopiesTrue
      <3>2. \A k \in DOMAIN cache : TrueOf(cache[k], book[k])
        BY <2>1 DEF CopiesTrue
      <3> QED BY <3>1, <3>2 DEF FinalIsTrue, TrueOf
    <2>3. NeverOverCloses
      BY <2>1 DEF ClosesKept, NeverOverCloses, ClosedBy
    <2>4. KillCancels
      BY <1>1 DEF ClientInductive, KillKept, KillCancels, NoneWorks
    <2> QED BY <2>2, <2>3, <2>4 DEF ClientIsRight
  <1> QED BY <1>1, ClientAlwaysInductive, PTL

\* A kill switch none of whose requests failed leaves no order working, those
\* the client never heard of included (deribit_client.py:553-576, 635-650).
THEOREM KillAlwaysCancels == ClientSpec => []KillCancels
  <1>1. ClientInductive => KillCancels
    BY DEF ClientInductive, KillKept, KillCancels, NoneWorks
  <1> QED BY <1>1, ClientAlwaysInductive, PTL

------------------------------------------------------------------------------
(* The plans, for any strikes, prices, momenta and settings: what a plan    *)
(* that buys can lose, and what one that sells keeps.                       *)

ContextInv ==
    /\ ctx.strikes \subseteq Nat /\ IsFiniteSet(ctx.strikes) /\ \A k \in ctx.strikes : k >= 2
    /\ ctx.spot \in Nat /\ ctx.spot >= 2
    /\ ctx.momentum \in Int /\ ctx.momentum \in Momenta
    /\ \A o \in ctx.strikes \X Sides : ctx.ltp[o] \in Nat /\ ctx.ltp[o] \in Prices \cup {0}

\* The same, of the record the context is.
ContextShape ==
    /\ DOMAIN ctx = {"coin", "strikes", "ltp", "spot", "rank", "dvol", "momentum", "regime", "dte"}
    /\ ctx = [f \in DOMAIN ctx |-> ctx[f]]
    /\ ctx.strikes \in Grids /\ ctx.spot \in Spots /\ ctx.momentum \in Momenta
    /\ ctx.ltp \in [ctx.strikes \X Sides -> Prices \cup {0}]

\* What the context is made of has the values it is made from.
LEMMA ShapeGives == ContextShape => ContextInv
  <1>1. SUFFICES ASSUME ContextShape PROVE ContextInv
    OBVIOUS
  <1>2. ctx.strikes \subseteq Nat \ {0, 1} /\ IsFiniteSet(ctx.strikes) /\ ctx.spot \in Nat \ {0, 1}
    BY <1>1, ContextAssumption DEF ContextShape
  <1>3. ctx.momentum \in Int /\ ctx.momentum \in Momenta
    BY <1>1, ContextAssumption DEF ContextShape
  <1>4. \A o \in ctx.strikes \X Sides : ctx.ltp[o] \in Nat /\ ctx.ltp[o] \in Prices \cup {0}
    BY <1>1, ContextAssumption DEF ContextShape
  <1>5. \A k \in Nat \ {0, 1} : k >= 2
    OBVIOUS
  <1> QED BY <1>2, <1>3, <1>4, <1>5 DEF ContextInv

\* The distance of two whole numbers is one.
LEMMA DistIs ==
    ASSUME NEW x \in Int, NEW y \in Int
    PROVE  /\ Dist(x, y) \in Nat
           /\ x >= y => Dist(x, y) = x - y
           /\ x <= y => Dist(x, y) = y - x
  BY DEF Dist

\* What a target is snapped to is a strike, and none is nearer.
LEMMA SnapIs ==
    ASSUME ContextInv, ctx.strikes # {}, NEW target \in Int
    PROVE  /\ Snap(target) \in ctx.strikes /\ Snap(target) \in Nat
           /\ \A j \in ctx.strikes : Dist(Snap(target), target) <= Dist(j, target)
<1> DEFINE Nearest(k) == \A j \in ctx.strikes :
               Dist(k, target) < Dist(j, target) \/ (Dist(k, target) = Dist(j, target) /\ k <= j)
           dists == {Dist(k, target) : k \in ctx.strikes}
<1>1. ASSUME NEW k \in ctx.strikes PROVE k \in Nat /\ Dist(k, target) \in Nat
  <2>1. k \in Nat /\ k \in Int
    BY DEF ContextInv
  <2> QED BY <2>1, DistIs
<1>2. PICK d \in dists : \A e \in dists : d <= e
  <2>1. dists \subseteq Nat /\ dists # {}
    BY <1>1
  <2> HIDE DEF dists
  <2> QED BY <2>1, LeastNumber
<1> DEFINE best == {k \in ctx.strikes : Dist(k, target) = d}
<1>3. PICK k \in best : \A j \in best : k <= j
  <2>1. best \subseteq Nat /\ best # {}
    BY <1>1, <1>2
  <2> HIDE DEF best
  <2> QED BY <2>1, LeastNumber
<1>4. k \in ctx.strikes /\ Nearest(k)
  <2>1. k \in ctx.strikes /\ Dist(k, target) = d
    BY <1>3
  <2>2. ASSUME NEW j \in ctx.strikes
        PROVE  Dist(k, target) < Dist(j, target) \/ (Dist(k, target) = Dist(j, target) /\ k <= j)
    <3>1. d <= Dist(j, target) /\ Dist(j, target) \in Nat /\ d \in Nat
      BY <1>1, <1>2, <2>1, <2>2
    <3>2. Dist(j, target) = d => k <= j
      BY <1>3, <2>2
    <3> QED BY <2>1, <3>1, <3>2
  <2> QED BY <2>1, <2>2
<1>5. Snap(target) = CHOOSE x \in ctx.strikes : Nearest(x)
  BY DEF Snap
<1> HIDE DEF Nearest
<1>6. Snap(target) \in ctx.strikes /\ Nearest(Snap(target))
  BY <1>4, <1>5
<1>7. Snap(target) \in Nat
  BY <1>1, <1>6
<1>8. \A j \in ctx.strikes : Dist(Snap(target), target) <= Dist(j, target)
  BY <1>1, <1>6 DEF Nearest
<1> QED
  BY <1>6, <1>7, <1>8

\* A target beyond a strike is not snapped across it.
LEMMA SnapStays ==
    ASSUME ContextInv, NEW a \in ctx.strikes, NEW target \in Int
    PROVE  /\ target >= a => Snap(target) >= a
           /\ target <= a => Snap(target) <= a
<1> DEFINE k == Snap(target)
<1>1. k \in Nat /\ Dist(k, target) <= Dist(a, target) /\ a \in Nat
  BY SnapIs DEF ContextInv
<1> HIDE DEF k
<1>2. target >= a => k >= a
  BY <1>1 DEF Dist
<1>3. target <= a => k <= a
  BY <1>1 DEF Dist
<1> QED
  BY <1>2, <1>3 DEF k

\* What is rounded does not fall below a whole number it was not below,
LEMMA RoundedInt ==
    ASSUME NEW n \in Int, NEW b \in Int, 1000 * b <= n
    PROVE  Rounded(n, 1000) \in Int /\ Rounded(n, 1000) >= b
<1>1. n \div 1000 \in Int /\ n \div 1000 >= b
  OBVIOUS
<1> QED
  BY <1>1 DEF Rounded

\* nor rise above one it was not above.
LEMMA RoundedDown ==
    ASSUME NEW n \in Int, NEW b \in Int, n <= 1000 * b
    PROVE  Rounded(n, 1000) \in Int /\ Rounded(n, 1000) <= b
<1>1. n \div 1000 \in Int /\ n % 1000 \in 0..999 /\ n = 1000 * (n \div 1000) + (n % 1000)
  OBVIOUS
<1>2. n \div 1000 < b \/ (n \div 1000 = b /\ n % 1000 = 0)
  BY <1>1
<1>3. n \div 1000 = b /\ n % 1000 = 0 => Rounded(n, 1000) = b
  <2>1. ASSUME n \div 1000 = b, n % 1000 = 0 PROVE Rounded(n, 1000) = b
    <3>1. ~(2 * (n % 1000) > 1000) /\ 2 * (n % 1000) # 1000
      BY <2>1
    <3> QED BY <2>1, <3>1 DEF Rounded
  <2> QED BY <2>1
<1>4. Rounded(n, 1000) \in {n \div 1000, n \div 1000 + 1}
  BY DEF Rounded
<1> QED
  BY <1>1, <1>2, <1>3, <1>4

\* A wing is wide enough to leave the strike at the money.
LEMMA WingIs ==
    ASSUME ContextInv, NEW p \in Presets
    PROVE  Wing(p) \in Int /\ Wing(p) >= 50
<1>1. ctx.spot \in Nat /\ p.wing \in Nat
  BY ContextAssumption DEF ContextInv
<1> DEFINE w == ctx.spot * p.wing
<1>2. w \in Int /\ 1000 * 0 <= w
  BY <1>1
<1> HIDE DEF w
<1>3. Rounded(w, 1000) \in Int
  BY <1>2, RoundedInt
<1>4. Max({50, Rounded(w, 1000)}) = IF 50 >= Rounded(w, 1000) THEN 50 ELSE Rounded(w, 1000)
  BY <1>3, LargerOf
<1> QED
  BY <1>3, <1>4 DEF Wing, w

\* A strategy that trades has strikes, and one of them is at the money.
LEMMA AtmIs ==
    ASSUME ContextInv, NEW p \in Presets, p.kind # "futures_trend", Eligible(p)
    PROVE  ctx.strikes # {} /\ AtmStrike \in ctx.strikes /\ AtmStrike \in Nat
<1>1. p.minStrikes \in Nat \ {0} /\ Cardinality(ctx.strikes) >= p.minStrikes
  BY ContextAssumption DEF Eligible
<1>2. ctx.strikes # {}
  <2>1. SUFFICES ASSUME ctx.strikes = {} PROVE FALSE
    OBVIOUS
  <2>2. Cardinality(ctx.strikes) = 0
    BY <2>1, FS_EmptySet
  <2> QED BY <1>1, <2>2
<1>3. ctx.spot \in Int
  BY DEF ContextInv
<1> QED
  BY <1>2, <1>3, SnapIs DEF AtmStrike

------------------------------------------------------------------------------
(* What legs bring in and are worth. *)

\* An option of the context at its last price.
IsOption(l) ==
    /\ l.way \in {"BUY", "SELL"} /\ l.side \in Sides
    /\ l.strike \in Nat /\ l.price \in Nat

Bundle(legs) == IsFiniteSet(legs) /\ \A l \in legs : IsOption(l)

\* What the legs are worth at a settlement to who holds them.
HeldWorth(legs, s) ==
    SumFunctionOnSet([l \in legs |-> IF l.way = "BUY" THEN Worth(l, s) ELSE -Worth(l, s)], legs)

\* A leg is an option of the context.
LEMMA LegIs ==
    ASSUME ContextInv, NEW way \in {"BUY", "SELL"}, NEW k \in ctx.strikes, NEW side \in Sides
    PROVE  /\ IsOption(LegOf(way, k, side))
           /\ LegOf(way, k, side).way = way
           /\ LegOf(way, k, side).strike = k
           /\ LegOf(way, k, side).side = side
           /\ LegOf(way, k, side).price \in Prices \cup {0}
<1>1. k \in Nat /\ ctx.ltp[<<k, side>>] \in Nat /\ ctx.ltp[<<k, side>>] \in Prices \cup {0}
  BY DEF ContextInv
<1>2. LegOf(way, k, side) = [way |-> way, strike |-> k, side |-> side, price |-> ctx.ltp[<<k, side>>]]
  BY Zenon DEF LegOf, Quoted
<1> DEFINE x == ctx.ltp[<<k, side>>]
<1> HIDE DEF x
<1>3. x \in Nat /\ x \in Prices \cup {0} /\ LegOf(way, k, side) = [way |-> way, strike |-> k, side |-> side, price |-> x]
  BY <1>1, <1>2 DEF x
<1> QED
  BY ONLY <1>1, <1>3, way \in {"BUY", "SELL"}, side \in Sides DEF IsOption

\* An option is worth what the settlement is beyond its strike.
LEMMA WorthIs ==
    ASSUME NEW l, IsOption(l), NEW s \in Nat
    PROVE  /\ Worth(l, s) \in Nat
           /\ l.side = "C" => Worth(l, s) = IF s >= l.strike THEN s - l.strike ELSE 0
           /\ l.side = "P" => Worth(l, s) = IF l.strike >= s THEN l.strike - s ELSE 0
<1>1. l.side \in {"C", "P"} /\ l.strike \in Nat
  BY DEF IsOption, Sides
<1>2. /\ Max({s - l.strike, 0}) = IF s - l.strike >= 0 THEN s - l.strike ELSE 0
      /\ Max({l.strike - s, 0}) = IF l.strike - s >= 0 THEN l.strike - s ELSE 0
  <2>1. s - l.strike \in Int /\ l.strike - s \in Int /\ 0 \in Int
    BY <1>1
  <2> QED BY <2>1, LargerOf
<1>3. CASE l.side = "C"
  <2>1. Worth(l, s) = Max({s - l.strike, 0})
    BY <1>3 DEF Worth
  <2> QED BY <1>1, <1>2, <1>3, <2>1
<1>4. CASE l.side = "P"
  <2>1. Worth(l, s) = Max({l.strike - s, 0})
    BY <1>4 DEF Worth
  <2> QED BY <1>1, <1>2, <1>4, <2>1
<1> QED
  BY <1>1, <1>3, <1>4

\* A plan earns what its legs bring in, at the settlement's worth of a coin, and what
\* they are worth.
LEMMA PnlIs ==
    ASSUME NEW plan, Bundle(plan.legs), NEW s \in Nat
    PROVE  /\ Credit(plan.legs) \in Int /\ HeldWorth(plan.legs, s) \in Int
           /\ Pnl(plan, s) = Credit(plan.legs) * s + HeldWorth(plan.legs, s) * 1000
<1> DEFINE legs == plan.legs
           f == [l \in legs |-> IF l.way = "SELL" THEN l.price ELSE -l.price]
           g == [l \in legs |-> IF l.way = "BUY" THEN Worth(l, s) ELSE -Worth(l, s)]
           h == [l \in legs |-> IF l.way = "BUY" THEN Gain(l, s) ELSE -Gain(l, s)]
           coins == [l \in legs |-> f[l] * s]
           dollars == [l \in legs |-> g[l] * 1000]
<1>1. Credit(legs) = SumFunctionOnSet(f, legs)
  BY DEF Credit
<1>2. HeldWorth(legs, s) = SumFunctionOnSet(g, legs)
  BY DEF HeldWorth
<1>3. Pnl(plan, s) = SumFunctionOnSet(h, legs)
  BY DEF Pnl
<1>4. ASSUME NEW l \in legs
      PROVE  /\ f[l] \in Int /\ g[l] \in Int
             /\ coins[l] = f[l] * s /\ dollars[l] = g[l] * 1000
             /\ coins[l] \in Int /\ dollars[l] \in Int /\ h[l] = coins[l] + dollars[l]
  <2>1. IsOption(l)
    BY <1>4 DEF Bundle
  <2>2. l.way \in {"BUY", "SELL"} /\ l.price \in Nat /\ l.side # "F"
    BY <2>1 DEF IsOption, Sides
  <2>3. Worth(l, s) \in Nat
    BY <2>1, WorthIs
  <2> DEFINE x == l.price
             w == Worth(l, s)
  <2>4. Gain(l, s) = 1000 * w - x * s
    BY <2>2 DEF Gain
  <2>5. x \in Nat /\ w \in Nat
    BY <2>2, <2>3
  <2>6. /\ f[l] = IF l.way = "SELL" THEN x ELSE -x
        /\ g[l] = IF l.way = "BUY" THEN w ELSE -w
        /\ h[l] = IF l.way = "BUY" THEN Gain(l, s) ELSE -Gain(l, s)
        /\ coins[l] = f[l] * s /\ dollars[l] = g[l] * 1000
    OBVIOUS
  <2>7. (-x) * s = -(x * s) /\ x * s \in Int
    BY <2>5
  <2> HIDE DEF f, g, h, coins, dollars, x, w
  <2>8. CASE l.way = "BUY"
    <3>1. f[l] = -x /\ g[l] = w /\ h[l] = 1000 * w - x * s
      BY <2>4, <2>6, <2>8
    <3>2. coins[l] = -(x * s) /\ dollars[l] = w * 1000
      BY <2>6, <2>7, <3>1
    <3> QED BY <2>5, <2>6, <2>7, <3>1, <3>2
  <2>9. CASE l.way = "SELL"
    <3>1. f[l] = x /\ g[l] = -w /\ h[l] = -(1000 * w - x * s)
      BY <2>4, <2>6, <2>9
    <3>2. coins[l] = x * s /\ dollars[l] = (-w) * 1000
      BY <2>6, <2>7, <3>1
    <3> QED BY <2>5, <2>6, <2>7, <3>1, <3>2
  <2> QED BY <2>2, <2>8, <2>9
<1>5. IsFiniteSet(legs)
  BY DEF Bundle
<1> HIDE DEF legs, f, g, h, coins, dollars
<1>6. SumFunctionOnSet(f, legs) \in Int /\ SumFunctionOnSet(g, legs) \in Int
  BY <1>4, <1>5, SumInt
<1>7. SumFunctionOnSet(coins, legs) = SumFunctionOnSet(f, legs) * s
  <2>1. \A x \in legs : f[x] \in Int /\ coins[x] = f[x] * s
    BY <1>4
  <2> QED BY ONLY <1>5, <2>1, SumTimes, s \in Nat
<1>8. SumFunctionOnSet(dollars, legs) = SumFunctionOnSet(g, legs) * 1000
  <2>1. \A x \in legs : g[x] \in Int /\ dollars[x] = g[x] * 1000
    BY <1>4
  <2> QED BY ONLY <1>5, <2>1, SumTimes
<1>9. SumFunctionOnSet(h, legs) = SumFunctionOnSet(coins, legs) + SumFunctionOnSet(dollars, legs)
  BY <1>4, <1>5, SumBoth
<1> QED
  BY <1>1, <1>2, <1>3, <1>6, <1>7, <1>8, <1>9 DEF legs

\* legs that are all out of the money nothing,
LEMMA OutIsNothing ==
    ASSUME NEW legs, Bundle(legs), NEW s \in Nat, \A l \in legs : Worth(l, s) = 0
    PROVE  HeldWorth(legs, s) = 0
<1> DEFINE g == [l \in legs |-> IF l.way = "BUY" THEN Worth(l, s) ELSE -Worth(l, s)]
<1>1. \A l \in legs : g[l] = 0
  OBVIOUS
<1>2. HeldWorth(legs, s) = SumFunctionOnSet(g, legs) /\ IsFiniteSet(legs)
  BY DEF HeldWorth, Bundle
<1> HIDE DEF g
<1> QED BY <1>1, <1>2, SumZero

\* and legs that are all sold at a price bring something in.
LEMMA SoldBringIn ==
    ASSUME NEW legs, Bundle(legs), legs # {}, \A l \in legs : l.way = "SELL" /\ l.price > 0
    PROVE  Credit(legs) > 0
<1> DEFINE f == [l \in legs |-> IF l.way = "SELL" THEN l.price ELSE -l.price]
<1>1. ASSUME NEW l \in legs PROVE f[l] \in Nat /\ f[l] > 0
  <2>1. l.price \in Nat
    BY <1>1 DEF Bundle, IsOption
  <2> QED BY <1>1, <2>1
<1>2. Credit(legs) = SumFunctionOnSet(f, legs) /\ IsFiniteSet(legs)
  BY DEF Credit, Bundle
<1> HIDE DEF f
<1>3. PICK l \in legs : TRUE
  OBVIOUS
<1> DEFINE u == legs \ {l}
<1>4. IsFiniteSet(u) /\ \A x \in u : f[x] \in Nat
  BY <1>1, <1>2, FS_RemoveElement
<1>5. SumFunctionOnSet(f, legs) = f[l] + SumFunctionOnSet(f, u)
  <2>1. \A x \in legs : f[x] \in Int
    BY <1>1
  <2> QED BY <1>2, <2>1, SumTakes
<1> HIDE DEF u
<1>6. SumFunctionOnSet(f, u) \in Nat
  BY <1>4, SumNat
<1>7. f[l] \in Nat /\ f[l] > 0
  BY <1>1
<1> QED BY <1>2, <1>5, <1>6, <1>7

------------------------------------------------------------------------------
(* The strikes a plan is made of. *)

\* The strikes a wing away are on their sides of the one at the money.
LEMMA WingStrikes ==
    ASSUME ContextInv, NEW p \in Presets, p.kind # "futures_trend", Eligible(p)
    PROVE  /\ Snap(AtmStrike + Wing(p)) \in ctx.strikes /\ Snap(AtmStrike + Wing(p)) >= AtmStrike
           /\ Snap(AtmStrike - Wing(p)) \in ctx.strikes /\ Snap(AtmStrike - Wing(p)) <= AtmStrike
<1> DEFINE a == AtmStrike
           w == Wing(p)
<1>1. ctx.strikes # {} /\ a \in ctx.strikes /\ a \in Nat
  BY AtmIs
<1>2. w \in Int /\ w >= 50
  BY WingIs
<1> HIDE DEF a, w
<1>3. a + w \in Int /\ a - w \in Int /\ a + w >= a /\ a - w <= a
  BY <1>1, <1>2
<1>4. Snap(a + w) \in ctx.strikes /\ Snap(a - w) \in ctx.strikes
  BY <1>1, <1>3, SnapIs
<1>5. Snap(a + w) >= a
  BY <1>1, <1>3, SnapStays
<1>6. Snap(a - w) <= a
  BY <1>1, <1>3, SnapStays
<1> QED BY <1>4, <1>5, <1>6 DEF a, w

\* The strike sold against the one at the money is on the side of the direction.
LEMMA ShortIsBeyond ==
    ASSUME ContextInv, NEW p \in Presets, p.kind # "futures_trend", Eligible(p), NEW k \in ShortStrikes(p)
    PROVE  /\ k \in ctx.strikes /\ k \in Nat
           /\ Direction = "C" => k > AtmStrike
           /\ Direction = "P" => k < AtmStrike
<1> DEFINE a == AtmStrike
           up == Rounded((1000 + p.width) * a, 1000)
           down == Rounded((1000 - p.width) * a, 1000)
           wide == Rounded((IF Direction = "C" THEN 1000 + p.width ELSE 1000 - p.width) * a, 1000)
           above == {j \in ctx.strikes : j > a}
<1>1. ctx.strikes # {} /\ a \in ctx.strikes /\ a \in Nat /\ ctx.strikes \subseteq Nat
  BY AtmIs DEF ContextInv
<1>2. p.width \in Nat
  BY ContextAssumption
<1>3. k \in IF Snap(wide) # a THEN {Snap(wide)}
            ELSE IF Direction = "C" /\ above # {} THEN {Min(above)} ELSE {}
  BY DEF ShortStrikes
<1>4. Direction = "C" \/ Direction = "P"
  BY DEF Direction
<1>5. Direction = "C" => wide = up
  OBVIOUS
<1>6. Direction = "P" => wide = down
  OBVIOUS
<1>7. up \in Int /\ up >= a
  <2> DEFINE n == (1000 + p.width) * a
  <2> HIDE DEF a
  <2>1. p.width * a \in Nat /\ n = 1000 * a + p.width * a
    BY <1>1, <1>2
  <2>2. n \in Int /\ 1000 * a <= n
    BY <1>1, <2>1
  <2> HIDE DEF n
  <2>3. Rounded(n, 1000) \in Int /\ Rounded(n, 1000) >= a
    BY <1>1, <2>2, RoundedInt
  <2> QED BY <2>3 DEF n
<1>8. down \in Int /\ down <= a
  <2> DEFINE n == (1000 - p.width) * a
  <2> HIDE DEF a
  <2>1. p.width * a \in Nat /\ n = 1000 * a - p.width * a
    BY <1>1, <1>2
  <2>2. n \in Int /\ n <= 1000 * a
    BY <1>1, <2>1
  <2> HIDE DEF n
  <2>3. Rounded(n, 1000) \in Int /\ Rounded(n, 1000) <= a
    BY <1>1, <2>2, RoundedDown
  <2> QED BY <2>3 DEF n
<1> HIDE DEF up, down, wide, a
<1>9. wide \in Int
  BY <1>4, <1>5, <1>6, <1>7, <1>8
<1>10. Snap(wide) \in ctx.strikes /\ Snap(wide) \in Nat
  BY <1>1, <1>9, SnapIs
<1>11. (wide >= a => Snap(wide) >= a) /\ (wide <= a => Snap(wide) <= a)
  BY <1>1, <1>9, SnapStays
<1>12. CASE Snap(wide) # a
  <2>1. k = Snap(wide)
    BY <1>3, <1>12
  <2>2. Direction = "C" => k > a
    BY <1>1, <1>5, <1>7, <1>10, <1>11, <1>12, <2>1
  <2>3. Direction = "P" => k < a
    BY <1>1, <1>6, <1>8, <1>10, <1>11, <1>12, <2>1
  <2> QED BY <1>10, <2>1, <2>2, <2>3 DEF a
<1>13. CASE Snap(wide) = a
  <2>1. Direction = "C" /\ above # {} /\ k = Min(above)
    BY <1>3, <1>13
  <2>2. Min(above) \in above
    <3>1. above \subseteq Nat
      BY <1>1
    <3> HIDE DEF above
    <3> QED BY <2>1, <3>1, MinIs
  <2> QED BY <1>1, <2>1, <2>2 DEF a
<1> QED BY <1>12, <1>13

------------------------------------------------------------------------------
(* The plans. *)

\* The ends of the market: a strike, and the spot, is at most half of the one and
\* at least twice the other.
LEMMA EndsAre ==
    ASSUME ContextInv
    PROVE  /\ Up \in Nat /\ Up >= 1 /\ Down \in Nat /\ Down >= 1
           /\ \A k \in ctx.strikes \cup {ctx.spot} : Up >= 2 * k /\ k >= 2 * Down
<1> DEFINE S == ctx.strikes \cup {ctx.spot}
<1>1. S \subseteq Nat /\ IsFiniteSet(S) /\ S # {} /\ \A k \in S : k >= 2
  BY FS_AddElement DEF ContextInv
<1> HIDE DEF S
<1>2. Max(S) \in S /\ \A k \in S : k <= Max(S)
  <2>1. \E m \in S : \A n \in S : n <= m
    BY <1>1, GreatestNumber
  <2>2. \E m \in S : \A n \in S : m >= n
    BY <1>1, <2>1
  <2>3. Max(S) \in S /\ \A n \in S : Max(S) >= n
    BY <2>2 DEF Max
  <2> DEFINE m == Max(S)
  <2> HIDE DEF m
  <2>4. m \in S /\ \A n \in S : n <= m
    BY <1>1, <2>3 DEF m
  <2> QED BY <2>4 DEF m
<1>3. Min(S) \in S /\ \A k \in S : Min(S) <= k
  BY <1>1, MinIs
<1> DEFINE h == Max(S)
           l == Min(S)
<1>4. Up = 2 * h /\ Down = l \div 2
  BY DEF Up, Down, S
<1>5. /\ h \in Nat /\ l \in Nat /\ h >= 2 /\ l >= 2
      /\ \A k \in S : k \in Nat /\ k <= h /\ l <= k
  BY <1>1, <1>2, <1>3
<1> HIDE DEF h, l
<1>6. l \div 2 \in Nat /\ l \div 2 >= 1 /\ 2 * (l \div 2) <= l
  BY <1>5
<1>7. \A k \in S : 2 * h >= 2 * k /\ k >= 2 * (l \div 2)
  BY <1>5, <1>6
<1> QED BY <1>4, <1>5, <1>6, <1>7 DEF S

\* What a leg brings in, and what it is worth to who holds it.
LegCredit(l)   == IF l.way = "SELL" THEN l.price ELSE -l.price
LegWorth(l, s) == IF l.way = "BUY" THEN Worth(l, s) ELSE -Worth(l, s)

\* A sum with one term,
LEMMA SumOne == ASSUME NEW f, NEW x, f[x] \in Int PROVE SumFunctionOnSet(f, {x}) = f[x]
<1>1. IsFiniteSet({}) /\ x \notin {} /\ \A y \in {} \cup {x} : f[y] \in Int
  BY FS_EmptySet
<1>2. SumFunctionOnSet(f, {} \cup {x}) = f[x] + SumFunctionOnSet(f, {})
  BY ONLY <1>1, SumAdd
<1>3. {} \cup {x} = {x}
  OBVIOUS
<1> QED BY <1>2, <1>3, SumEmpty

\* and with two.
LEMMA SumTwo ==
    ASSUME NEW f, NEW x, NEW y, x # y, f[x] \in Int, f[y] \in Int
    PROVE  SumFunctionOnSet(f, {x, y}) = f[x] + f[y]
<1>1. IsFiniteSet({y}) /\ x \notin {y} /\ (\A z \in {y} \cup {x} : f[z] \in Int) /\ {y} \cup {x} = {x, y}
  BY FS_Singleton
<1>2. SumFunctionOnSet(f, {y} \cup {x}) = f[x] + SumFunctionOnSet(f, {y})
  BY ONLY <1>1, SumAdd
<1>3. SumFunctionOnSet(f, {y}) = f[y]
  BY SumOne
<1> QED BY <1>1, <1>2, <1>3

\* What one leg brings in and is worth,
LEMMA OneLeg ==
    ASSUME NEW l, IsOption(l)
    PROVE  /\ Bundle({l}) /\ Credit({l}) = LegCredit(l)
           /\ \A s \in Nat : HeldWorth({l}, s) = LegWorth(l, s)
<1>1. Bundle({l})
  BY FS_Singleton DEF Bundle
<1>2. Credit({l}) = LegCredit(l)
  <2> DEFINE f == [x \in {l} |-> IF x.way = "SELL" THEN x.price ELSE -x.price]
  <2>1. f[l] = LegCredit(l) /\ f[l] \in Int
    BY DEF LegCredit, IsOption
  <2>2. Credit({l}) = SumFunctionOnSet(f, {l})
    BY DEF Credit
  <2> HIDE DEF f
  <2> QED BY <2>1, <2>2, SumOne
<1>3. ASSUME NEW s \in Nat PROVE HeldWorth({l}, s) = LegWorth(l, s)
  <2> DEFINE g == [x \in {l} |-> IF x.way = "BUY" THEN Worth(x, s) ELSE -Worth(x, s)]
  <2>1. g[l] = LegWorth(l, s) /\ g[l] \in Int
    <3>1. Worth(l, s) \in Nat
      BY WorthIs
    <3> QED BY <3>1 DEF LegWorth
  <2>2. HeldWorth({l}, s) = SumFunctionOnSet(g, {l})
    BY DEF HeldWorth
  <2> HIDE DEF g
  <2> QED BY <2>1, <2>2, SumOne
<1> QED BY <1>1, <1>2, <1>3

\* and two.
LEMMA TwoLegs ==
    ASSUME NEW b, NEW d, b # d, IsOption(b), IsOption(d)
    PROVE  /\ Bundle({b, d}) /\ Credit({b, d}) = LegCredit(b) + LegCredit(d)
           /\ \A s \in Nat : HeldWorth({b, d}, s) = LegWorth(b, s) + LegWorth(d, s)
<1>1. Bundle({b, d})
  BY FewAreFinite DEF Bundle
<1>2. Credit({b, d}) = LegCredit(b) + LegCredit(d)
  <2> DEFINE f == [x \in {b, d} |-> IF x.way = "SELL" THEN x.price ELSE -x.price]
  <2>1. f[b] = LegCredit(b) /\ f[d] = LegCredit(d)
    BY DEF LegCredit
  <2>2. f[b] \in Int /\ f[d] \in Int
    BY DEF IsOption
  <2>3. Credit({b, d}) = SumFunctionOnSet(f, {b, d})
    BY DEF Credit
  <2> HIDE DEF f
  <2>4. SumFunctionOnSet(f, {b, d}) = f[b] + f[d]
    BY ONLY b # d, <2>2, SumTwo
  <2> QED BY <2>1, <2>3, <2>4
<1>3. ASSUME NEW s \in Nat PROVE HeldWorth({b, d}, s) = LegWorth(b, s) + LegWorth(d, s)
  <2> DEFINE g == [x \in {b, d} |-> IF x.way = "BUY" THEN Worth(x, s) ELSE -Worth(x, s)]
  <2>1. g[b] = LegWorth(b, s) /\ g[d] = LegWorth(d, s)
    BY DEF LegWorth
  <2>2. g[b] \in Int /\ g[d] \in Int
    <3>1. Worth(b, s) \in Nat /\ Worth(d, s) \in Nat
      BY WorthIs
    <3> QED BY <3>1
  <2>3. HeldWorth({b, d}, s) = SumFunctionOnSet(g, {b, d})
    BY DEF HeldWorth
  <2> HIDE DEF g
  <2>4. SumFunctionOnSet(g, {b, d}) = g[b] + g[d]
    BY ONLY b # d, <2>2, SumTwo
  <2> QED BY <2>1, <2>3, <2>4
<1> QED BY <1>1, <1>2, <1>3

------------------------------------------------------------------------------
(* Plans that sell, and plans that buy. *)

\* A plan for a credit, none of whose legs is in the money at the strike at the money.
Sold(p, plan) ==
    /\ plan.by = p /\ p.kind # "futures_trend" /\ Bundle(plan.legs)
    /\ plan.target = Credit(plan.legs) * p.profit /\ Credit(plan.legs) > 0
    /\ AtmStrike \in ctx.strikes /\ AtmStrike \in Nat
    /\ \A l \in plan.legs : Worth(l, AtmStrike) = 0

\* A plan for a debit, whose legs are never worth less than nothing.
Bought(p, plan) ==
    /\ plan.by = p /\ p.kind \in Buying /\ Bundle(plan.legs)
    /\ plan.stop = -Credit(plan.legs) * p.stop /\ Credit(plan.legs) < 0
    /\ \A s \in Nat : HeldWorth(plan.legs, s) >= 0

\* The first keeps its credit there, of which its target is a part.
LEMMA SoldKeeps ==
    ASSUME NEW p \in Presets, NEW plan, Sold(p, plan)
    PROVE  QuietMarketPays(plan) /\ TargetInReach(plan)
<1> DEFINE c == Credit(plan.legs)
           v == HeldWorth(plan.legs, AtmStrike)
           r == p.profit
           a == AtmStrike
<1>1. c \in Int /\ c > 0 /\ v \in Int /\ Pnl(plan, a) = c * a + v * 1000
  BY PnlIs DEF Sold
<1>2. v = 0
  BY OutIsNothing DEF Sold
<1>3. r \in 0..100 /\ a \in Nat /\ a \in ctx.strikes
  BY ContextAssumption DEF Sold
<1>4. plan.target = c * r /\ InDollars(plan, plan.target, a) = plan.target * a
  BY DEF Sold, InDollars
<1>5. Credit(plan.legs) = c /\ AtmStrike = a
  OBVIOUS
<1> HIDE DEF c, v, r, a
<1>6. Pnl(plan, a) = c * a
  <2>1. c * a \in Int
    BY <1>1, <1>3
  <2> QED BY <1>1, <1>2, <2>1
<1>7. 100 * (c * a) >= (c * r) * a
  <2>1. c \in Nat /\ r \in Nat /\ 100 - r \in Nat
    BY <1>1, <1>3
  <2>2. c * (100 - r) \in Nat /\ c * (100 - r) = 100 * c - c * r /\ c * r \in Nat
    BY <2>1
  <2> DEFINE m == c * r
             k == 100 * c - m
  <2>3. k \in Nat /\ m \in Nat /\ 100 * c = m + k
    BY <2>1, <2>2
  <2>4. 100 * (c * a) = (100 * c) * a
    BY <2>1, <1>3
  <2> HIDE DEF m, k
  <2>5. (m + k) * a = m * a + k * a /\ k * a \in Nat /\ m * a \in Nat
    BY <1>3, <2>3
  <2>6. 100 * (c * a) = m * a + k * a
    BY <2>3, <2>4, <2>5
  <2>7. 100 * (c * a) >= m * a
    BY <2>5, <2>6
  <2> QED BY <2>7 DEF m
<1>8. QuietMarketPays(plan)
  BY <1>1, <1>5, <1>6 DEF QuietMarketPays
<1>9. 100 * Pnl(plan, a) >= InDollars(plan, plan.target, a)
  BY <1>4, <1>6, <1>7
<1>10. a \in Outcomes
  BY <1>3 DEF Outcomes
<1> QED BY <1>8, <1>9, <1>10 DEF TargetInReach

\* Its stop, a multiple of twice its credit, is a loss where its legs cost half the
\* settlement.
LEMMA SoldStops ==
    ASSUME NEW p \in Presets, p.kind \in Selling, NEW plan, Sold(p, plan),
           plan.stop = (2 * Credit(plan.legs)) * p.stop,
           NEW x \in Prices \cup {0}, NEW y \in Prices \cup {0}, Credit(plan.legs) = x + y,
           NEW s \in Outcomes, s \in Nat, 2 * HeldWorth(plan.legs, s) <= -s
    PROVE  StopInReach(plan)
<1> DEFINE c == Credit(plan.legs)
           v == HeldWorth(plan.legs, s)
           t == p.stop
<1>1. c \in Int /\ c > 0 /\ v \in Int /\ Pnl(plan, s) = c * s + v * 1000
  BY PnlIs DEF Sold
<1>2. t \in Nat /\ (100 + 2 * t) * (x + y) <= 50000
  <2>1. p.stop \in Nat
    BY ContextAssumption
  <2>2. StopFits(p, x + y)
    <3>1. Modest(p)
      BY ModestAssumption
    <3> QED BY <3>1 DEF Modest
  <2> QED BY <2>1, <2>2 DEF StopFits
<1>3. plan.stop = (2 * c) * t /\ InDollars(plan, plan.stop, s) = plan.stop * s /\ c = x + y /\ 2 * v <= -s
  BY DEF Sold, InDollars
<1> HIDE DEF c, v, t
<1>4. (100 + 2 * t) * c <= 50000
  BY <1>2, <1>3
<1> DEFINE m == c * t
<1>5. m \in Nat /\ (100 + 2 * t) * c = 100 * c + 2 * m /\ (2 * c) * t = 2 * m
  BY <1>1, <1>2
<1> HIDE DEF m
<1> DEFINE e == 50000 - (100 * c + 2 * m)
<1>6. e \in Nat /\ 100 * c + 2 * m + e = 50000
  BY <1>1, <1>4, <1>5
<1> HIDE DEF e
<1>7. (100 * c + 2 * m + e) * s = 100 * (c * s) + 2 * (m * s) + e * s
  BY <1>1, <1>5, <1>6
<1> DEFINE cs == c * s
           ms == m * s
           es == e * s
<1>8. cs \in Int /\ ms \in Int /\ es \in Nat
  BY <1>1, <1>5, <1>6
<1>9. 50000 * s = 100 * cs + 2 * ms + es /\ Pnl(plan, s) = cs + v * 1000
  BY <1>1, <1>6, <1>7
<1>10. InDollars(plan, plan.stop, s) = 2 * ms
  <2>1. InDollars(plan, plan.stop, s) = (2 * m) * s
    BY <1>3, <1>5
  <2>2. (2 * m) * s = 2 * (m * s)
    BY <1>5
  <2> QED BY <2>1, <2>2
<1> HIDE DEF cs, ms, es
<1>11. 100 * (cs + v * 1000) <= -(2 * ms)
  BY <1>1, <1>3, <1>8, <1>9
<1>12. 100 * Pnl(plan, s) <= -InDollars(plan, plan.stop, s)
  BY <1>9, <1>10, <1>11
<1> QED BY <1>12 DEF StopInReach

\* The second loses at most its debit.
LEMMA BoughtKeeps ==
    ASSUME NEW p, NEW plan, Bought(p, plan)
    PROVE  DebitIsTheRisk(plan)
<1>1. ASSUME NEW s \in Settlements PROVE Pnl(plan, s) >= Credit(plan.legs) * s
  <2>1. s \in Nat
    BY ContextAssumption
  <2> DEFINE c == Credit(plan.legs)
             v == HeldWorth(plan.legs, s)
  <2>2. c \in Int /\ v \in Int /\ Pnl(plan, s) = c * s + v * 1000 /\ v >= 0
    BY <2>1, PnlIs DEF Bought
  <2> HIDE DEF c, v
  <2>3. c * s \in Int
    BY <2>1, <2>2
  <2> DEFINE cs == c * s
  <2> HIDE DEF cs
  <2>4. cs + v * 1000 >= cs
    BY <2>2, <2>3 DEF cs
  <2> QED BY <2>2, <2>4 DEF c, cs
<1> QED BY <1>1 DEF DebitIsTheRisk

\* It loses all of it where its legs are worth nothing, and its stop is a part of that.
LEMMA BoughtStops ==
    ASSUME NEW p \in Presets, NEW plan, Bought(p, plan),
           NEW s \in Outcomes, s \in Nat, s >= 1, HeldWorth(plan.legs, s) = 0
    PROVE  StopInReach(plan) /\ Pnl(plan, s) < 0
<1> DEFINE c == Credit(plan.legs)
           t == p.stop
<1>1. c \in Int /\ c < 0 /\ Pnl(plan, s) = c * s + 0 * 1000
  <2>1. Bundle(plan.legs) /\ c < 0
    BY DEF Bought
  <2>2. c \in Int /\ Pnl(plan, s) = c * s + HeldWorth(plan.legs, s) * 1000
    BY <2>1, PnlIs
  <2> QED BY <2>1, <2>2
<1>2. t \in Nat /\ t <= 100
  <2>1. p.kind \in Buying
    BY DEF Bought
  <2>2. p.stop <= 100
    <3>1. Modest(p)
      BY ModestAssumption
    <3> QED BY <2>1, <3>1 DEF Modest
  <2> QED BY <2>2, ContextAssumption
<1>3. plan.stop = -c * t /\ InDollars(plan, plan.stop, s) = plan.stop * s
  BY DEF Bought, Buying, InDollars
<1> HIDE DEF c, t
<1> DEFINE d == -c
           m == d * t
<1>4. d \in Nat /\ d >= 1 /\ -c * t = m /\ m \in Nat /\ c * s = -(d * s)
  BY <1>1, <1>2
<1>5. 100 * d - m \in Nat
  <2>1. 100 - t \in Nat /\ d * (100 - t) \in Nat /\ d * (100 - t) = 100 * d - d * t
    BY <1>2, <1>4
  <2> QED BY <2>1
<1>6. d * s \in Nat /\ d * s >= 1
  BY <1>4
<1> HIDE DEF d, m
<1> DEFINE k == 100 * d - m
<1>7. k \in Nat /\ 100 * d = m + k
  BY <1>4, <1>5
<1> HIDE DEF k
<1>8. (100 * d) * s = m * s + k * s /\ (100 * d) * s = 100 * (d * s)
  <2>1. (m + k) * s = m * s + k * s
    BY <1>4, <1>7
  <2>2. (100 * d) * s = 100 * (d * s)
    BY <1>4
  <2> QED BY <1>7, <2>1, <2>2
<1> DEFINE ds == d * s
           ms == m * s
           ks == k * s
<1>9. ds \in Nat /\ ds >= 1 /\ ms \in Nat /\ ks \in Nat /\ 100 * ds = ms + ks
  BY <1>4, <1>6, <1>7, <1>8
<1>10. Pnl(plan, s) = -ds /\ InDollars(plan, plan.stop, s) = ms
  BY <1>1, <1>3, <1>4, <1>6
<1> HIDE DEF ds, ms, ks
<1>11. 100 * Pnl(plan, s) <= -InDollars(plan, plan.stop, s) /\ Pnl(plan, s) < 0
  BY <1>9, <1>10
<1> QED BY <1>11 DEF StopInReach

\* Its target, a multiple of its debit, is a profit where its legs are worth half
\* the settlement.
LEMMA BoughtEarns ==
    ASSUME NEW p \in Presets, NEW plan, Bought(p, plan), plan.target = -Credit(plan.legs) * p.target,
           NEW x \in Prices \cup {0}, NEW y \in Prices \cup {0}, Credit(plan.legs) = -(x + y),
           NEW s \in Outcomes, s \in Nat, s >= 1, 2 * HeldWorth(plan.legs, s) >= s
    PROVE  TargetInReach(plan) /\ Pnl(plan, s) > 0
<1> DEFINE c == Credit(plan.legs)
           v == HeldWorth(plan.legs, s)
           t == p.target
           d == x + y
<1>1. c \in Int /\ c < 0 /\ v \in Int /\ Pnl(plan, s) = c * s + v * 1000
  BY PnlIs DEF Bought
<1>2. t \in Nat /\ (100 + t) * d < 50000 /\ x \in Nat /\ y \in Nat
  <2>1. p.kind \in Buying
    BY DEF Bought
  <2>2. p.target \in Nat /\ x \in Nat /\ y \in Nat
    BY ContextAssumption
  <2>3. TargetFits(p, x + y)
    <3>1. Modest(p)
      BY ModestAssumption
    <3> QED BY <2>1, <3>1 DEF Modest
  <2> QED BY <2>2, <2>3 DEF TargetFits
<1>3. plan.target = -c * t /\ InDollars(plan, plan.target, s) = plan.target * s /\ c = -d /\ 2 * v >= s
  BY DEF Bought, Buying, InDollars
<1>4. d \in Nat
  BY <1>2
<1> HIDE DEF c, v, t, d
<1> DEFINE m == d * t
<1>5. m \in Nat /\ (100 + t) * d = 100 * d + m /\ -c * t = m /\ c * s = -(d * s)
  <2>1. m \in Nat /\ (100 + t) * d = 100 * d + m
    BY <1>2, <1>4
  <2>2. (-d) * t = -m /\ (-d) * s = -(d * s)
    BY <1>2, <1>4
  <2>3. c * t = -m /\ c * s = -(d * s)
    BY <1>3, <2>2
  <2> QED BY <2>1, <2>3
<1> HIDE DEF m
<1> DEFINE e == 50000 - (100 * d + m)
<1>6. e \in Nat /\ e >= 1 /\ 100 * d + m + e = 50000
  BY <1>2, <1>4, <1>5
<1> HIDE DEF e
<1>7. (100 * d + m + e) * s = 100 * (d * s) + m * s + e * s
  BY <1>4, <1>5, <1>6
<1> DEFINE ds == d * s
           ms == m * s
           es == e * s
<1>8. ds \in Nat /\ ms \in Nat /\ es \in Nat /\ es >= 1
  BY <1>4, <1>5, <1>6
<1>9. 50000 * s = 100 * ds + ms + es /\ Pnl(plan, s) = -ds + v * 1000
  BY <1>1, <1>5, <1>6, <1>7
<1>10. InDollars(plan, plan.target, s) = ms
  BY <1>3, <1>5
<1> HIDE DEF ds, ms, es
<1>11. 100 * (-ds + v * 1000) >= ms /\ -ds + v * 1000 > 0
  BY <1>1, <1>3, <1>8, <1>9
<1>12. 100 * Pnl(plan, s) >= InDollars(plan, plan.target, s) /\ Pnl(plan, s) > 0
  BY <1>9, <1>10, <1>11
<1> QED BY <1>12 DEF TargetInReach

------------------------------------------------------------------------------
(* The plans of each strategy. *)

\* A call sold or held at or above the strike at the money, and a put at or below,
\* is worth nothing there.
LEMMA OutOfTheMoney ==
    ASSUME ContextInv, AtmStrike \in Nat, NEW way \in {"BUY", "SELL"}, NEW k \in ctx.strikes
    PROVE  /\ k >= AtmStrike => Worth(LegOf(way, k, "C"), AtmStrike) = 0
           /\ k <= AtmStrike => Worth(LegOf(way, k, "P"), AtmStrike) = 0
<1> DEFINE c == LegOf(way, k, "C")
           q == LegOf(way, k, "P")
           a == AtmStrike
<1>1. "C" \in Sides /\ "P" \in Sides /\ k \in Nat
  BY DEF Sides, ContextInv
<1>2. IsOption(c) /\ c.strike = k /\ c.side = "C"
  BY <1>1, LegIs
<1>3. IsOption(q) /\ q.strike = k /\ q.side = "P"
  BY <1>1, LegIs
<1> HIDE DEF c, q, a
<1>4. a \in Nat
  BY DEF a
<1>5. Worth(c, a) = IF a >= k THEN a - k ELSE 0
  BY <1>2, <1>4, WorthIs
<1>6. Worth(q, a) = IF k >= a THEN k - a ELSE 0
  BY <1>3, <1>4, WorthIs
<1>7. k >= a => Worth(c, a) = 0
  BY <1>1, <1>4, <1>5
<1>8. k <= a => Worth(q, a) = 0
  BY <1>1, <1>4, <1>6
<1> QED BY <1>7, <1>8 DEF a, c, q

\* An option is worth at least half of the settlement at the end it is for, and
\* nothing at the other.
LEMMA WorthAtEnds ==
    ASSUME ContextInv, NEW l, IsOption(l), l.strike \in ctx.strikes
    PROVE  /\ Worth(l, Up) \in Nat /\ Worth(l, Down) \in Nat
           /\ l.side = "C" => 2 * Worth(l, Up) >= Up /\ Worth(l, Down) = 0
           /\ l.side = "P" => 2 * Worth(l, Down) >= Down /\ Worth(l, Up) = 0
<1> DEFINE k == l.strike
           h == Up
           d == Down
<1>1. h \in Nat /\ d \in Nat /\ d >= 1 /\ k \in Nat /\ h >= 2 * k /\ k >= 2 * d
  BY EndsAre DEF ContextInv
<1>2. /\ Worth(l, h) \in Nat /\ Worth(l, d) \in Nat
      /\ l.side = "C" => Worth(l, h) = IF h >= k THEN h - k ELSE 0
      /\ l.side = "P" => Worth(l, h) = IF k >= h THEN k - h ELSE 0
      /\ l.side = "C" => Worth(l, d) = IF d >= k THEN d - k ELSE 0
      /\ l.side = "P" => Worth(l, d) = IF k >= d THEN k - d ELSE 0
  BY <1>1, WorthIs
<1> DEFINE wh == Worth(l, h)
           wd == Worth(l, d)
<1> HIDE DEF k, h, d, wh, wd
<1>3. l.side = "C" => 2 * wh >= h /\ wd = 0
  BY <1>1, <1>2 DEF wh, wd
<1>4. k # 0 /\ ~(k >= h)
  BY <1>1
<1>5. l.side = "P" => 2 * wd >= d /\ wh = 0
  BY <1>1, <1>2, <1>4 DEF wh, wd
<1> QED BY <1>2, <1>3, <1>5 DEF wh, wd, h, d

\* An iron condor is such a sale.
LEMMA CondorIs ==
    ASSUME ContextInv, NEW p \in Presets, p.kind = "iron_condor", NEW plan \in IronCondor(p)
    PROVE  Sold(p, plan)
<1> DEFINE shortC == Snap(AtmStrike + Wing(p))
           longC == Snap(shortC + Wing(p))
           shortP == Snap(AtmStrike - Wing(p))
           longP == Snap(shortP - Wing(p))
           legs == {LegOf("SELL", shortC, "C"), LegOf("BUY", longC, "C"),
                    LegOf("SELL", shortP, "P"), LegOf("BUY", longP, "P")}
           risk == 1000 * (longC - shortC) - Credit(legs)
<1>1. /\ Eligible(p) /\ longC > shortC /\ longP < shortP /\ Credit(legs) > 0
      /\ plan = ForCredit(p, legs, risk)
  BY DEF IronCondor
<1>2. plan.by = p /\ plan.legs = legs /\ plan.target = Credit(legs) * p.profit
  BY <1>1 DEF ForCredit
<1>3. ctx.strikes # {} /\ AtmStrike \in Nat /\ AtmStrike \in ctx.strikes /\ ctx.strikes \subseteq Nat
  BY <1>1, AtmIs DEF ContextInv
<1>4. /\ shortC \in ctx.strikes /\ shortC >= AtmStrike
      /\ shortP \in ctx.strikes /\ shortP <= AtmStrike
  BY <1>1, WingStrikes
<1>5. Wing(p) \in Int
  BY WingIs
<1>6. longC \in ctx.strikes /\ longP \in ctx.strikes
  <2> HIDE DEF shortC, shortP
  <2>1. shortC + Wing(p) \in Int /\ shortP - Wing(p) \in Int
    BY <1>3, <1>4, <1>5
  <2> QED BY <1>3, <2>1, SnapIs
<1> HIDE DEF shortC, longC, shortP, longP, risk
<1>7. longC >= AtmStrike /\ longP <= AtmStrike
  BY <1>1, <1>3, <1>4, <1>6
<1>8. "C" \in Sides /\ "P" \in Sides
  BY DEF Sides
<1>9. IsOption(LegOf("SELL", shortC, "C")) /\ Worth(LegOf("SELL", shortC, "C"), AtmStrike) = 0
  BY <1>3, <1>4, <1>8, LegIs, OutOfTheMoney
<1>10. IsOption(LegOf("BUY", longC, "C")) /\ Worth(LegOf("BUY", longC, "C"), AtmStrike) = 0
  BY <1>3, <1>6, <1>7, <1>8, LegIs, OutOfTheMoney
<1>11. IsOption(LegOf("SELL", shortP, "P")) /\ Worth(LegOf("SELL", shortP, "P"), AtmStrike) = 0
  BY <1>3, <1>4, <1>8, LegIs, OutOfTheMoney
<1>12. IsOption(LegOf("BUY", longP, "P")) /\ Worth(LegOf("BUY", longP, "P"), AtmStrike) = 0
  BY <1>3, <1>6, <1>7, <1>8, LegIs, OutOfTheMoney
<1>13. IsFiniteSet(legs)
  BY FewAreFinite
<1>14. Bundle(legs) /\ \A l \in legs : Worth(l, AtmStrike) = 0
  BY <1>9, <1>10, <1>11, <1>12, <1>13 DEF Bundle
<1> HIDE DEF legs
<1> QED BY <1>1, <1>2, <1>3, <1>14 DEF Sold

\* A short strangle is one, whose puts cost half of the lower end.
LEMMA StrangleIs ==
    ASSUME ContextInv, NEW p \in Presets, p.kind = "short_strangle", NEW plan \in ShortStrangle(p)
    PROVE  Sold(p, plan) /\ StopInReach(plan)
<1> DEFINE shortC == Snap(AtmStrike + Wing(p))
           shortP == Snap(AtmStrike - Wing(p))
           c == LegOf("SELL", shortC, "C")
           q == LegOf("SELL", shortP, "P")
           legs == {c, q}
<1>1. Eligible(p) /\ AllQuoted(legs) /\ plan = ForCredit(p, legs, 2 * Credit(legs))
  BY DEF ShortStrangle
<1>2. /\ plan.by = p /\ plan.legs = legs /\ plan.target = Credit(legs) * p.profit
      /\ plan.stop = (2 * Credit(legs)) * p.stop
  BY <1>1 DEF ForCredit
<1>3. AtmStrike \in Nat /\ AtmStrike \in ctx.strikes
  BY <1>1, AtmIs
<1>4. /\ shortC \in ctx.strikes /\ shortC >= AtmStrike
      /\ shortP \in ctx.strikes /\ shortP <= AtmStrike
  BY <1>1, WingStrikes
<1> HIDE DEF shortC, shortP
<1>5. "C" \in Sides /\ "P" \in Sides
  BY DEF Sides
<1>6. /\ IsOption(c) /\ c.way = "SELL" /\ c.side = "C" /\ c.strike \in ctx.strikes
      /\ c.price \in Prices \cup {0} /\ Worth(c, AtmStrike) = 0
  BY <1>3, <1>4, <1>5, LegIs, OutOfTheMoney
<1>7. /\ IsOption(q) /\ q.way = "SELL" /\ q.side = "P" /\ q.strike \in ctx.strikes
      /\ q.price \in Prices \cup {0} /\ Worth(q, AtmStrike) = 0
  BY <1>3, <1>4, <1>5, LegIs, OutOfTheMoney
<1> HIDE DEF c, q
<1>8. c # q /\ \A l \in legs : l.way = "SELL" /\ l.price > 0 /\ Worth(l, AtmStrike) = 0
  BY <1>1, <1>6, <1>7 DEF AllQuoted
<1>9. Bundle(legs) /\ Credit(legs) = c.price + q.price
  <2>1. Bundle(legs) /\ Credit(legs) = LegCredit(c) + LegCredit(q)
    BY <1>6, <1>7, <1>8, TwoLegs
  <2> QED BY <1>6, <1>7, <2>1 DEF LegCredit
<1>10. Credit(legs) > 0
  BY <1>8, <1>9, SoldBringIn
<1>11. Sold(p, plan)
  <2> HIDE DEF legs
  <2> QED BY <1>2, <1>3, <1>8, <1>9, <1>10 DEF Sold
<1>12. Down \in Outcomes /\ Down \in Nat /\ 2 * HeldWorth(legs, Down) <= -Down
  <2>1. Down \in Nat
    BY EndsAre
  <2>2. HeldWorth(legs, Down) = LegWorth(c, Down) + LegWorth(q, Down)
    BY <1>6, <1>7, <1>8, <2>1, TwoLegs
  <2>3. Worth(c, Down) = 0
    BY <1>6, WorthAtEnds
  <2>4. 2 * Worth(q, Down) >= Down /\ Worth(q, Down) \in Nat
    BY <1>7, WorthAtEnds
  <2>5. LegWorth(c, Down) = -Worth(c, Down)
    BY ONLY <1>6 DEF LegWorth
  <2>8. LegWorth(q, Down) = -Worth(q, Down)
    BY ONLY <1>7 DEF LegWorth
  <2> DEFINE w == Worth(q, Down)
             d == Down
  <2>6. HeldWorth(legs, d) = (-0) + (-w) /\ 2 * w >= d /\ w \in Nat /\ d \in Nat
    BY <2>1, <2>2, <2>3, <2>4, <2>5, <2>8
  <2> HIDE DEF w, d
  <2>7. 2 * HeldWorth(legs, d) <= -d
    BY <2>6
  <2> QED BY <2>1, <2>7 DEF d, Outcomes
<1>13. StopInReach(plan)
  <2> HIDE DEF legs
  <2>1. p.kind \in Selling
    BY DEF Selling
  <2> QED BY <1>2, <1>6, <1>7, <1>9, <1>11, <1>12, <2>1, SoldStops
<1> QED BY <1>11, <1>13

\* A short call is one, which costs half of the upper end.
LEMMA ShortCallIs ==
    ASSUME ContextInv, NEW p \in Presets, p.kind = "short_call", NEW plan \in ShortCall(p)
    PROVE  Sold(p, plan) /\ StopInReach(plan)
<1> DEFINE shortC == Snap(AtmStrike + Wing(p))
           c == LegOf("SELL", shortC, "C")
           legs == {c}
<1>1. Eligible(p) /\ AllQuoted(legs) /\ plan = ForCredit(p, legs, 2 * Credit(legs))
  BY DEF ShortCall
<1>2. /\ plan.by = p /\ plan.legs = legs /\ plan.target = Credit(legs) * p.profit
      /\ plan.stop = (2 * Credit(legs)) * p.stop
  BY <1>1 DEF ForCredit
<1>3. AtmStrike \in Nat /\ AtmStrike \in ctx.strikes
  BY <1>1, AtmIs
<1>4. shortC \in ctx.strikes /\ shortC >= AtmStrike
  BY <1>1, WingStrikes
<1> HIDE DEF shortC
<1>5. "C" \in Sides
  BY DEF Sides
<1>6. /\ IsOption(c) /\ c.way = "SELL" /\ c.side = "C" /\ c.strike \in ctx.strikes
      /\ c.price \in Prices \cup {0} /\ Worth(c, AtmStrike) = 0
  BY <1>3, <1>4, <1>5, LegIs, OutOfTheMoney
<1> HIDE DEF c
<1>7. \A l \in legs : l.way = "SELL" /\ l.price > 0 /\ Worth(l, AtmStrike) = 0
  BY <1>1, <1>6 DEF AllQuoted
<1>8. Bundle(legs) /\ Credit(legs) = c.price + 0
  <2>1. Bundle(legs) /\ Credit(legs) = LegCredit(c) /\ c.price \in Nat
    BY <1>6, OneLeg DEF IsOption
  <2> QED BY <1>6, <2>1 DEF LegCredit
<1>9. Credit(legs) > 0
  BY <1>7, <1>8, SoldBringIn
<1>10. Sold(p, plan)
  <2> HIDE DEF legs
  <2> QED BY <1>2, <1>3, <1>7, <1>8, <1>9 DEF Sold
<1>11. Up \in Outcomes /\ Up \in Nat /\ 2 * HeldWorth(legs, Up) <= -Up
  <2>1. Up \in Nat
    BY EndsAre
  <2>2. HeldWorth(legs, Up) = LegWorth(c, Up)
    BY <1>6, <2>1, OneLeg
  <2>3. 2 * Worth(c, Up) >= Up /\ Worth(c, Up) \in Nat
    BY <1>6, WorthAtEnds
  <2>4. LegWorth(c, Up) = -Worth(c, Up)
    BY <1>6 DEF LegWorth
  <2> DEFINE w == Worth(c, Up)
             u == Up
  <2>5. HeldWorth(legs, u) = -w /\ 2 * w >= u /\ w \in Nat /\ u \in Nat
    BY <2>1, <2>2, <2>3, <2>4
  <2> HIDE DEF w, u
  <2>6. 2 * HeldWorth(legs, u) <= -u
    BY <2>5
  <2> QED BY <2>1, <2>6 DEF u, Outcomes
<1>12. StopInReach(plan)
  <2> HIDE DEF legs
  <2>1. p.kind \in Selling /\ 0 \in Prices \cup {0}
    BY DEF Selling
  <2> QED BY <1>2, <1>6, <1>8, <1>10, <1>11, <2>1, SoldStops
<1> QED BY <1>10, <1>12

\* A debit spread is a purchase: at no settlement is what it sold worth more than
\* what it bought, and both are worth nothing at the end against it.
LEMMA SpreadIs ==
    ASSUME ContextInv, NEW p \in Presets, p.kind = "debit_spread", NEW plan \in DebitSpread(p)
    PROVE  /\ Bought(p, plan)
           /\ Direction = "C" => HeldWorth(plan.legs, Down) = 0
           /\ Direction = "P" => HeldWorth(plan.legs, Up) = 0
<1> DEFINE Legs(k) == {LegOf("BUY", AtmStrike, Direction), LegOf("SELL", k, Direction)}
           Most(k) == 1000 * Dist(k, AtmStrike) + Credit(Legs(k))
           Plan(k) == [ForDebit(p, Legs(k)) EXCEPT !.target = Min({@, 90 * Most(k)})]
           Found(k) == IF Eligible(p) /\ AllQuoted(Legs(k)) /\ Credit(Legs(k)) < 0 /\ Most(k) > 0
                       THEN {Plan(k)} ELSE {}
<1>1. PICK short \in ShortStrikes(p) : Eligible(p) /\ Credit(Legs(short)) < 0 /\ plan = Plan(short)
  <2>1. plan \in UNION {Found(k) : k \in ShortStrikes(p)}
    BY DEF DebitSpread
  <2>2. PICK k \in ShortStrikes(p) : plan \in Found(k)
    <3> HIDE DEF Found
    <3> QED BY <2>1
  <2>3. Eligible(p) /\ Credit(Legs(k)) < 0 /\ plan = Plan(k)
    <3> HIDE DEF Plan, Legs, Most
    <3> QED BY <2>2
  <2> HIDE DEF Plan, Legs, Most, Found
  <2> QED BY <2>3
<1> DEFINE b == LegOf("BUY", AtmStrike, Direction)
           d == LegOf("SELL", short, Direction)
<1>2. plan.by = p /\ plan.legs = {b, d} /\ plan.stop = -Credit({b, d}) * p.stop /\ Credit({b, d}) < 0
  <2> DEFINE x == ForDebit(p, Legs(short))
  <2>1. /\ x.by = p /\ x.legs = {b, d} /\ x.stop = -Credit({b, d}) * p.stop
        /\ DOMAIN x = {"by", "legs", "target", "stop"}
    BY DEF ForDebit
  <2>2. plan = [x EXCEPT !.target = Min({@, 90 * Most(short)})] /\ Credit({b, d}) < 0
    BY <1>1
  <2> HIDE DEF x, b, d, Most
  <2>3. plan.by = x.by /\ plan.legs = x.legs /\ plan.stop = x.stop
    BY <2>1, <2>2
  <2> QED BY <2>1, <2>2, <2>3
<1>3. AtmStrike \in ctx.strikes /\ AtmStrike \in Nat
  BY <1>1, AtmIs
<1>4. /\ short \in ctx.strikes /\ short \in Nat
      /\ Direction = "C" => short > AtmStrike
      /\ Direction = "P" => short < AtmStrike
  BY <1>1, ShortIsBeyond
<1>5. Direction \in Sides /\ (Direction = "C" \/ Direction = "P")
  BY DEF Direction, Sides
<1>6. IsOption(b) /\ b.way = "BUY" /\ b.strike = AtmStrike /\ b.side = Direction
  BY <1>3, <1>5, LegIs
<1>7. IsOption(d) /\ d.way = "SELL" /\ d.strike = short /\ d.side = Direction
  BY <1>4, <1>5, LegIs
<1> HIDE DEF b, d, Legs, Most
<1>8. b # d
  BY <1>6, <1>7
<1>9. \A s \in Nat :
          HeldWorth({b, d}, s) = Worth(b, s) - Worth(d, s) /\ Worth(b, s) \in Nat /\ Worth(d, s) \in Nat
  <2> TAKE s \in Nat
  <2>1. Worth(b, s) \in Nat /\ Worth(d, s) \in Nat
    BY <1>6, <1>7, WorthIs
  <2>2. HeldWorth({b, d}, s) = LegWorth(b, s) + LegWorth(d, s)
    BY <1>6, <1>7, <1>8, TwoLegs
  <2>3. LegWorth(b, s) = Worth(b, s) /\ LegWorth(d, s) = -Worth(d, s)
    BY <1>6, <1>7 DEF LegWorth
  <2> QED BY <2>1, <2>2, <2>3
<1>10. ASSUME NEW s \in Nat PROVE HeldWorth({b, d}, s) >= 0
  <2>1. Worth(b, s) >= Worth(d, s)
    <3>1. /\ Worth(b, s) \in Nat
          /\ Direction = "C" => Worth(b, s) = IF s >= AtmStrike THEN s - AtmStrike ELSE 0
          /\ Direction = "P" => Worth(b, s) = IF AtmStrike >= s THEN AtmStrike - s ELSE 0
      BY <1>6, WorthIs
    <3>2. /\ Worth(d, s) \in Nat
          /\ Direction = "C" => Worth(d, s) = IF s >= short THEN s - short ELSE 0
          /\ Direction = "P" => Worth(d, s) = IF short >= s THEN short - s ELSE 0
      BY <1>7, WorthIs
    <3> QED BY <1>3, <1>4, <1>5, <3>1, <3>2
  <2>2. HeldWorth({b, d}, s) = Worth(b, s) - Worth(d, s) /\ Worth(b, s) \in Nat /\ Worth(d, s) \in Nat
    BY <1>9
  <2> QED BY ONLY <2>1, <2>2
<1>11. Bundle({b, d})
  BY <1>6, <1>7, <1>8, TwoLegs
<1>12. Bought(p, plan)
  BY <1>2, <1>10, <1>11 DEF Bought, Buying
<1>13. Up \in Nat /\ Down \in Nat
  BY EndsAre
<1>14. Direction = "C" => Worth(b, Down) = 0 /\ Worth(d, Down) = 0
  BY <1>3, <1>4, <1>6, <1>7, WorthAtEnds
<1>15. Direction = "P" => Worth(b, Up) = 0 /\ Worth(d, Up) = 0
  BY <1>3, <1>4, <1>6, <1>7, WorthAtEnds
<1>16. Direction = "C" => HeldWorth({b, d}, Down) = 0
  <2>1. HeldWorth({b, d}, Down) = Worth(b, Down) - Worth(d, Down)
    BY <1>9, <1>13
  <2> QED BY ONLY <1>14, <2>1
<1>17. Direction = "P" => HeldWorth({b, d}, Up) = 0
  <2>1. HeldWorth({b, d}, Up) = Worth(b, Up) - Worth(d, Up)
    BY <1>9, <1>13
  <2> QED BY ONLY <1>15, <2>1
<1> QED BY <1>2, <1>12, <1>16, <1>17

\* So is one option in the direction of the momentum,
LEMMA DirectionalIs ==
    ASSUME ContextInv, NEW p \in Presets, p.kind = "directional_debit", NEW plan \in DirectionalDebit(p)
    PROVE  /\ Bought(p, plan) /\ plan.target = -Credit(plan.legs) * p.target
           /\ \E x \in Prices \cup {0} : Credit(plan.legs) = -(x + 0)
           /\ Direction = "C" => 2 * HeldWorth(plan.legs, Up) >= Up /\ HeldWorth(plan.legs, Down) = 0
           /\ Direction = "P" => 2 * HeldWorth(plan.legs, Down) >= Down /\ HeldWorth(plan.legs, Up) = 0
<1>1. PICK k \in ctx.strikes : Quoted(k, Direction) > 0 /\ plan = ForDebit(p, {LegOf("BUY", k, Direction)})
  BY DEF DirectionalDebit
<1> DEFINE l == LegOf("BUY", k, Direction)
<1>2. /\ plan.by = p /\ plan.legs = {l} /\ plan.target = -Credit({l}) * p.target
      /\ plan.stop = -Credit({l}) * p.stop
  BY <1>1 DEF ForDebit
<1>3. Direction \in Sides /\ (Direction = "C" \/ Direction = "P")
  BY DEF Direction, Sides
<1>4. /\ IsOption(l) /\ l.way = "BUY" /\ l.strike \in ctx.strikes /\ l.side = Direction
      /\ l.price \in Prices \cup {0}
  BY <1>3, LegIs
<1>5. l.price > 0
  BY <1>1 DEF LegOf
<1> HIDE DEF l
<1>6. /\ Bundle({l}) /\ Credit({l}) = LegCredit(l)
      /\ \A s \in Nat : HeldWorth({l}, s) = LegWorth(l, s)
  BY <1>4, OneLeg
<1>7. \A s \in Nat : HeldWorth({l}, s) = Worth(l, s) /\ Worth(l, s) \in Nat
  BY <1>4, <1>6, WorthIs DEF LegWorth
<1>8. Credit({l}) = -(l.price + 0) /\ Credit({l}) < 0
  <2>1. l.price \in Nat /\ Credit({l}) = -l.price
    BY <1>4, <1>6 DEF IsOption, LegCredit
  <2> QED BY <1>5, <2>1
<1>9. \A s \in Nat : HeldWorth({l}, s) >= 0
  BY <1>7
<1>10. Bought(p, plan)
  BY <1>2, <1>6, <1>8, <1>9 DEF Bought, Buying
<1>11. Up \in Nat /\ Down \in Nat
  BY EndsAre
<1>12. /\ l.side = "C" => 2 * Worth(l, Up) >= Up /\ Worth(l, Down) = 0
       /\ l.side = "P" => 2 * Worth(l, Down) >= Down /\ Worth(l, Up) = 0
  BY <1>4, WorthAtEnds
<1>13. /\ Direction = "C" => 2 * HeldWorth({l}, Up) >= Up /\ HeldWorth({l}, Down) = 0
       /\ Direction = "P" => 2 * HeldWorth({l}, Down) >= Down /\ HeldWorth({l}, Up) = 0
  BY <1>4, <1>7, <1>11, <1>12
<1> QED BY <1>2, <1>4, <1>8, <1>10, <1>13

\* and a call and a put at the money, which are both worth nothing there.
LEMMA StraddleIs ==
    ASSUME ContextInv, NEW p \in Presets, p.kind = "long_straddle", NEW plan \in LongStraddle(p)
    PROVE  /\ Bought(p, plan) /\ plan.target = -Credit(plan.legs) * p.target
           /\ \E x, y \in Prices \cup {0} : Credit(plan.legs) = -(x + y)
           /\ 2 * HeldWorth(plan.legs, Up) >= Up
           /\ AtmStrike \in ctx.strikes /\ HeldWorth(plan.legs, AtmStrike) = 0
<1> DEFINE c == LegOf("BUY", AtmStrike, "C")
           q == LegOf("BUY", AtmStrike, "P")
           legs == {c, q}
<1>1. Eligible(p) /\ AllQuoted(legs) /\ plan = ForDebit(p, legs)
  BY DEF LongStraddle
<1>2. /\ plan.by = p /\ plan.legs = legs /\ plan.target = -Credit(legs) * p.target
      /\ plan.stop = -Credit(legs) * p.stop
  BY <1>1 DEF ForDebit
<1>3. AtmStrike \in ctx.strikes /\ AtmStrike \in Nat /\ "C" \in Sides /\ "P" \in Sides
  BY <1>1, AtmIs DEF Sides
<1>4. /\ IsOption(c) /\ c.way = "BUY" /\ c.strike \in ctx.strikes /\ c.side = "C"
      /\ c.price \in Prices \cup {0} /\ Worth(c, AtmStrike) = 0
  BY <1>3, LegIs, OutOfTheMoney
<1>5. /\ IsOption(q) /\ q.way = "BUY" /\ q.strike \in ctx.strikes /\ q.side = "P"
      /\ q.price \in Prices \cup {0} /\ Worth(q, AtmStrike) = 0
  BY <1>3, LegIs, OutOfTheMoney
<1> HIDE DEF c, q
<1>6. c # q /\ c.price > 0 /\ q.price > 0 /\ c.price \in Nat /\ q.price \in Nat
  BY <1>1, <1>4, <1>5 DEF AllQuoted, IsOption
<1>7. /\ Bundle(legs) /\ Credit(legs) = LegCredit(c) + LegCredit(q)
      /\ \A s \in Nat : HeldWorth(legs, s) = LegWorth(c, s) + LegWorth(q, s)
  BY <1>4, <1>5, <1>6, TwoLegs
<1>8. Credit(legs) = -(c.price + q.price) /\ Credit(legs) < 0
  <2>1. LegCredit(c) = -c.price /\ LegCredit(q) = -q.price
    BY <1>4, <1>5 DEF LegCredit
  <2> QED BY <1>6, <1>7, <2>1
<1> HIDE DEF legs
<1>9. ASSUME NEW s \in Nat
      PROVE  HeldWorth(legs, s) = Worth(c, s) + Worth(q, s) /\ Worth(c, s) \in Nat /\ Worth(q, s) \in Nat
  <2>1. Worth(c, s) \in Nat /\ Worth(q, s) \in Nat
    BY <1>4, <1>5, WorthIs
  <2>2. LegWorth(c, s) = Worth(c, s) /\ LegWorth(q, s) = Worth(q, s)
    BY <1>4, <1>5 DEF LegWorth
  <2> QED BY <1>7, <2>1, <2>2
<1>10. \A s \in Nat : HeldWorth(legs, s) >= 0
  BY <1>9
<1>11. Bought(p, plan)
  BY <1>2, <1>7, <1>8, <1>10 DEF Bought, Buying
<1>12. HeldWorth(legs, AtmStrike) = 0
  BY <1>3, <1>4, <1>5, <1>9
<1>13. 2 * HeldWorth(legs, Up) >= Up
  <2>1. Up \in Nat
    BY EndsAre
  <2>2. 2 * Worth(c, Up) >= Up /\ Worth(q, Up) = 0
    BY <1>4, <1>5, WorthAtEnds
  <2>3. HeldWorth(legs, Up) = Worth(c, Up) + 0 /\ Worth(c, Up) \in Nat
    BY <1>9, <2>1, <2>2
  <2> QED BY <2>1, <2>2, <2>3
<1>14. \E x, y \in Prices \cup {0} : Credit(legs) = -(x + y)
  BY <1>4, <1>5, <1>8
<1> QED BY <1>2, <1>3, <1>11, <1>12, <1>13, <1>14

\* A trend's stop or target, which is at most half of the price, for a contract.
Far(m, x, t, z) == (((Dist(m, 0) * x) * 3 * t) * z) \div 2000

\* With a modest multiple it is at most half of what the contract is worth.
LEMMA FarIs ==
    ASSUME NEW m \in Int, NEW x \in Nat, NEW t \in Nat, NEW z \in {1, 10},
           3 * t * Dist(m, 0) <= 1000 * 100
    PROVE  Far(m, x, t, z) \in Int /\ Far(m, x, t, z) <= 50 * x * z
<1> DEFINE a == Dist(m, 0)
           e == (3 * t) * a
<1>1. a \in Nat
  BY DistIs
<1>2. e \in Nat /\ e <= 1000 * 100
  BY <1>1
<1> HIDE DEF a
<1>3. (a * x) * 3 * t = e * x
  <2>1. ((a * x) * 3) * t = (3 * t) * (a * x)
    BY <1>1
  <2>2. (3 * t) * (a * x) = ((3 * t) * a) * x
    BY <1>1
  <2> QED BY <2>1, <2>2
<1> HIDE DEF e
<1>4. e * x \in Nat /\ e * x <= 1000 * (100 * x)
  <2> DEFINE n == 1000 * 100 - e
  <2>1. n \in Nat /\ n + e = 1000 * 100
    BY <1>2
  <2> HIDE DEF n
  <2>2. n * x \in Nat /\ e * x \in Nat
    BY <1>2, <2>1
  <2>3. (n + e) * x = n * x + e * x
    BY <1>2, <2>1
  <2> QED BY <2>1, <2>2, <2>3
<1> DEFINE y == e * x
<1> HIDE DEF y
<1>5. y \in Nat /\ y <= 1000 * (100 * x)
  BY <1>4 DEF y
<1>6. (y * z) \div 2000 \in Int /\ (y * z) \div 2000 <= 50 * x * z
  <2>1. CASE z = 1
    <3>1. y \div 2000 \in Int /\ y \div 2000 <= 50 * x
      BY <1>5
    <3> QED BY <1>5, <2>1, <3>1
  <2>2. CASE z = 10
    <3>1. (y * 10) \div 2000 \in Int /\ (y * 10) \div 2000 <= 500 * x
      BY <1>5
    <3> QED BY <1>5, <2>2, <3>1
  <2> QED BY <2>1, <2>2
<1> QED BY <1>3, <1>6 DEF a, y, Far

\* A perpetual gains as much when the market doubles or halves with the momentum,
\* and loses as much when it goes the other way.
LEMMA FuturesIs ==
    ASSUME ContextInv, NEW p \in Presets, p.kind = "futures_trend", NEW plan \in FuturesTrend(p)
    PROVE  TargetInReach(plan) /\ StopInReach(plan) /\ FollowsMomentum(p, plan)
<1> DEFINE moved == Dist(ctx.momentum, 0) * ctx.spot
           leg == [way |-> IF ctx.momentum > 0 THEN "BUY" ELSE "SELL", strike |-> 0, side |-> "F", price |-> ctx.spot]
           far(t) == ((moved * 3 * t) * ContractSize) \div 2000
           x == ctx.spot
           z == ContractSize
<1>1. plan = [by |-> p, legs |-> {leg}, target |-> far(p.target), stop |-> far(p.stop)]
  BY DEF FuturesTrend
<1>2. x \in Nat /\ x >= 2 /\ ctx.momentum \in Int /\ ctx.momentum \in Momenta
  BY DEF ContextInv
<1>3. z \in {1, 10}
  BY DEF ContractSize
<1>4. /\ far(p.target) \in Int /\ far(p.target) <= 50 * x * z
      /\ far(p.stop) \in Int /\ far(p.stop) <= 50 * x * z
  <2>1. p.target \in Nat /\ p.stop \in Nat
    BY ContextAssumption
  <2>2. /\ 3 * p.target * Dist(ctx.momentum, 0) <= 1000 * 100
        /\ 3 * p.stop * Dist(ctx.momentum, 0) <= 1000 * 100
    <3>1. Modest(p)
      BY ModestAssumption
    <3>2. TrendFits(p, ctx.momentum)
      BY <1>2, <3>1 DEF Modest
    <3> QED BY <3>2 DEF TrendFits
  <2> HIDE DEF x, z
  <2>3. Far(ctx.momentum, x, p.target, z) \in Int /\ Far(ctx.momentum, x, p.target, z) <= 50 * x * z
    BY <1>2, <1>3, <2>1, <2>2, FarIs
  <2>4. Far(ctx.momentum, x, p.stop, z) \in Int /\ Far(ctx.momentum, x, p.stop, z) <= 50 * x * z
    BY <1>2, <1>3, <2>1, <2>2, FarIs
  <2> QED BY <2>3, <2>4 DEF x, z, Far
<1> DEFINE ft == far(p.target)
           fs == far(p.stop)
<1>5. /\ plan.legs = {leg} /\ plan.target = ft /\ plan.stop = fs /\ plan.by = p
      /\ \A s : InDollars(plan, plan.target, s) = ft /\ InDollars(plan, plan.stop, s) = fs
  <2> HIDE DEF leg, far
  <2> QED BY <1>1 DEF InDollars
<1>6. ASSUME NEW s \in Nat PROVE Pnl(plan, s) = IF ctx.momentum > 0 THEN z * (s - x) ELSE -(z * (s - x))
  <2> DEFINE h == [l \in plan.legs |-> IF l.way = "BUY" THEN Gain(l, s) ELSE -Gain(l, s)]
  <2>1. Pnl(plan, s) = SumFunctionOnSet(h, {leg})
    BY <1>5 DEF Pnl
  <2>2. Gain(leg, s) = z * (s - x)
    BY DEF Gain
  <2>3. h[leg] = IF ctx.momentum > 0 THEN z * (s - x) ELSE -(z * (s - x))
    <3>1. leg \in plan.legs /\ (leg.way = "BUY" <=> ctx.momentum > 0)
      BY <1>5
    <3> QED BY <2>2, <3>1
  <2>4. h[leg] \in Int
    <3>1. z \in Int /\ s - x \in Int
      BY <1>2, <1>3
    <3>2. z * (s - x) \in Int
      BY <3>1
    <3> QED BY <2>3, <3>2
  <2> HIDE DEF h, leg
  <2>5. SumFunctionOnSet(h, {leg}) = h[leg]
    BY <2>4, SumOne
  <2> QED BY <2>1, <2>3, <2>5
<1>7. Up \in Nat /\ Down \in Nat /\ Up >= 2 * x /\ x >= 2 * Down
  BY EndsAre
<1> DEFINE u == Up
           d == Down
<1>8. u \in Outcomes /\ d \in Outcomes /\ u = Up /\ d = Down
  BY DEF Outcomes
<1>9. /\ u \in Nat /\ d \in Nat /\ u >= 2 * x /\ x >= 2 * d
      /\ Pnl(plan, u) = IF ctx.momentum > 0 THEN z * (u - x) ELSE -(z * (u - x))
      /\ Pnl(plan, d) = IF ctx.momentum > 0 THEN z * (d - x) ELSE -(z * (d - x))
  BY <1>6, <1>7
<1>10. ft \in Int /\ ft <= 50 * x * z /\ fs \in Int /\ fs <= 50 * x * z
  BY <1>4
<1> HIDE DEF leg, far, x, z, u, d, ft, fs
<1>11. /\ 100 * (z * (u - x)) >= ft /\ -(100 * (z * (u - x))) <= -fs /\ z * (u - x) > 0
       /\ 100 * (z * (d - x)) <= -fs /\ -(100 * (z * (d - x))) >= ft /\ z * (d - x) < 0
  <2>1. CASE z = 1
    BY <1>2, <1>9, <1>10, <2>1
  <2>2. CASE z = 10
    BY <1>2, <1>9, <1>10, <2>2
  <2> QED BY <1>3, <2>1, <2>2
<1>12. z * (u - x) \in Int /\ z * (d - x) \in Int
  BY <1>2, <1>3, <1>9
<1> DEFINE gu == z * (u - x)
           gd == z * (d - x)
<1>13. /\ gu \in Int /\ gd \in Int
       /\ 100 * gu >= ft /\ -(100 * gu) <= -fs /\ gu > 0
       /\ 100 * gd <= -fs /\ -(100 * gd) >= ft /\ gd < 0
       /\ Pnl(plan, u) = IF ctx.momentum > 0 THEN gu ELSE -gu
       /\ Pnl(plan, d) = IF ctx.momentum > 0 THEN gd ELSE -gd
  BY <1>9, <1>11, <1>12
<1> HIDE DEF gu, gd
<1>14. CASE ctx.momentum > 0
  <2>1. /\ 100 * Pnl(plan, u) >= ft /\ 100 * Pnl(plan, d) <= -fs
        /\ Pnl(plan, u) > 0 /\ Pnl(plan, d) < 0
    BY <1>13, <1>14
  <2> QED BY <1>5, <1>8, <1>14, <2>1 DEF TargetInReach, StopInReach, FollowsMomentum
<1>15. CASE ~(ctx.momentum > 0)
  <2>1. /\ 100 * Pnl(plan, d) >= ft /\ 100 * Pnl(plan, u) <= -fs
        /\ Pnl(plan, d) > 0 /\ Pnl(plan, u) < 0
    BY <1>10, <1>13, <1>15
  <2> QED BY <1>5, <1>8, <1>15, <2>1 DEF TargetInReach, StopInReach, FollowsMomentum
<1> QED BY <1>14, <1>15

------------------------------------------------------------------------------
(* The market. *)

\* The context keeps its shape, whatever is quoted and however the market moves.
LEMMA ContextAlways == PlansSpec => []ContextShape
<1>1. PlansInit => ContextShape
  <2>1. SUFFICES ASSUME PlansInit PROVE ContextShape
    OBVIOUS
  <2>2. PICK c \in Coins, grid \in Grids, s \in Spots, r \in Ranks, v \in Dvols, m \in Momenta, g \in Regimes, d \in Dtes :
            ctx = [coin |-> c, strikes |-> grid, ltp |-> [o \in grid \X Sides |-> 0], spot |-> s,
                   rank |-> r, dvol |-> v, momentum |-> m, regime |-> g, dte |-> d]
    BY <2>1 DEF PlansInit
  <2>3. [o \in grid \X Sides |-> 0] \in [grid \X Sides -> Prices \cup {0}]
    OBVIOUS
  <2> QED BY <2>2, <2>3 DEF ContextShape
<1>2. ContextShape /\ [PlansNext]_ctx => ContextShape'
  <2>1. SUFFICES ASSUME ContextShape, [PlansNext]_ctx PROVE ContextShape'
    OBVIOUS
  <2>2. CASE Requote
    <3>1. PICK o \in ctx.strikes \X Sides, x \in Prices : ctx' = [ctx EXCEPT !.ltp[o] = x]
      BY <2>2 DEF Requote
    <3>2. /\ DOMAIN ctx' = DOMAIN ctx /\ ctx'.strikes = ctx.strikes /\ ctx'.spot = ctx.spot
          /\ ctx'.momentum = ctx.momentum /\ ctx'.ltp = [ctx.ltp EXCEPT ![o] = x]
      BY <2>1, <3>1 DEF ContextShape
    <3>3. ctx'.ltp \in [ctx.strikes \X Sides -> Prices \cup {0}]
      BY <2>1, <3>1, <3>2 DEF ContextShape
    <3>4. ctx' = [f \in DOMAIN ctx' |-> ctx'[f]]
      BY <2>1, <3>1 DEF ContextShape
    <3> QED BY <2>1, <3>2, <3>3, <3>4 DEF ContextShape
  <2>3. CASE Moves
    <3>1. PICK s \in Spots, m \in Momenta, g \in Regimes :
              ctx' = [ctx EXCEPT !.spot = s, !.momentum = m, !.regime = g]
      BY <2>3 DEF Moves
    <3>2. /\ DOMAIN ctx' = DOMAIN ctx /\ ctx'.strikes = ctx.strikes /\ ctx'.ltp = ctx.ltp
          /\ ctx'.spot = s /\ ctx'.momentum = m
      BY <2>1, <3>1 DEF ContextShape
    <3>3. ctx' = [f \in DOMAIN ctx' |-> ctx'[f]]
      BY <2>1, <3>1 DEF ContextShape
    <3> QED BY <2>1, <3>1, <3>2, <3>3 DEF ContextShape
  <2>4. CASE UNCHANGED ctx
    BY <2>1, <2>4 DEF ContextShape
  <2> QED BY <2>1, <2>2, <2>3, <2>4 DEF PlansNext
<1> QED BY <1>1, <1>2, PTL DEF PlansSpec

\* Whatever is quoted and however the market moves, a plan that buys loses at
\* most its debit at any settlement, and one that sells keeps its whole credit
\* if the market settles at the strike that was at the money: in dollars, options
\* being paid for in coins and settled in dollars (strategy/*.py).
THEOREM TermsAlwaysKept ==
    PlansSpec => [](\A p \in Presets : \A plan \in PlansOf(p) : KeepsTerms(p, plan))
<1> DEFINE Kept == \A p \in Presets : \A plan \in PlansOf(p) : KeepsTerms(p, plan)
<1>1. ContextShape => Kept
  <2>1. SUFFICES ASSUME ContextShape, NEW p \in Presets, NEW plan \in PlansOf(p)
                 PROVE  KeepsTerms(p, plan)
    OBVIOUS
  <2>2. ContextInv
    BY <2>1, ShapeGives
  <2>3. CASE p.kind = "iron_condor"
    <3>1. Sold(p, plan)
      BY <2>2, <2>3, CondorIs DEF PlansOf
    <3> QED BY <2>3, <3>1, SoldKeeps DEF KeepsTerms, Buying
  <2>4. CASE p.kind = "short_strangle"
    <3>1. Sold(p, plan)
      BY <2>2, <2>4, StrangleIs DEF PlansOf
    <3> QED BY <2>4, <3>1, SoldKeeps DEF KeepsTerms, Buying
  <2>5. CASE p.kind = "short_call"
    <3>1. Sold(p, plan)
      BY <2>2, <2>5, ShortCallIs DEF PlansOf
    <3> QED BY <2>5, <3>1, SoldKeeps DEF KeepsTerms, Buying
  <2>6. CASE p.kind = "debit_spread"
    <3>1. Bought(p, plan)
      BY <2>2, <2>6, SpreadIs DEF PlansOf
    <3> QED BY <2>6, <3>1, BoughtKeeps DEF KeepsTerms, Selling
  <2>7. CASE p.kind = "directional_debit"
    <3>1. Bought(p, plan)
      BY <2>2, <2>7, DirectionalIs DEF PlansOf
    <3> QED BY <2>7, <3>1, BoughtKeeps DEF KeepsTerms, Selling
  <2>8. CASE p.kind = "long_straddle"
    <3>1. Bought(p, plan)
      BY <2>2, <2>8, StraddleIs DEF PlansOf
    <3> QED BY <2>8, <3>1, BoughtKeeps DEF KeepsTerms, Selling
  <2>9. CASE p.kind \notin Selling \cup Buying
    BY <2>9 DEF KeepsTerms
  <2> QED BY <2>3, <2>4, <2>5, <2>6, <2>7, <2>8, <2>9 DEF Selling, Buying
<1> QED BY <1>1, ContextAlways, PTL

\* The ends of a plan, of any kind that has some.
LEMMA EndsOf ==
    ASSUME ContextInv, NEW p \in Presets, NEW plan \in PlansOf(p)
    PROVE  EndsInReach(p, plan) /\ (p.kind \in Following => FollowsMomentum(p, plan))
<1>1. /\ Up \in Nat /\ Up >= 1 /\ Down \in Nat /\ Down >= 1
      /\ Up \in Outcomes /\ Down \in Outcomes
  BY EndsAre DEF Outcomes
<1>2. (ctx.momentum > 0 <=> Direction = "C") /\ (Direction = "C" \/ Direction = "P")
  BY DEF Direction
<1>3. CASE p.kind = "iron_condor"
  <2>1. Sold(p, plan)
    BY <1>3, CondorIs DEF PlansOf
  <2>2. TargetInReach(plan)
    BY <2>1, SoldKeeps
  <2> QED BY <1>3, <2>2 DEF EndsInReach, Following
<1>4. CASE p.kind = "short_strangle"
  <2>1. Sold(p, plan) /\ StopInReach(plan)
    BY <1>4, StrangleIs DEF PlansOf
  <2>2. TargetInReach(plan)
    BY <2>1, SoldKeeps
  <2> QED BY <1>4, <2>1, <2>2 DEF EndsInReach, Following
<1>5. CASE p.kind = "short_call"
  <2>1. Sold(p, plan) /\ StopInReach(plan)
    BY <1>5, ShortCallIs DEF PlansOf
  <2>2. TargetInReach(plan)
    BY <2>1, SoldKeeps
  <2> QED BY <1>5, <2>1, <2>2 DEF EndsInReach, Following
<1>6. CASE p.kind = "debit_spread"
  <2>1. /\ Bought(p, plan)
        /\ Direction = "C" => HeldWorth(plan.legs, Down) = 0
        /\ Direction = "P" => HeldWorth(plan.legs, Up) = 0
    BY <1>6, SpreadIs DEF PlansOf
  <2>2. Direction = "C" => StopInReach(plan) /\ Pnl(plan, Down) < 0
    BY <1>1, <2>1, BoughtStops
  <2>3. Direction = "P" => StopInReach(plan) /\ Pnl(plan, Up) < 0
    BY <1>1, <2>1, BoughtStops
  <2> QED BY <1>2, <1>6, <2>2, <2>3 DEF EndsInReach, FollowsMomentum
<1>7. CASE p.kind = "directional_debit"
  <2>1. /\ Bought(p, plan) /\ plan.target = -Credit(plan.legs) * p.target
        /\ \E x \in Prices \cup {0} : Credit(plan.legs) = -(x + 0)
        /\ Direction = "C" => 2 * HeldWorth(plan.legs, Up) >= Up /\ HeldWorth(plan.legs, Down) = 0
        /\ Direction = "P" => 2 * HeldWorth(plan.legs, Down) >= Down /\ HeldWorth(plan.legs, Up) = 0
    BY <1>7, DirectionalIs DEF PlansOf
  <2>2. PICK x \in Prices \cup {0} : Credit(plan.legs) = -(x + 0)
    BY <2>1
  <2>3. 0 \in Prices \cup {0}
    OBVIOUS
  <2>4. CASE Direction = "C"
    <3>1. StopInReach(plan) /\ Pnl(plan, Down) < 0
      BY <1>1, <2>1, <2>4, BoughtStops
    <3>2. TargetInReach(plan) /\ Pnl(plan, Up) > 0
      BY <1>1, <2>1, <2>2, <2>3, <2>4, BoughtEarns
    <3> QED BY <1>2, <1>7, <2>4, <3>1, <3>2 DEF EndsInReach, FollowsMomentum
  <2>5. CASE Direction = "P"
    <3>1. StopInReach(plan) /\ Pnl(plan, Up) < 0
      BY <1>1, <2>1, <2>5, BoughtStops
    <3>2. TargetInReach(plan) /\ Pnl(plan, Down) > 0
      BY <1>1, <2>1, <2>2, <2>3, <2>5, BoughtEarns
    <3> QED BY <1>2, <1>7, <2>5, <3>1, <3>2 DEF EndsInReach, FollowsMomentum
  <2> QED BY <1>2, <2>4, <2>5
<1>8. CASE p.kind = "long_straddle"
  <2>1. /\ Bought(p, plan) /\ plan.target = -Credit(plan.legs) * p.target
        /\ \E x, y \in Prices \cup {0} : Credit(plan.legs) = -(x + y)
        /\ 2 * HeldWorth(plan.legs, Up) >= Up
        /\ AtmStrike \in ctx.strikes /\ HeldWorth(plan.legs, AtmStrike) = 0
    BY <1>8, StraddleIs DEF PlansOf
  <2>2. PICK x \in Prices \cup {0}, y \in Prices \cup {0} : Credit(plan.legs) = -(x + y)
    BY <2>1
  <2>3. TargetInReach(plan)
    BY <1>1, <2>1, <2>2, BoughtEarns
  <2>4. AtmStrike \in Outcomes /\ AtmStrike \in Nat /\ AtmStrike >= 1
    BY <2>1 DEF Outcomes, ContextInv
  <2>5. StopInReach(plan)
    BY <2>1, <2>4, BoughtStops
  <2> QED BY <1>8, <2>3, <2>5 DEF EndsInReach, Following
<1>9. CASE p.kind = "futures_trend"
  <2>1. TargetInReach(plan) /\ StopInReach(plan) /\ FollowsMomentum(p, plan)
    BY <1>9, FuturesIs DEF PlansOf
  <2> QED BY <2>1 DEF EndsInReach
<1>10. CASE p.kind = "calendar_spread"
  <2>1. plan \in CalendarSpread(p)
    BY <1>10 DEF PlansOf
  <2> QED BY <2>1 DEF CalendarSpread, AccountExpiries
<1> QED BY <1>3, <1>4, <1>5, <1>6, <1>7, <1>8, <1>9, <1>10, ContextAssumption DEF Selling, Buying

\* The target of every plan is a profit some outcome gives, and its stop a loss,
\* but for the spread's target and the condor's stop, which the code gets from
\* dollars less coins: the market doubling from above all strikes, halving from
\* below them, or settling at one (strategy/*.py).
THEOREM EndsAlwaysInReach ==
    PlansSpec => [](\A p \in Presets : \A plan \in PlansOf(p) : EndsInReach(p, plan))
<1> DEFINE Reached == \A p \in Presets : \A plan \in PlansOf(p) : EndsInReach(p, plan)
<1>1. ContextShape => Reached
  BY ShapeGives, EndsOf
<1> QED BY <1>1, ContextAlways, PTL

\* A plan on the momentum loses at the far end against it and, but for the spread,
\* gains at the other, whichever strikes were quoted (directional_debit.py:77,
\* debit_spread.py:90, futures_trend.py).
THEOREM MomentumAlwaysFollowed ==
    PlansSpec => [](\A p \in Presets : \A plan \in PlansOf(p) :
        p.kind \in Following => FollowsMomentum(p, plan))
<1> DEFINE Followed == \A p \in Presets : \A plan \in PlansOf(p) :
               p.kind \in Following => FollowsMomentum(p, plan)
<1>1. ContextShape => Followed
  BY ShapeGives, EndsOf
<1> QED BY <1>1, ContextAlways, PTL

\* What a plan's kind promises its payoff keeps: it loses at most its debit or keeps
\* its whole credit, its target and stop are in reach, and on the momentum it
\* follows it, whatever is quoted and however the market moves (strategy/*.py).
THEOREM PlansAlwaysPayOff == PlansSpec => []PlansPayOff
<1>1. /\ \A p \in Presets : \A plan \in PlansOf(p) : KeepsTerms(p, plan)
      /\ \A p \in Presets : \A plan \in PlansOf(p) : EndsInReach(p, plan)
      /\ \A p \in Presets : \A plan \in PlansOf(p) : p.kind \in Following => FollowsMomentum(p, plan)
      => PlansPayOff
  BY DEF PlansPayOff
<1> QED BY <1>1, TermsAlwaysKept, EndsAlwaysInReach, MomentumAlwaysFollowed, PTL

==============================================================================
