-------------------------------- MODULE Chain --------------------------------
(***************************************************************************)
(* What the bot knows of one currency's option chain and how it comes to   *)
(* know it: the instruments, strip, ticks and caches of the two feeds      *)
(* (crypto_options_bot/data/deribit_ws.py and deribit_feed.py) and the     *)
(* market context the runner builds from them (__main__.py).               *)
(*                                                                         *)
(* Time is a day and whether the instruments were fetched within the hour. *)
(* An option is an expiry day, a strike and a side; a quote is a last      *)
(* price, which may be 0, and an implied volatility in percent.  A list of *)
(* the exchange's options is a set here: in every list they have the order *)
(* of `listing`.                                                           *)
(***************************************************************************)
EXTENDS Integers, FiniteSets, FiniteSetsExt, Sequences, SequencesExt

CONSTANTS
    Feeds,        \* which feeds a run may have: "ws", "rest"
    Listings,     \* orders in which the exchange may list its options
    IndexPrices,  \* index prices
    Quotes,       \* quotes of an option
    DvolReadings, \* closes of the volatility index as published, in percent; 0 when there is none
    Cap,          \* max_strikes_per_expiry
    ExpiryCount,  \* expiry_count
    MinDte,       \* min_dte
    StrikeWindow, \* strike_window_pct
    LastDay       \* bound on the days

Listable == [exp : Nat, strike : Nat, side : {"C", "P"}]

ASSUME ChainAssumption ==
    /\ Listings \subseteq Seq(Listable)
    /\ \A l \in Listings : \A i, j \in DOMAIN l : l[i] = l[j] => i = j
    /\ Quotes \subseteq [ltp : Nat, iv : Nat]
    /\ IndexPrices \subseteq Nat
    /\ DvolReadings \subseteq Nat /\ IsFiniteSet(DvolReadings)
    /\ Cap \in Nat /\ ExpiryCount \in Nat /\ LastDay \in Nat

None  == -1

VARIABLES
    feed,      \* which feed the runner has built
    listing,   \* the exchange's list of options
    today,
    cache,     \* _instruments_cache
    fresh,     \* whether it is less than an hour old
    spot,      \* _spot
    asked,     \* channels of options asked for on the last connection
    recorded,  \* those of _subscribed_channels
    latest,    \* _latest: the quote of an option and the place of its key in the dict
    dvol       \* _dvol_cache, in percent: what get_dvol returns, times 100

chainVars == <<feed, listing, today, cache, fresh, spot, asked, recorded, latest, dvol>>

Offered == {o \in ToSet(listing) : o.exp >= today}

PlaceInList(o) == CHOOSE i \in DOMAIN listing : listing[i] = o

ChainInit ==
    /\ feed \in Feeds /\ listing \in Listings /\ today = 0
    /\ cache = [held |-> FALSE, names |-> {}] /\ fresh = FALSE
    /\ spot = 0 /\ asked = {} /\ recorded = {} /\ latest = [o \in {} |-> None] /\ dvol = 0

------------------------------------------------------------------------------
(* The choice of expiries and strikes. *)

\* round() to a step: a tie goes to the even multiple.
RoundTo(x, step) ==
    LET q == x \div step  r == 2 * (x % step)
    IN  step * (IF r > step \/ (r = step /\ q % 2 = 1) THEN q + 1 ELSE q)

StrikeStep(s) == IF s > 10000 THEN 1000 ELSE IF s > 1000 THEN 100 ELSE 50

Atm(s) == IF s <= 0 THEN 0 ELSE RoundTo(s, StrikeStep(s))

Known(names) == {o.exp : o \in names}

\* The first ExpiryCount distinct expiries of the list, in the list's order,
\* among those not expired and not too near.
NextExpiries(names) ==
    LET place(e) == Min({i \in DOMAIN listing : listing[i].exp = e})
        open == {e \in Known(names) : e >= today /\ (MinDte > 0 => e - today >= MinDte)}
    IN  {e \in open : Cardinality({f \in open : place(f) < place(e)}) < ExpiryCount}

\* sorted(names): by strike, the call first.
Before(o, p) == o.strike < p.strike \/ (o.strike = p.strike /\ o.side = "C" /\ p.side = "P")

\* The first Cap options of the expiry in a window of Cap strikes, of all its
\* strikes while the spot is unknown.
StripFor(names, e, s) ==
    LET half == Cap \div 2
        step == StrikeStep(s)
        in(o) == s > 0 => o.strike \in (Atm(s) - half * step)..(Atm(s) + (Cap - 1 - half) * step)
        inside == {o \in names : o.exp = e /\ in(o)}
    IN  {o \in inside : Cardinality({p \in inside : Before(p, o)}) < Cap}

Strip(names, s) == UNION {StripFor(names, e, s) : e \in NextExpiries(names)}

\* mutant: an expiry in the past counts
NearestOfAll(names) == IF Known(names) = {} THEN None ELSE Min(Known(names))

Nearest(names) ==
    LET open == {e \in Known(names) : e >= today}
    IN  IF open = {} THEN None ELSE Min(open)

Ticked == DOMAIN latest

\* get_nearest_expiry: of the cached list within its hour, else of what ticked.
NearestExpiry == Nearest(IF cache.held /\ fresh THEN cache.names ELSE Ticked)

------------------------------------------------------------------------------
(* The exchange, and time. *)

\* A day may begin within the hour of a fetch.
NextDay ==
    /\ today < LastDay
    /\ today' = today + 1
    /\ UNCHANGED <<feed, listing, cache, fresh, spot, asked, recorded, latest, dvol>>

HourPasses ==
    /\ fresh' = FALSE
    /\ UNCHANGED <<feed, listing, today, cache, spot, asked, recorded, latest, dvol>>

------------------------------------------------------------------------------
(* The WebSocket feed. *)

\* _get_cached_instruments and _strip_instruments, on each connection.  A fetch
\* that fails gives an empty list, which is cached as any other.
Connect ==
    /\ feed = "ws"
    /\ \E names \in IF cache.held /\ fresh THEN {cache.names} ELSE {Offered, {}} :
        /\ cache' = [held |-> TRUE, names |-> names] /\ fresh' = TRUE
        /\ asked' = Strip(names, spot) \ recorded
        /\ recorded' = recorded \cup asked'
    /\ UNCHANGED <<feed, listing, today, spot, latest, dvol>>

OnSpot ==
    /\ feed = "ws"
    /\ spot' \in IndexPrices
    /\ UNCHANGED <<feed, listing, today, cache, fresh, asked, recorded, latest, dvol>>

\* mutant: a tick puts its key last, as if it were new
PutAnew(names, q) ==
    [o \in Ticked \cup names |->
        IF o \in names THEN [quote |-> q, place |-> Cardinality(Ticked) + 1] ELSE latest[o]]

\* A key keeps the place it was first given; new ones follow in the order of the
\* exchange's list.
Put(names, q) ==
    LET new == names \ Ticked
        place(o) == IF o \in Ticked THEN latest[o].place
                    ELSE Cardinality(Ticked)
                            + Cardinality({p \in new : PlaceInList(p) <= PlaceInList(o)})
    IN  [o \in Ticked \cup names |->
            IF o \in names THEN [quote |-> q, place |-> place(o)] ELSE latest[o]]

OnTicker ==
    /\ feed = "ws"
    /\ \E o \in asked, q \in Quotes : o.exp >= today /\ latest' = Put({o}, q)
    /\ spot' \in IF spot = 0 THEN IndexPrices ELSE {spot}
    /\ UNCHANGED <<feed, listing, today, cache, fresh, asked, recorded, dvol>>

\* _fetch_dvol and the context's product with 100: a close above 3 is taken for a
\* percentage, one of 3 or less for a decimal.
DvolPct(close) == IF close > 3 THEN close ELSE 100 * close

\* get_dvol once its cache has expired; an error caches 0.
FetchDvol ==
    /\ feed = "ws"
    /\ \E close \in DvolReadings : dvol' = DvolPct(close)
    /\ UNCHANGED <<feed, listing, today, cache, fresh, spot, asked, recorded, latest>>

------------------------------------------------------------------------------
(* The REST feed: one poll.  Its instruments are never fetched, it has no DVOL, *)
(* and a price it stores is positive.                                           *)

\* One quote for all the options of a poll: they differ between polls.
Poll ==
    /\ feed = "rest"
    /\ \E s \in IndexPrices \cup {0}, q \in {r \in Quotes : r.ltp > 0}, answered \in BOOLEAN :
        /\ spot' = IF s > 0 THEN s ELSE spot
        /\ LET near(o) == s > 0 => /\ 100 * o.strike >= s * (100 - StrikeWindow)
                                   /\ 100 * o.strike <= s * (100 + StrikeWindow)
           IN  latest' = Put({o \in Offered : answered /\ near(o)}, q)
    /\ UNCHANGED <<feed, listing, today, cache, fresh, asked, recorded, dvol>>

------------------------------------------------------------------------------
ChainNext ==
    \/ NextDay \/ HourPasses
    \/ Connect \/ OnSpot \/ OnTicker \/ FetchDvol \/ Poll

ChainSpec == ChainInit /\ [][ChainNext]_chainVars

------------------------------------------------------------------------------
(* The runner's context: _build_signal_context. *)

\* get_oi_map: by strike and side, the entry set last in the dict's order.
AtStrike(k, side) == {o \in Ticked : o.strike = k /\ o.side = side}
OiEntry(k, side) ==
    latest[CHOOSE o \in AtStrike(k, side) :
              \A p \in AtStrike(k, side) : latest[p].place <= latest[o].place]

\* option_ltps and option_ivs hold the sides with a positive last price.
Priced == {p \in {<<o.strike, o.side>> : o \in Ticked} : OiEntry(p[1], p[2]).quote.ltp > 0}

IvAt(k, side) == IF <<k, side>> \in Priced THEN OiEntry(k, side).quote.iv ELSE 0

\* Twice the at-the-money volatility.
AtmIv2 == IF Atm(spot) = 0 THEN 0 ELSE IvAt(Atm(spot), "C") + IvAt(Atm(spot), "P")

\* By the DVOL, or by the at-the-money volatility without one.
IvRank(d, iv2) ==
    IF d > 0 THEN IF d < 30 THEN d ELSE Min({100, 30 + ((d - 30) * 70) \div 50})
    ELSE IF iv2 <= 0 THEN 50 ELSE IF iv2 < 40 THEN 40 ELSE IF iv2 < 70 THEN 55
    ELSE IF iv2 < 110 THEN 70 ELSE IF iv2 < 160 THEN 80 ELSE 90

------------------------------------------------------------------------------
(* Properties. *)

\* The caches keep their shape: no two keys share a place, nothing that was never
\* asked for ticks on the WebSocket, and the REST feed has no list and no DVOL.
ChainTypeOK ==
    /\ feed \in Feeds /\ listing \in Listings /\ today \in 0..LastDay /\ fresh \in BOOLEAN
    /\ spot \in IndexPrices \cup {0} /\ dvol \in {DvolPct(c) : c \in DvolReadings \cup {0}} /\ asked \subseteq recorded
    /\ \A o, p \in Ticked : latest[o].place = latest[p].place => o = p
    /\ feed = "ws" => Ticked \subseteq recorded
    /\ feed = "rest" => ~cache.held /\ dvol = 0 /\ recorded = {}

\* However the lists and the spot change between connections, a connection asks
\* for at most Cap options of each of at most ExpiryCount expiries. Options: a
\* strike's call and put count as two, so these are not the Cap strikes on both
\* sides that deribit_ws.py:124 and settings.yaml:36 name.
StripBounded ==
    /\ Cardinality(Known(asked)) <= ExpiryCount
    /\ \A e \in Known(asked) : Cardinality({o \in asked : o.exp = e}) <= Cap

\* The at-the-money strike is a multiple of its step at most half a step from
\* the spot, on either side of the thresholds where the step changes.
AtmIsNearest ==
    spot > 0 => LET gap == Atm(spot) - spot
                IN  2 * gap <= StrikeStep(spot) /\ -2 * gap <= StrikeStep(spot)

\* The expiry that is traded is one the exchange still lists, although the list
\* it comes from may be of yesterday and the ticks older still.
TradedIsListed == NearestExpiry # None => NearestExpiry \in Known(Offered)

\* Of two published closes above 3 the higher never has the lower rank. Below
\* that nothing is claimed: a close of 1, 2 or 3 percent is taken for 100 to 300.
RankFollowsDvol ==
    \A close \in 5..Max(DvolReadings) :
        IvRank(DvolPct(close - 1), 0) <= IvRank(DvolPct(close), 0)

\* A more volatile market never gets a lower rank: by the published index where
\* it is above 3 percent and, without one, by the quotes the context is built from.
RankFollowsVolatility ==
    /\ RankFollowsDvol
    /\ dvol = 0 => LET iv2 == AtmIv2
                   IN  \A v \in 1..iv2 : IvRank(0, v) <= IvRank(0, iv2)

\* However old the list, the ticks and the index are: the strip is bounded, and
\* the expiry, the strike and the rank a strategy is told are sound.
ChainSound == StripBounded /\ TradedIsListed /\ AtmIsNearest /\ RankFollowsVolatility

==============================================================================
