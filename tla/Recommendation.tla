---------------------------- MODULE Recommendation ----------------------------
(***************************************************************************)
(* What the backend recommends for a line that is to be bought             *)
(* (backend/app/services/recommendation, and the older                     *)
(* services/recommendations.py): products and suppliers found in the       *)
(* purchases so far, as functions of what a call reads.                    *)
(*                                                                         *)
(* Names are compared as normalizer.py leaves them.  Dates are ages in     *)
(* months, scores are integers or fractions of integers.                   *)
(***************************************************************************)
EXTENDS Suppliers

CONSTANTS
    ProductOf,          \* [Lines -> Product]
    TermsOf,            \* [Lines -> Terms], what a line costs and when it came
    TargetEligible,     \* TARGET_ELIGIBLE_CANDIDATE_COUNT
    PoolSize,           \* MAX_CANDIDATE_POOL_SIZE
    MaxSupplierRecommendations, MaxProductRecommendations

\* actual_unit_price, months since purchased_at, days to the last receipt: None
\* without one, or with one that is no later than the purchase
Terms == [price : Nat, age : Nat, days : (Nat \ {0}) \cup {None}]

ASSUME RecommendationAssumption ==
  /\ IsFiniteSet(Lines) /\ Lines \subseteq Nat /\ None \notin Nat
  /\ TermsOf \in [Lines -> Terms]
  /\ TargetEligible \in Nat /\ PoolSize \in Nat /\ MaxSupplierRecommendations \in Nat

\* What a call reads: the executions, the requests, the suppliers with an effective
\* blacklist
View == [execution |-> rows.execution, status |-> rows.status,
         blacklisted |-> {s \in SupplierIds : Blacklisted(s, rows)}]

-----------------------------------------------------------------------------
(* Matching *)

\* EXACT_MODEL, EXACT_SNAPSHOT, SAME_ITEM, SAME_CATEGORY
Levels == 1..4

MatchScore == <<100, 95, 80, 60>>

\* _match: the level at which the product of a line answers the product asked for
Match(asked, l) ==
  LET p == ProductOf[l] IN
  CASE asked.model # None /\ p.model = asked.model -> 1
    [] asked.brand # None /\ asked.design # None /\ p.brand = asked.brand /\ p.design = asked.design -> 2
    [] p.name = asked.name -> 3
    [] OTHER -> 4

\* selected_product_from_item: whether a line says which product it is
IsSpecific(p) == p.model # None \/ (p.brand # None /\ p.design # None)

\* history_for_category: what was bought of the category, also for requests
\* that are not finished, besides the line itself; bought is the supplier of a line
History(bought, line) ==
  IF ProductOf[line].category = None THEN {}
  ELSE {l \in Lines \ {line} : bought[l] # None
                               /\ ProductOf[l].category = ProductOf[line].category}

\* The first n of a set, in the order before
Leading(S, n, before(_, _)) == {x \in S : Cardinality({y \in S : before(y, x)}) < n}

\* The first difference of two keys decides.
LexLess(a, b) ==
  \E n \in DOMAIN a : a[n] < b[n] /\ \A m \in 1..(n - 1) : a[m] = b[m]

Least(S) == CHOOSE x \in S : \A y \in S : x <= y

-----------------------------------------------------------------------------
(* The candidates for a supplier: CandidateBuilder.suppliers *)

\* Only the lines of the best level count as evidence.
SupplierCandidate(bought, asked, s, lines) ==
  LET own    == {l \in lines : bought[l] = s}
      best   == Least({Match(asked, l) : l \in own})
      strict == {l \in own : Match(asked, l) = best}
  IN  [supplier |-> s, best |-> best, evidence |-> strict, age |-> Least({TermsOf[l].age : l \in strict})]

SupplierCandidates(bought, asked, lines) ==
  {SupplierCandidate(bought, asked, s, lines) : s \in {bought[l] : l \in lines}}

\* A bug: the newest evidence comes before the best match.
NewestFirst(a, b) == LexLess(<<a.age, a.best, a.supplier>>, <<b.age, b.best, b.supplier>>)

CandidateOrder(a, b) == LexLess(<<a.best, a.age, a.supplier>>, <<b.best, b.age, b.supplier>>)

\* A bug: widening replaces the better matches.
PoolOfLevel(bought, asked, lines, level) ==
  Leading(SupplierCandidates(bought, asked, {l \in lines : Match(asked, l) = level}), PoolSize, CandidateOrder)

\* The candidates when the lines down to a level are included
Pool(bought, asked, lines, level) ==
  Leading(SupplierCandidates(bought, asked, {l \in lines : Match(asked, l) <= level}), PoolSize, CandidateOrder)

\* HardFilter
PassesHardFilter(c, v) == c.supplier \notin v.blacklisted /\ c.evidence # {}

Eligible(v, asked, lines, level) ==
  {c \in Pool(v.execution, asked, lines, level) : PassesHardFilter(c, v)}

\* recommend_suppliers widens the match until there are enough candidates.
StopLevel(v, asked, lines) ==
  Least({n \in Levels :
    \/ n = 4
    \/ Cardinality(Eligible(v, asked, lines, n)) >= TargetEligible
    \/ Cardinality(Pool(v.execution, asked, lines, n)) >= PoolSize})

ChosenSuppliers(v, asked, line) ==
  LET lines == History(v.execution, line) IN Eligible(v, asked, lines, StopLevel(v, asked, lines))

-----------------------------------------------------------------------------
(* Their features and their rank: FeatureAggregator, SupplierRanker *)

\* The values of a function of lines in order: the one with n - 1 before it
Nth(f, n) ==
  f[CHOOSE l \in DOMAIN f : Cardinality({m \in DOMAIN f : LexLess(<<f[m], m>>, <<f[l], l>>)}) = n - 1]

\* Twice the median of the values of a function of lines
TwiceMedian(f) ==
  LET n == Cardinality(DOMAIN f)
  IN  IF n % 2 = 1 THEN 2 * Nth(f, (n + 1) \div 2) ELSE Nth(f, n \div 2) + Nth(f, n \div 2 + 1)

Priced(c) == {l \in c.evidence : TermsOf[l].price > 0}

Delivered(c) == {l \in c.evidence : TermsOf[l].days # None}

MedianPrice(c) == TwiceMedian([l \in Priced(c) |-> TermsOf[l].price])

MedianDays(c) == TwiceMedian([l \in Delivered(c) |-> TermsOf[l].days])

\* frequency_score and confidence_score
CountScore(n) == IF n >= 7 THEN 100 ELSE IF n >= 4 THEN 80 ELSE IF n >= 2 THEN 60 ELSE 40

\* A feature nobody knows has no weight.
PriceWeight(c) == IF Priced(c) = {} THEN 0 ELSE 3

DeliveryWeight(c) == IF Delivered(c) = {} THEN 0 ELSE 2

\* The overall score of a candidate among others, as a fraction
Score(c, among) ==
  LET price    == IF Priced(c) = {} THEN 1 ELSE MedianPrice(c)
      days     == IF Delivered(c) = {} THEN 1 ELSE MedianDays(c)
      cheapest == IF Priced(c) = {} THEN 0
                  ELSE Least({MedianPrice(x) : x \in {y \in among : Priced(y) # {}}})
      fastest  == IF Delivered(c) = {} THEN 0
                  ELSE Least({MedianDays(x) : x \in {y \in among : Delivered(y) # {}}})
  IN  [num |-> (4 * MatchScore[c.best] + CountScore(Cardinality(c.evidence))) * price * days
               + PriceWeight(c) * 100 * cheapest * days + DeliveryWeight(c) * 100 * fastest * price,
       den |-> (5 + PriceWeight(c) + DeliveryWeight(c)) * price * days]

\* What decides between equal scores: the unknown comes last
TieBreak(c) ==
  <<-MatchScore[c.best], -CountScore(Cardinality(c.evidence)),
    IF Priced(c) = {} THEN 1 ELSE 0, IF Priced(c) = {} THEN 0 ELSE MedianPrice(c),
    IF Delivered(c) = {} THEN 1 ELSE 0, IF Delivered(c) = {} THEN 0 ELSE MedianDays(c),
    c.supplier>>

RankedBefore(a, b, among) ==
  LET x == Score(a, among)
      y == Score(b, among)
  IN  \/ x.num * y.den > y.num * x.den
      \/ x.num * y.den = y.num * x.den /\ LexLess(TieBreak(a), TieBreak(b))

\* recommend_suppliers, for the product asked for
RecommendedSuppliers(v, asked, line) ==
  LET chosen == ChosenSuppliers(v, asked, line)
  IN  Leading(chosen, MaxSupplierRecommendations, LAMBDA a, b : RankedBefore(a, b, chosen))

\* The products the suppliers of a line can be asked for: its own if it is specific,
\* or one that the client selects in the same category, which may be as generic as
\* RecommendedProducts shows them
AskedFor(line) ==
  {p \in {ProductOf[l] : l \in Lines} : p.category = ProductOf[line].category}

-----------------------------------------------------------------------------
(* Products: CandidateBuilder.products, ProductRanker *)

\* _product_key
ProductKey(p) ==
  CASE p.model # None -> [kind |-> "model", a |-> p.model, b |-> None]
    [] p.model = None /\ p.brand # None /\ p.design # None -> [kind |-> "snapshot", a |-> p.brand, b |-> p.design]
    [] OTHER -> [kind |-> "item", a |-> p.name, b |-> p.brand]

ProductCandidate(v, asked, key, lines) ==
  LET own == {l \in lines : ProductKey(ProductOf[l]) = key}
  IN  [key |-> key, best |-> Least({Match(asked, l) : l \in own}),
       count |-> Cardinality(own), age |-> Least({TermsOf[l].age : l \in own}), first |-> Least(own),
       suppliers |-> {s \in {v.execution[l] : l \in own} : s \notin v.blacklisted}]

\* Of equal candidates the key decides, which is a text: here the first line.
ProductOrder(a, b) == LexLess(<<a.best, a.age, a.first>>, <<b.best, b.age, b.first>>)

RecencyScore(age) == IF age <= 6 THEN 100 ELSE IF age <= 12 THEN 80 ELSE IF age <= 24 THEN 60 ELSE 40

CoverageScore(n) == CASE n >= 3 -> 100 [] n = 2 -> 70 [] n = 1 -> 40 [] n = 0 -> 0

\* A hundred times the overall score
ProductScore(c) ==
  50 * MatchScore[c.best] + 20 * CountScore(c.count)
    + 15 * RecencyScore(c.age) + 15 * CoverageScore(Cardinality(c.suppliers))

ProductRankedBefore(a, b) ==
  LexLess(<<-ProductScore(a), -MatchScore[a.best], -CountScore(a.count), -RecencyScore(a.age),
            -CoverageScore(Cardinality(a.suppliers)), a.first>>,
          <<-ProductScore(b), -MatchScore[b.best], -CountScore(b.count), -RecencyScore(b.age),
            -CoverageScore(Cardinality(b.suppliers)), b.first>>)

\* recommend_products: nothing for a line that says which product it is
RecommendedProducts(v, line) ==
  LET asked == ProductOf[line]
      lines == History(v.execution, line)
      all   == {ProductCandidate(v, asked, key, lines) : key \in {ProductKey(ProductOf[l]) : l \in lines}}
  IN  IF IsSpecific(asked) THEN {}
      ELSE Leading(Leading(all, PoolSize, ProductOrder), MaxProductRecommendations, ProductRankedBefore)

-----------------------------------------------------------------------------
(* The older endpoint: suppliers_for_request *)

\* _valid_history: PENDING_WAREHOUSE or COMPLETED
LegacyHistory(v, line) ==
  {l \in Lines : v.execution[l] # None /\ v.status[RequestOf[l]] = "COMPLETED"
                 /\ ProductOf[l].category = ProductOf[line].category}

LegacySuppliers(v, line, limit) ==
  LET lines  == LegacyHistory(v, line)
      of(s)  == {l \in lines : v.execution[l] = s}
      key(s) == <<-Cardinality(of(s)), Least({TermsOf[l].age : l \in of(s)}), s>>
      before(s, t) == LexLess(key(s), key(t))
      first  == Leading({v.execution[l] : l \in lines}, 3 * limit, before)
  IN  Leading({s \in first : s \notin v.blacklisted}, limit, before)

-----------------------------------------------------------------------------
(* Properties *)

\* The lines that are still to be bought, looked at while no call runs: a call that
\* fails leaves the same rows
Open == {l \in Lines : (\A c \in Calls : call[c] = None) /\ rows.execution[l] = None}

ChosenFor(v, asked, line) == {c.supplier : c \in ChosenSuppliers(v, asked, line)}

\* A new blacklist concerns one supplier only: although blacklisted candidates keep
\* their place in the pool, and although the match is widened when too few are left,
\* whoever else was chosen to be ranked is chosen still, and whoever else the older
\* endpoint listed is listed still (the widening loop of recommend_suppliers,
\* suppliers_for_request).  The rank of those chosen may change: widening brings in
\* others, which may come before them and fill a short list.
BlacklistExcludesOneSupplier ==
  [][\A c \in Calls, line \in Lines, before \in {View}, after \in {View'} :
       CreateBlacklist(c) =>
         LET others(S) == S \ {call[c].supplier} IN
         /\ \A asked \in AskedFor(line) :
              others(ChosenFor(before, asked, line)) \subseteq ChosenFor(after, asked, line)
         /\ others(LegacySuppliers(before, line, MaxSupplierRecommendations))
              \subseteq LegacySuppliers(after, line, MaxSupplierRecommendations)]_supplierVars

\* Widening and the pool never trade a better match for a worse one: an eligible
\* supplier that is left out matches no better than any that is chosen.
NoBetterMatchLeftOut(v, asked, line) ==
  LET all    == SupplierCandidates(v.execution, asked, History(v.execution, line))
      chosen == ChosenSuppliers(v, asked, line)
  IN  \A x \in {c \in all : c.supplier \notin v.blacklisted}, y \in chosen :
        (\A z \in chosen : z.supplier # x.supplier) => y.best <= x.best

\* The order is by merit: a supplier that matches as well on as much evidence and
\* is cheaper without being slower comes before.
CheaperComesFirst(v, asked, line) ==
  LET chosen == ChosenSuppliers(v, asked, line) IN
  \A x, y \in chosen :
    (/\ x.best = y.best
     /\ CountScore(Cardinality(x.evidence)) = CountScore(Cardinality(y.evidence))
     /\ Priced(x) # {} /\ Priced(y) # {} /\ MedianPrice(x) < MedianPrice(y)
     /\ Delivered(x) # {} /\ Delivered(y) # {} /\ MedianDays(x) <= MedianDays(y))
    => RankedBefore(x, y, chosen)

\* Products likewise: of two that are recommended, the one that is at least as
\* good a match, bought as often and as recently, and to be had from as many
\* suppliers, and better in one of these, is not behind.
BetterProductComesFirst(v, line) ==
  LET shown == RecommendedProducts(v, line)
      merit(c) == <<MatchScore[c.best], CountScore(c.count), RecencyScore(c.age),
                    CoverageScore(Cardinality(c.suppliers))>>
  IN
  \A x, y \in shown :
    (\A n \in 1..4 : merit(x)[n] >= merit(y)[n]) /\ merit(x) # merit(y) => ProductRankedBefore(x, y)

\* What is recommended is recommended by merit, in every history of purchases.
RecommendsByMerit ==
  \A line \in Open, v \in {View} :
    /\ BetterProductComesFirst(v, line)
    /\ \A asked \in AskedFor(line) :
         NoBetterMatchLeftOut(v, asked, line) /\ CheaperComesFirst(v, asked, line)
=============================================================================
