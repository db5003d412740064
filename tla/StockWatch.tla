------------------------------ MODULE StockWatch ------------------------------
(***************************************************************************)
(* The tables the deterministic engines read, as they change: counts of the *)
(* material come in, time passes, production orders are entered.  What the  *)
(* engines make of every such state is stated below and defined in Planning. *)
(***************************************************************************)
EXTENDS Planning

CONSTANTS
  Quantities,   \* quantities a count may find
  Gaps,         \* bound: half days that may pass after a count
  OrderBook,    \* production orders that may be entered
  DailyUsages,  \* components.daily_usage
  SafetyStock,  \* components.safety_stock
  MaxCounts,    \* bound: counts
  MaxOrders     \* bound: production orders

ASSUME WatchAssumption ==
  /\ Quantities \subseteq Nat
  /\ Gaps \subseteq Nat
  /\ DailyUsages \subseteq Nat
  /\ SafetyStock \in Nat
  /\ \A o \in OrderBook : /\ o.needed \in Nat
                          /\ o.priority \in DOMAIN ServedRank

VARIABLES
  history,  \* table inventory_snapshots, latest first
  orders,   \* table contract_production_orders, those of the material
  daily     \* components.daily_usage

vars == <<history, orders, daily>>

Init ==
  /\ history = <<>>
  /\ orders = {}
  /\ daily \in DailyUsages

CountStock(q) ==
  /\ Len(history) < MaxCounts
  /\ history' = <<[age |-> 0, usable |-> q]>> \o history
  /\ UNCHANGED <<orders, daily>>

TimePasses(gap) ==
  /\ history # <<>>
  /\ Head(history).age = 0
  /\ history' = [i \in DOMAIN history |-> [history[i] EXCEPT !.age = @ + gap]]
  /\ UNCHANGED <<orders, daily>>

EnterOrder(o) ==
  /\ Cardinality(orders) < MaxOrders
  /\ orders' = orders \cup {o}
  /\ UNCHANGED <<history, daily>>

Next ==
  \/ \E q \in Quantities : CountStock(q)
  \/ \E gap \in Gaps : TimePasses(gap)
  \/ \E o \in OrderBook : EnterOrder(o)

Spec == Init /\ [][Next]_vars

Usable == IF history = <<>> THEN 0 ELSE Head(history).usable

TypeOK ==
  /\ history \in Seq(Count)
  /\ orders \subseteq OrderBook
  /\ daily \in DailyUsages
  /\ Average30(history, daily).num \in Nat \ {0}
  /\ Average7(history, daily).num \in Nat \ {0}
  /\ CoverageTenths(history, daily) \in Nat
  /\ HoursToStopTenths(history, daily) \in Nat
  /\ Trend(history, daily) \in {"STABLE", "INCREASING", "DECREASING"}

-----------------------------------------------------------------------------
(* An average lies between the slowest and the fastest daily rate it is made *)
(* of, however far apart the counts are, and is the consumption per day of   *)
(* the whole period where counts are evenly spaced and stock only falls     *)
(* (risk_engine.py:104-124).                                                *)
AverageWithinRates ==
  \A days \in {7, 35} :
    LET h     == Window(history, days)
        rates == DailyDeltas(h)
        mean  == MeanRate(h)
        gap   == DaysBetween(h, 1)
    IN  rates # <<>> =>
          /\ \E i \in DOMAIN rates : AtMost(rates[i], mean)
          /\ \E i \in DOMAIN rates : AtMost(mean, rates[i])
          /\ Len(rates) = Len(h) - 1
               /\ (\A i \in 1..Len(h) - 1 : DaysBetween(h, i) = gap) =>
             mean.num * gap * (Len(h) - 1)
               = mean.den * (Last(h).usable - Head(h).usable)

(* The hours to the stop and the days of coverage are computed from          *)
(* different averages; the trend tells which of the two is the more urgent,  *)
(* up to the rounding of both: with a stable trend they differ by a ninth    *)
(* (risk_engine.py:167-175, 211-229).                                       *)
StopFollowsTrend ==
  LET hours == HoursToStopTenths(history, daily)
      days  == CoverageTenths(history, daily)
      trend == Trend(history, daily)
      slack == 14
  IN  history # <<>> =>
        /\ trend = "INCREASING" => 11 * hours <= 10 * 24 * days + 11 * slack
        /\ trend = "DECREASING" => 9 * hours >= 10 * 24 * days - 9 * slack
        /\ trend = "STABLE" => /\ 9 * hours <= 10 * 24 * days + 9 * slack
                               /\ 11 * hours >= 10 * 24 * days - 11 * slack

(* Production is served from no more than the stock, every order is either   *)
(* protected or delayed, and none is delayed that what is left would have    *)
(* been enough for, in whatever order rows that tie come                    *)
(* (production_tools.py:74-96).                                             *)
ServedFromStock ==
  \A queue \in Queues(orders) :
    LET served == Serve(queue, Usable)
        protected == ToSet(served.protected)
        delayed   == ToSet(served.delayed)
    IN  /\ protected \cup delayed = orders
        /\ protected \cap delayed = {}
        /\ served.left + Total([i \in DOMAIN served.protected |->
                                  served.protected[i].needed]) = Usable
        /\ \A o \in delayed : o.needed > served.left

(* Buying more never leaves a higher risk nor makes a plan infeasible, and a *)
(* split over two suppliers is simulated like one order of the sum          *)
(* (simulation_engine.py:36-97).                                            *)
SimulationOrdersPlans ==
  \A a, b \in Quantities :
    LET plan(q, allocations) == [quantity |-> q, allocations |-> allocations,
                                 deadline |-> 2, price |-> 1]
        simulated(p) == SimulatePlan(history, daily, p)
        one == simulated(plan(a + b, <<>>))
        few == simulated(plan(a, <<>>))
    IN  /\ simulated(plan(0, <<a, b>>)) = one
        /\ Urgency[one.level] >= Urgency[few.level]
        /\ few.feasible => one.feasible
        /\ one.impact = few.impact

(* What an alert scan finds about a component's stock, the dashboard shows   *)
(* as a risk that is no less urgent, although each has rules of its own     *)
(* (dashboard.py:124-141, alert_rules.py:52-66, 116-148).                   *)
AlertsShowOnDashboard ==
  LET c    == [usable |-> Usable, safety |-> SafetyStock, daily |-> daily]
      risk == ComponentRisk(c)
  IN  /\ StockAlert(c) = "high" => risk = "CRITICAL"
      /\ StockAlert(c) = "medium" => risk \in {"CRITICAL", "HIGH"}
      /\ \A due \in 0..200 : ScheduleAlert(c, due) => risk # "LOW"
=============================================================================
