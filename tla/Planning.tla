------------------------------- MODULE Planning -------------------------------
(***************************************************************************)
(* What the deterministic engines make of a material's stock: consumption   *)
(* averages over the history of counts, coverage, trend and the time to the *)
(* next production stop, the simulation of a plan, the order in which       *)
(* production is served, and the risk the dashboard shows.  Pure functions  *)
(* of table rows; Sourcing holds the rules the pipeline needs beyond these. *)
(***************************************************************************)
EXTENDS Sourcing, FiniteSets

(* Time is kept in half days, so that counts may lie less than a day apart. *)
TicksPerDay == 2

(* A row of inventory_snapshots: its age and the usable quantity.           *)
Count == [age : Nat, usable : Nat]

(* Averages are fractions, where the code has decimals of 28 digits.        *)
Fraction(n, d) == [num |-> n, den |-> d]

AtMost(a, b) == a.num * b.den <= b.num * a.den

-----------------------------------------------------------------------------
(* OperationalRiskEngine: history is a sequence of counts, latest first.    *)

(* get_inventory_history *)
Window(history, days) ==
  LET keep(kept, c) == IF c.age <= days * TicksPerDay THEN Append(kept, c) ELSE kept
  IN  FoldLeft(keep, <<>>, history)

(* Whole days between a count and the one before it. *)
DaysBetween(h, i) == (h[i + 1].age - h[i].age) \div TicksPerDay

(* Mutant: the earlier count is taken from the later one. *)
RiseRate(h, i) == Fraction(h[i].usable - h[i + 1].usable, DaysBetween(h, i))

Rate(h, i) == Fraction(h[i + 1].usable - h[i].usable, DaysBetween(h, i))

(* The pairs of counts that tell something of consumption are at least a day *)
(* apart, with less in store at the second.                                  *)
DailyDeltas(h) ==
  LET add(rates, i) ==
        IF DaysBetween(h, i) > 0 /\ h[i + 1].usable > h[i].usable
          THEN Append(rates, Rate(h, i)) ELSE rates
  IN  FoldLeft(add, <<>>, [i \in 1..Len(h) - 1 |-> i])

Plus(a, b) == Fraction(a.num * b.den + b.num * a.den, a.den * b.den)

(* Mutant: the sum is divided by the number of counts. *)
MeanOverCounts(h) ==
  LET sum == FoldLeft(Plus, Fraction(0, 1), DailyDeltas(h))
  IN  Fraction(sum.num, sum.den * Len(h))

(* The mean of the daily rates, each pair counting the same. *)
MeanRate(h) ==
  LET sum == FoldLeft(Plus, Fraction(0, 1), DailyDeltas(h))
  IN  Fraction(sum.num, sum.den * Len(DailyDeltas(h)))

(* calculate_average_consumption_30d; the component's daily usage, or 25,    *)
(* stands in for a history without consumption.                             *)
Average30(history, daily_usage) ==
  IF DailyDeltas(Window(history, 35)) = <<>>
    THEN Fraction(IF daily_usage = 0 THEN 25 ELSE daily_usage, 1)
    ELSE MeanRate(Window(history, 35))

(* calculate_average_consumption_7d *)
Average7(history, daily_usage) ==
  IF DailyDeltas(Window(history, 7)) = <<>>
    THEN Average30(history, daily_usage)
    ELSE MeanRate(Window(history, 7))

(* Both without a count: 14 days of coverage, yet no hour to the stop. *)
CoverageTenths(history, daily_usage) ==
  LET avg == Average30(history, daily_usage)
  IN  IF history = <<>> THEN 140
      ELSE HalfEven(10 * history[1].usable * avg.den, avg.num)

(* Mutant: the month's average instead of the week's. *)
HoursByTheMonth(history, daily_usage) ==
  LET avg == Average30(history, daily_usage)
  IN  IF history = <<>> THEN 0
      ELSE HalfEven(240 * history[1].usable * avg.den, avg.num)

HoursToStopTenths(history, daily_usage) ==
  LET avg == Average7(history, daily_usage)
  IN  IF history = <<>> THEN 0
      ELSE HalfEven(240 * history[1].usable * avg.den, avg.num)

Trend(history, daily_usage) ==
  LET week  == Average7(history, daily_usage)
      month == Average30(history, daily_usage)
  IN  CASE history = <<>> -> "STABLE"
        [] history # <<>> /\ 10 * week.num * month.den > 11 * month.num * week.den
             -> "INCREASING"
        [] history # <<>> /\ 10 * week.num * month.den < 9 * month.num * week.den
             -> "DECREASING"
        [] OTHER -> "STABLE"

-----------------------------------------------------------------------------
(* SimulationEngine *)

(* Levels from the most to the least urgent. *)
Urgency == [CRITICAL |-> 0, HIGH |-> 1, MEDIUM |-> 2, LOW |-> 3, NONE |-> 4]

(* Unlike calculate_risk, the simulation does not round the coverage. *)
LevelAt(coverage) ==
  LET below(days) == coverage.num < days * coverage.den
  IN  CASE below(3) -> "CRITICAL"
        [] ~below(3) /\ below(7) -> "HIGH"
        [] ~below(7) /\ below(14) -> "MEDIUM"
        [] ~below(14) /\ below(21) -> "LOW"
        [] OTHER -> "NONE"

(* Mutant: the quantity of the plan is kept when there are allocations. *)
PlannedQuantityOnly(plan) == plan.quantity

(* The quantities of a plan's allocations, if it has any, replace its own. *)
PlannedQuantity(plan) ==
  IF plan.allocations = <<>> THEN plan.quantity
  ELSE Total(plan.allocations)

SimulatePlan(history, daily_usage, plan) ==
  LET usable   == IF history = <<>> THEN 0 ELSE history[1].usable
      avg      == Average30(history, daily_usage)
      after    == usable + PlannedQuantity(plan)
      coverage == Fraction(after * avg.den, avg.num)
      late     == 240 * plan.deadline - HoursToStopTenths(history, daily_usage)
  IN  [after    |-> after,
       coverage |-> coverage,
       stops    |-> late > 0,      \* reported as production_stop_avoided
       impact   |-> Greatest(0, late),
       level    |-> LevelAt(coverage),
       feasible |-> after > 0 /\ AtMost(Fraction(1, 1), coverage)
                      /\ PlannedQuantity(plan) * plan.price > 0]

-----------------------------------------------------------------------------
(* prioritize_production_orders *)

(* The column is text: descending order puts "medium" before "low", "high"   *)
(* and, last, the "CRITICAL" of the scenario lab.                           *)
ServedRank == [medium |-> 1, low |-> 2, high |-> 3, CRITICAL |-> 4]

(* Orders by priority, then deadline; rows that tie may come in any order.  *)
Queues(orders) ==
  {q \in SetToSeqs(orders) : \A i, j \in DOMAIN q : i < j =>
     \/ ServedRank[q[i].priority] < ServedRank[q[j].priority]
     \/ /\ q[i].priority = q[j].priority
        /\ q[i].deadline <= q[j].deadline}

(* Mutant: an order that takes all that is left counts as too large. *)
ServeBelow(queue, stock) ==
  LET serve(acc, o) ==
        IF acc.left > o.needed
          THEN [acc EXCEPT !.left = @ - o.needed, !.protected = Append(@, o)]
          ELSE [acc EXCEPT !.delayed = Append(@, o)]
  IN  FoldLeft(serve, [left |-> stock, protected |-> <<>>, delayed |-> <<>>], queue)

(* The loop: an order that does not fit is delayed, and a later one may. *)
Serve(queue, stock) ==
  LET serve(acc, o) ==
        IF acc.left >= o.needed
          THEN [acc EXCEPT !.left = @ - o.needed, !.protected = Append(@, o)]
          ELSE [acc EXCEPT !.delayed = Append(@, o)]
  IN  FoldLeft(serve, [left |-> stock, protected |-> <<>>, delayed |-> <<>>], queue)

-----------------------------------------------------------------------------
(* The dashboard's production_at_risk *)

Covers(c) == Fraction(c.usable, IF c.daily = 0 THEN 1 ELSE c.daily)

(* Mutant: only stock below the safety stock counts, and not the coverage. *)
ComponentRiskByStock(c) ==
  CASE 2 * c.usable <= c.safety -> "CRITICAL"
    [] 2 * c.usable > c.safety /\ c.usable <= c.safety -> "HIGH"
    [] c.usable > c.safety /\ 2 * c.usable <= 3 * c.safety -> "MEDIUM"
    [] OTHER -> "LOW"

(* Half, all and one and a half of the safety stock, or 3, 7 and 14 days. *)
ComponentRisk(c) ==
  LET under(halves, days) == \/ 2 * c.usable <= halves * c.safety
                             \/ Covers(c).num < days * Covers(c).den
  IN  CASE under(1, 3) -> "CRITICAL"
        [] ~under(1, 3) /\ under(2, 7) -> "HIGH"
        [] ~under(2, 7) /\ under(3, 14) -> "MEDIUM"
        [] OTHER -> "LOW"

(* The rules of an alert scan on the same row. *)

(* check_inventory_below_safety_stock *)
StockAlert(c) ==
  CASE c.usable >= c.safety -> "none"
    [] c.usable < c.safety /\ 2 * c.usable <= c.safety -> "high"
    [] OTHER -> "medium"

(* check_production_schedule_at_risk: an order due in so many tenths of a    *)
(* day, within the horizon of 14 days, that the coverage does not reach.    *)
ScheduleAlert(c, due) ==
  due <= 140 /\ 10 * Covers(c).num < Greatest(due, 1) * Covers(c).den
=============================================================================
