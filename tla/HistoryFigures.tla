--------------------------- MODULE HistoryFigures ---------------------------
(***************************************************************************)
(* What the two history commands compute from the records of an account:   *)
(* /스타포스 counts the climbs of every item from ten stars on and compares  *)
(* what was paid with what such a climb costs on average, /잠재 counts cubes, *)
(* resets and the rises of the grade.                                      *)
(*                                                                         *)
(* Meso is counted in tenths, so that a discount of 30 % is exact, and an  *)
(* average is a fraction <<numerator, denominator>>.  The luck percentile, *)
(* which the code draws from 5000 random climbs, is left out.              *)
(***************************************************************************)
EXTENDS Integers, FiniteSetsExt

CONSTANTS
  Item,
  SetLevel,        \* the level of an item whose name holds that of a set, or 0
  SeedLevel,       \* EQUIPMENT_LEVEL_SEED: the same for single items
  ExcludedItems,   \* EXCLUDED_ITEMS
  MinLevel,        \* MIN_AGGREGATE_LEVEL: 100
  MinStar,         \* MIN_AGGREGATE_STAR: 10
  DestroyStar,     \* DESTROY_STAR: 12
  MaxStar,         \* MAX_STAR: 30
  Scale,           \* probabilities are counted in parts of it
  Prob,            \* STARFORCE_PROB: star to <<success, kept, destroyed>>
  Price,           \* cost: level and star to meso
  ResetPrice       \* _POTENTIAL_RESET, _ADDITIONAL_RESET

Star == 0 .. MaxStar - 1

(* cost prices every level; those of the items there are do. *)
Level == DOMAIN Price \cup {0}

ASSUME FiguresAssumption ==
  /\ SetLevel \in [Item -> Level] /\ SeedLevel \in [Item -> Level] /\ ExcludedItems \subseteq Item
  /\ DOMAIN Price \subseteq Nat /\ \A l \in DOMAIN Price, s \in Star : Price[l][s] \in Nat
  /\ MinStar \in Nat /\ MaxStar \in Nat /\ DestroyStar \in 0 .. MaxStar /\ Scale \in Nat
  /\ \A s \in Star :
       /\ Prob[s] \in Nat \X Nat \X Nat /\ Prob[s][1] > 0
       /\ Prob[s][1] + Prob[s][2] + Prob[s][3] = Scale
       /\ Prob[s][3] % 10 = 0
       /\ Prob[s][3] > 0 => s >= DestroyStar

-----------------------------------------------------------------------------
(* Fractions *)

gcd[p \in Nat \X Nat] == IF p[2] = 0 THEN p[1] ELSE gcd[<<p[2], p[1] % p[2]>>]
Fraction(n, d) == LET g == gcd[<<n, d>>] IN <<n \div g, d \div g>>
Whole(n) == <<n, 1>>
Plus(x, y) == Fraction(x[1] * y[2] + y[1] * x[2], x[2] * y[2])
Times(n, x) == Fraction(n * x[1], x[2])
DividedBy(x, n) == Fraction(x[1], x[2] * n)

-----------------------------------------------------------------------------
(* Records of attempts *)

(* An event covers a range of stars. *)
AttemptEvents(events, star, effect) ==
  \E ev \in events : star \in ev.stars /\ effect \in ev.effects

(* What was not paid for with meso is no attempt. *)
ParseAttempts(page) ==
  {[char |-> r.char, item |-> r.item, before |-> r.before, after |-> r.after, at |-> r.at,
    reduced |-> AttemptEvents(r.events, r.before, "destroy"),
    discount |-> AttemptEvents(r.events, r.before, "cost")] :
     r \in {x \in page : ~x.scroll}}

(* match_level: 0 stands for None. *)
FirstKnown(a, b) == IF a # 0 THEN a ELSE b
MatchLevel(item, known) == FirstKnown(SetLevel[item], FirstKnown(known[item], SeedLevel[item]))

-----------------------------------------------------------------------------
(* Costs of a climb *)

(* In a range of an event 30 % of the destructions keep the item instead. *)
ProbRow(s, reduced) ==
  IF s \notin reduced THEN Prob[s]
  ELSE LET saved == (Prob[s][3] \div 10) * 3
       IN <<Prob[s][1], Prob[s][2] + saved, Prob[s][3] - saved>>

ItemCost(level, discounted, s) == Price[level][s] * (IF discounted THEN 7 ELSE 10)

(* expected_meso.  A destroyed item is back at DestroyStar, so that the    *)
(* average from a star to the last one is a + b x of the average x from    *)
(* there; both follow from those of the star above, and x solves its own   *)
(* equation.                                                               *)
FromAbove(climb, s, up) ==
  LET row == ProbRow(s, climb.reduced)
      cost == Scale * ItemCost(climb.level, s \in climb.discount, s)
  IN [a |-> DividedBy(Plus(Whole(cost), Times(row[1], up.a)), Scale - row[2]),
      b |-> DividedBy(Plus(Whole(row[3]), Times(row[1], up.b)), Scale - row[2])]

Coefficients(climb) ==
  LET c[s \in 0 .. climb.final] ==
        IF s = climb.final THEN [a |-> Whole(0), b |-> Whole(0)] ELSE FromAbove(climb, s, c[s + 1])
  IN c

MayBeDestroyed(climb, start) == \E s \in start .. climb.final - 1 : ProbRow(s, climb.reduced)[3] > 0

AverageAtTheFall(climb) ==
  LET c == Coefficients(climb)[DestroyStar]
  IN Fraction(c.a[1] * c.b[2], c.a[2] * (c.b[2] - c.b[1]))

(* The same without the way back up. *)
ExpectedWithoutFall(climb, start) ==
  IF climb.final <= start THEN Whole(0) ELSE Coefficients(climb)[start].a

ExpectedMeso(climb, start) ==
  IF climb.final <= start THEN Whole(0)
  ELSE LET c == Coefficients(climb)[start]
           x == IF MayBeDestroyed(climb, start) /\ DestroyStar <= climb.final
                THEN AverageAtTheFall(climb) ELSE Whole(0)
       IN Plus(c.a, Fraction(c.b[1] * x[1], c.b[2] * x[2]))

-----------------------------------------------------------------------------
(* aggregate_starforce *)

Groups(attempts) == {<<a.char, a.item>> : a \in attempts}
OfGroup(attempts, g) == {a \in attempts : a.char = g[1] /\ a.item = g[2]}

(* A star is in the mask when at least half of its attempts had the event. *)
Mask(attempts, during) ==
  LET At(S, star) == Cardinality({a \in S : a.before = star})
  IN {star \in {a.before : a \in attempts} : 2 * At(during, star) >= At(attempts, star)}

(* From the first star in time to the highest that was reached. *)
Climb(attempts, level) ==
  [level |-> level,
   start |-> (CHOOSE a \in attempts : \A b \in attempts : a.at <= b.at).before,
   final |-> Max({a.after : a \in attempts}),
   reduced |-> Mask(attempts, {a \in attempts : a.reduced}),
   discount |-> Mask(attempts, {a \in attempts : a.discount}),
   paid |-> MapThenSumSet(LAMBDA a : ItemCost(level, a.discount, a.before), attempts)]

(* Below ten stars, of the list of exclusions or of too low a level is     *)
(* nothing; a level nobody knows is set aside.                             *)
AggregateStarforce(all, known) ==
  LET attempts == {a \in all : a.before >= MinStar}
      level(g) == MatchLevel(g[2], known)
      counted == {g \in Groups(attempts) :
                    g[2] \notin ExcludedItems /\ (level(g) = 0 \/ level(g) >= MinLevel)}
      matched == {g \in counted : level(g) # 0}
  IN [unmatched |-> counted \ matched,
      climbs |-> [g \in matched |-> Climb(OfGroup(attempts, g), level(g))],
      matched |-> MapThenSumSet(LAMBDA g : Cardinality(OfGroup(attempts, g)), matched)]

-----------------------------------------------------------------------------
(* aggregate_potential.  Grades are 1 to 4, rare to legendary; the options *)
(* of an item have one each, and 0 is a grade that is not known.           *)

Kind == {"pot", "add"}

(* A special material is no cube. *)
ParseRolls(page) == {r \in page : ~r.special}

FromGrade(before) == IF before \ {0} = {} THEN 0 ELSE Max(before \ {0})
CostGrade(roll) ==
  IF FromGrade(roll.before[roll.kind]) # 0 THEN FromGrade(roll.before[roll.kind])
  ELSE roll.grade[roll.kind]

(* A success from below the last grade is a rise, of the kind rolled. *)
TierUps(rolls, kind, grade) ==
  {r \in rolls : r.kind = kind /\ r.success /\ FromGrade(r.before[kind]) = grade}

AppraisalCost(level) == IF level <= 120 THEN 0 ELSE ((20 * level * level) \div 100) * 100
Bracket(level) == Max({1} \cup {b \in {160, 200, 250} : b <= level})
ResetCost(roll) ==
  IF CostGrade(roll) = 0 THEN 0 ELSE ResetPrice[roll.kind][Bracket(roll.level)][CostGrade(roll)]

AggregatePotential(rolls) ==
  LET cubes == {r \in rolls : r.cube}
  IN [cubes |-> Cardinality(cubes), resets |-> Cardinality(rolls \ cubes),
      tierups |-> [k \in Kind |-> [g \in 1 .. 3 |-> Cardinality(TierUps(rolls, k, g))]],
      meso |-> MapThenSumSet(LAMBDA r : AppraisalCost(r.level), cubes)
               + MapThenSumSet(ResetCost, rolls \ cubes)]

-----------------------------------------------------------------------------
(* The averages of a climb solve the equations of one attempt: from every  *)
(* star below the last the cost of an attempt, and the average from        *)
(* wherever it leads.                                                      *)
Balanced(climb) ==
  LET mean == [s \in 0 .. climb.final |-> ExpectedMeso(climb, s)]
      fall == ExpectedMeso(climb, DestroyStar)
  IN \A s \in 0 .. climb.final - 1 :
       LET row == ProbRow(s, climb.reduced)
       IN Times(Scale - row[2], mean[s]) =
            Plus(Whole(Scale * ItemCost(climb.level, s \in climb.discount, s)),
                 Plus(Times(row[1], mean[s + 1]), Times(row[3], fall)))
=============================================================================
