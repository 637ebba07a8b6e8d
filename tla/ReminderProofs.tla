-------------------------- MODULE ReminderProofs ---------------------------
(***************************************************************************)
(* The homework card for any lists of contents and bosses, and the hourly  *)
(* job for any members, characters, answers, choices and hours.            *)
(***************************************************************************)
EXTENDS ReminderJob, FiniteSetTheorems, SequenceTheorems, TLAPS

LEMMA Split ==
  ASSUME NEW S, NEW T, IsFiniteSet(S), IsFiniteSet(T), S \cap T = {}
  PROVE  /\ IsFiniteSet(S \cup T)
         /\ Cardinality(S \cup T) = Cardinality(S) + Cardinality(T)
         /\ Cardinality(S) \in Nat /\ Cardinality(T) \in Nat
<1>1. /\ IsFiniteSet(S \cup T)
      /\ Cardinality(S \cup T) = Cardinality(S) + Cardinality(T) - Cardinality(S \cap T)
  BY FS_Union
<1>2. Cardinality(S \cap T) = 0
  BY FS_EmptySet
<1>3. Cardinality(S) \in Nat /\ Cardinality(T) \in Nat
  BY FS_CardinalityType
<1> QED
  BY <1>1, <1>2, <1>3

(* A finite set and two disjoint parts of it that do not leave it. *)
LEMMA Parts ==
  ASSUME NEW U, IsFiniteSet(U), NEW S \in SUBSET U, NEW T \in SUBSET U, S \cap T = {}
  PROVE  /\ IsFiniteSet(S) /\ IsFiniteSet(T) /\ IsFiniteSet(S \cup T)
         /\ Cardinality(S \cup T) = Cardinality(S) + Cardinality(T)
         /\ Cardinality(S) + Cardinality(T) <= Cardinality(U)
         /\ Cardinality(S) \in Nat /\ Cardinality(T) \in Nat /\ Cardinality(U) \in Nat
<1>1. IsFiniteSet(S) /\ IsFiniteSet(T)
  BY FS_Subset
<1>2. /\ IsFiniteSet(S \cup T)
      /\ Cardinality(S \cup T) = Cardinality(S) + Cardinality(T)
      /\ Cardinality(S) \in Nat /\ Cardinality(T) \in Nat
  BY <1>1, Split
<1>3. S \cup T \in SUBSET U
  OBVIOUS
<1>4. Cardinality(S \cup T) <= Cardinality(U)
  BY <1>3, FS_Subset
<1>5. Cardinality(U) \in Nat
  BY FS_CardinalityType
<1> QED
  BY <1>1, <1>2, <1>4, <1>5

LEMMA Categories ==
  ASSUME NEW c PROVE Category(c) \in {"quest", "guild", "count", "binary"}
  BY DEF Category

-----------------------------------------------------------------------------
(* The height of the card *)

(* The rows of a section are no more than its items. *)
LEMMA ContentHeightBound ==
  ASSUME NEW items \in SUBSET ContentItem, IsFiniteSet(items)
  PROVE  /\ ContentHeight(items) \in Nat
         /\ Cardinality(items) \in Nat
         /\ ContentHeight(items) <= 54 + 50 * Cardinality(items)
<1> DEFINE gauge == GaugeRows(items)
           todo == TodoRows(items)
           done == DoneRows(items)
<1>1. gauge \subseteq items /\ todo \subseteq items /\ done \subseteq items
  BY DEF GaugeRows, TodoRows, DoneRows
<1>2. \A c \in items : ~ (InProgress(c) /\ Done(c))
  <2> SUFFICES ASSUME NEW c \in items, InProgress(c) PROVE ~ Done(c)
    OBVIOUS
  <2>1. Category(c) = "count" /\ c.now < c.max /\ c.now \in Nat /\ c.max \in Nat
    BY DEF InProgress, ContentItem
  <2> QED
    BY <2>1 DEF Done
<1>3. gauge \cap todo = {} /\ (gauge \cup todo) \cap done = {}
  BY <1>2 DEF GaugeRows, TodoRows, DoneRows
<1> HIDE DEF gauge, todo, done
<1>7. gauge \in SUBSET items /\ todo \in SUBSET items /\ gauge \cap todo = {}
  BY <1>1, <1>3
<1>4. /\ Cardinality(gauge \cup todo) = Cardinality(gauge) + Cardinality(todo)
      /\ Cardinality(gauge) \in Nat /\ Cardinality(todo) \in Nat
  BY <1>7, Parts
<1>5. /\ Cardinality(gauge \cup todo) + Cardinality(done) <= Cardinality(items)
      /\ Cardinality(done) \in Nat /\ Cardinality(items) \in Nat
  <2>1. gauge \cup todo \in SUBSET items /\ done \in SUBSET items
    BY <1>1
  <2> QED
    BY <1>3, <2>1, Parts
<1>6. ContentHeight(items) \in {0, 46 + 50 * Cardinality(gauge) + 42 * Cardinality(todo)
                                  + 42 * Cardinality(done) + 8}
  BY DEF ContentHeight, HeaderHeight, RowHeight, gauge, todo, done
<1> QED
  BY <1>4, <1>5, <1>6

(* The three sections of one list are apart. *)
LEMMA ContentParts ==
  ASSUME NEW items \in SUBSET ContentItem, IsFiniteSet(items), NEW ex, NEW bucket,
         NEW quests, quests = Shown(bucket, ex, ByCategory(items, {"quest"})),
         NEW others, others = Shown(bucket, ex, ByCategory(items, {"count", "binary"})),
         NEW guild, guild = Shown("guild", ex, ByCategory(items, {"guild"}))
  PROVE  /\ quests \in SUBSET ContentItem /\ others \in SUBSET ContentItem
         /\ IsFiniteSet(quests) /\ IsFiniteSet(others) /\ IsFiniteSet(guild)
         /\ Cardinality(quests) \in Nat /\ Cardinality(others) \in Nat
         /\ Cardinality(guild) \in Nat /\ Cardinality(items) \in Nat
         /\ Cardinality(quests) + Cardinality(others) + Cardinality(guild) <= Cardinality(items)
<1>1. /\ quests \in SUBSET items /\ others \in SUBSET items /\ guild \in SUBSET items
      /\ quests \cap others = {} /\ (quests \cup others) \cap guild = {}
  BY DEF Shown, ByCategory
<1>2. /\ IsFiniteSet(quests) /\ IsFiniteSet(others)
      /\ Cardinality(quests \cup others) = Cardinality(quests) + Cardinality(others)
      /\ Cardinality(quests) \in Nat /\ Cardinality(others) \in Nat
  <2>1. quests \in SUBSET items /\ others \in SUBSET items /\ quests \cap others = {}
    BY <1>1
  <2> QED
    BY ONLY <2>1, Parts, IsFiniteSet(items)
<1>3. /\ IsFiniteSet(guild)
      /\ Cardinality(quests \cup others) + Cardinality(guild) <= Cardinality(items)
      /\ Cardinality(guild) \in Nat /\ Cardinality(items) \in Nat
  <2>1. /\ quests \cup others \in SUBSET items /\ guild \in SUBSET items
        /\ (quests \cup others) \cap guild = {}
    BY <1>1
  <2> QED
    BY ONLY <2>1, Parts, IsFiniteSet(items)
<1> QED
  BY <1>1, <1>2, <1>3

LEMMA GuildHeightBound ==
  ASSUME NEW day, NEW week, Cardinality(day) \in Nat, Cardinality(week) \in Nat
  PROVE  /\ GuildHeight(<<day, week>>) \in Nat
         /\ GuildHeight(<<day, week>>) <= 54 + 50 * (Cardinality(day) + Cardinality(week))
  BY DEF GuildHeight, HeaderHeight, RowHeight

LEMMA BossHeightBound ==
  ASSUME NEW bosses, Cardinality(bosses) \in Nat
  PROVE  /\ BossHeight(bosses) \in Nat
         /\ BossHeight(bosses) <= 77 + 19 * Cardinality(bosses)
<1>1. \A n \in Nat : BossRows(n) \in Nat /\ 2 * BossRows(n) <= n + 1
  BY DEF BossRows
<1> QED
  BY <1>1 DEF BossHeight, HeaderHeight, BossRowHeight

(* Every boss is in the section of its cycle. *)
LEMMA BossParts ==
  ASSUME NEW bosses, IsFiniteSet(bosses),
         NEW week, week = BossesByCycle(bosses, "bossWeekly"),
         NEW day, day = BossesByCycle(bosses, "bossDaily"),
         NEW month, month = BossesByCycle(bosses, "bossMonthly"),
         NEW other, other = BossesOtherCycle(bosses)
  PROVE  /\ IsFiniteSet(week) /\ IsFiniteSet(day) /\ IsFiniteSet(month) /\ IsFiniteSet(other)
         /\ Cardinality(week) \in Nat /\ Cardinality(day) \in Nat
         /\ Cardinality(month) \in Nat /\ Cardinality(other) \in Nat
         /\ Cardinality(bosses) \in Nat
         /\ Cardinality(bosses) = Cardinality(week) + Cardinality(day)
                                  + Cardinality(month) + Cardinality(other)
<1>1. /\ week \in SUBSET bosses /\ day \in SUBSET bosses
      /\ month \in SUBSET bosses /\ other \in SUBSET bosses
      /\ week \cap day = {} /\ (week \cup day) \cap month = {}
      /\ ((week \cup day) \cup month) \cap other = {}
      /\ ((week \cup day) \cup month) \cup other = bosses
  BY DEF BossesByCycle, BossesOtherCycle, KnownCycle
<1>2. /\ IsFiniteSet(week) /\ IsFiniteSet(day) /\ IsFiniteSet(week \cup day)
      /\ Cardinality(week \cup day) = Cardinality(week) + Cardinality(day)
      /\ Cardinality(week) \in Nat /\ Cardinality(day) \in Nat
  <2>1. week \in SUBSET bosses /\ day \in SUBSET bosses /\ week \cap day = {}
    BY <1>1
  <2> QED
    BY ONLY <2>1, Parts, IsFiniteSet(bosses)
<1>3. IsFiniteSet(month) /\ IsFiniteSet(other)
  BY <1>1, FS_Subset
<1>4. /\ IsFiniteSet((week \cup day) \cup month)
      /\ Cardinality((week \cup day) \cup month) = Cardinality(week \cup day) + Cardinality(month)
      /\ Cardinality(month) \in Nat
  BY <1>1, <1>2, <1>3, Split
<1>5. /\ Cardinality(bosses) = Cardinality((week \cup day) \cup month) + Cardinality(other)
      /\ Cardinality(other) \in Nat
  BY <1>1, <1>3, <1>4, Split
<1> QED
  BY <1>2, <1>3, <1>4, <1>5

(* No row is drawn below the canvas: the headers, gaps and paddings leave   *)
(* the estimate more than a half-filled row of bosses in every section     *)
(* costs.                                                                  *)
LEMMA CardsFit ==
  ASSUME NEW hw \in HomeworkType, NEW ex
  PROVE  Fits(hw, ex)
<1> DEFINE d1 == Shown("daily", ex, ByCategory(hw.daily, {"quest"}))
           d2 == Shown("daily", ex, ByCategory(hw.daily, {"count", "binary"}))
           dg == Shown("guild", ex, ByCategory(hw.daily, {"guild"}))
           w1 == Shown("weekly", ex, ByCategory(hw.weekly, {"quest"}))
           w2 == Shown("weekly", ex, ByCategory(hw.weekly, {"count", "binary"}))
           wg == Shown("guild", ex, ByCategory(hw.weekly, {"guild"}))
           b1 == Shown("boss", ex, BossesByCycle(hw.boss, "bossWeekly"))
           b2 == Shown("boss", ex, BossesByCycle(hw.boss, "bossDaily"))
           b3 == Shown("boss", ex, BossesByCycle(hw.boss, "bossMonthly"))
           b4 == Shown("boss", ex, BossesOtherCycle(hw.boss))
<1>1. /\ hw.daily \in SUBSET ContentItem /\ IsFiniteSet(hw.daily)
      /\ hw.weekly \in SUBSET ContentItem /\ IsFiniteSet(hw.weekly)
      /\ IsFiniteSet(hw.boss)
  BY DEF HomeworkType
<1>2. /\ d1 \in SUBSET ContentItem /\ d2 \in SUBSET ContentItem
      /\ IsFiniteSet(d1) /\ IsFiniteSet(d2)
      /\ Cardinality(d1) \in Nat /\ Cardinality(d2) \in Nat /\ Cardinality(dg) \in Nat
      /\ Cardinality(hw.daily) \in Nat
      /\ Cardinality(d1) + Cardinality(d2) + Cardinality(dg) <= Cardinality(hw.daily)
  BY <1>1, ContentParts
<1>3. /\ w1 \in SUBSET ContentItem /\ w2 \in SUBSET ContentItem
      /\ IsFiniteSet(w1) /\ IsFiniteSet(w2)
      /\ Cardinality(w1) \in Nat /\ Cardinality(w2) \in Nat /\ Cardinality(wg) \in Nat
      /\ Cardinality(hw.weekly) \in Nat
      /\ Cardinality(w1) + Cardinality(w2) + Cardinality(wg) <= Cardinality(hw.weekly)
  BY <1>1, ContentParts
<1>4. /\ Cardinality(b1) \in Nat /\ Cardinality(b2) \in Nat
      /\ Cardinality(b3) \in Nat /\ Cardinality(b4) \in Nat
      /\ Cardinality(hw.boss) \in Nat
      /\ Cardinality(b1) + Cardinality(b2) + Cardinality(b3) + Cardinality(b4)
           <= Cardinality(hw.boss)
  <2>1. CASE "boss" \in ex
    <3>1. b1 = {} /\ b2 = {} /\ b3 = {} /\ b4 = {}
      BY <2>1 DEF Shown
    <3>2. Cardinality({}) = 0 /\ Cardinality(hw.boss) \in Nat
      BY <1>1, FS_EmptySet, FS_CardinalityType
    <3> HIDE DEF b1, b2, b3, b4
    <3> QED
      BY <3>1, <3>2
  <2>2. CASE "boss" \notin ex
    <3>1. /\ b1 = BossesByCycle(hw.boss, "bossWeekly")
          /\ b2 = BossesByCycle(hw.boss, "bossDaily")
          /\ b3 = BossesByCycle(hw.boss, "bossMonthly")
          /\ b4 = BossesOtherCycle(hw.boss)
      BY <2>2 DEF Shown
    <3> HIDE DEF b1, b2, b3, b4
    <3> QED
      BY <1>1, <3>1, BossParts
  <2> QED
    BY <2>1, <2>2
<1>5. /\ ContentSections(hw, ex) = <<d1, d2, w1, w2>>
      /\ GuildSection(hw, ex) = <<dg, wg>>
      /\ BossSections(hw, ex) = <<b1, b2, b3, b4>>
  <2>1. {"binary", "count"} = {"count", "binary"}
    OBVIOUS
  <2> QED
    BY <2>1 DEF ContentSections, GuildSection, BossSections
<1> HIDE DEF d1, d2, dg, w1, w2, wg, b1, b2, b3, b4
<1> DEFINE sections == DrawSections(<<d1, d2, w1, w2>>, <<dg, wg>>, <<b1, b2, b3, b4>>)
<1>6. sections = ContentHeight(d1) + ContentHeight(d2) + ContentHeight(w1) + ContentHeight(w2)
                 + GuildHeight(<<dg, wg>>)
                 + BossHeight(b1) + BossHeight(b2) + BossHeight(b3) + BossHeight(b4)
  BY DEF DrawSections
<1>7. /\ ContentHeight(d1) \in Nat /\ ContentHeight(d1) <= 54 + 50 * Cardinality(d1)
      /\ ContentHeight(d2) \in Nat /\ ContentHeight(d2) <= 54 + 50 * Cardinality(d2)
      /\ ContentHeight(w1) \in Nat /\ ContentHeight(w1) <= 54 + 50 * Cardinality(w1)
      /\ ContentHeight(w2) \in Nat /\ ContentHeight(w2) <= 54 + 50 * Cardinality(w2)
  BY <1>2, <1>3, ContentHeightBound
<1>8. /\ GuildHeight(<<dg, wg>>) \in Nat
      /\ GuildHeight(<<dg, wg>>) <= 54 + 50 * (Cardinality(dg) + Cardinality(wg))
  BY <1>2, <1>3, GuildHeightBound
<1>9. /\ BossHeight(b1) \in Nat /\ BossHeight(b1) <= 77 + 19 * Cardinality(b1)
      /\ BossHeight(b2) \in Nat /\ BossHeight(b2) <= 77 + 19 * Cardinality(b2)
      /\ BossHeight(b3) \in Nat /\ BossHeight(b3) <= 77 + 19 * Cardinality(b3)
      /\ BossHeight(b4) \in Nat /\ BossHeight(b4) <= 77 + 19 * Cardinality(b4)
  BY <1>4, BossHeightBound
<1>10. /\ BossRows(Cardinality(hw.boss)) \in Nat
       /\ 2 * BossRows(Cardinality(hw.boss)) >= Cardinality(hw.boss)
  BY <1>4 DEF BossRows
<1>11. /\ sections \in Nat
       /\ sections <= 578 + (Cardinality(hw.daily) + Cardinality(hw.weekly)) * 50
                       + BossRows(Cardinality(hw.boss)) * 38
  <2> HIDE DEF sections
  <2> QED
    BY <1>2, <1>3, <1>4, <1>6, <1>7, <1>8, <1>9, <1>10
<1>12. /\ FinalHeight(hw, ex) = 172 + DrawHeader(hw) + sections + 64 + 28
       /\ DrawHeader(hw) \in {94, 66}
  <2>1. DrawHeader(hw) \in {94, 66}
    BY DEF DrawHeader
  <2>2. FinalHeight(hw, ex) = Margin + Pad + DrawHeader(hw) + DrawProgress + Divider
                              + sections + DrawFooter + Pad - 16
    BY <1>5 DEF FinalHeight
  <2> HIDE DEF sections
  <2> QED
    BY <1>11, <2>1, <2>2 DEF Margin, Pad, DrawProgress, Divider, DrawFooter
<1>13. EstimateHeight(hw) = 1014 + (Cardinality(hw.daily) + Cardinality(hw.weekly)) * 50
                            + BossRows(Cardinality(hw.boss)) * 38
  BY <1>2, <1>3, <1>10 DEF EstimateHeight, HeaderHeight, BossRowHeight
<1> HIDE DEF sections
<1> QED
  BY <1>2, <1>3, <1>10, <1>11, <1>12, <1>13 DEF Fits
-----------------------------------------------------------------------------
(* The headline of the card *)

LEMMA NothingCounted ==
  FieldCounts({}) = [done |-> 0, total |-> 0] /\ BossCounts({}) = [done |-> 0, total |-> 0]
<1>1. Cardinality({}) = 0
  BY FS_EmptySet
<1>2. {c \in {} : ~Locked(c)} = {}
  OBVIOUS
<1>3. {c \in {} : Done(c)} = {} /\ {b \in {} : b.done} = {}
  OBVIOUS
<1> QED
  BY <1>1, <1>2, <1>3 DEF FieldCounts, BossCounts

(* The items that count are those of the two sections that count them. *)
LEMMA ListCounts ==
  ASSUME NEW items, IsFiniteSet(items)
  PROVE  LET counted == {c \in items : Counts(c)}
             quests == FieldCounts(ByCategory(items, {"quest"}))
             others == FieldCounts(ByCategory(items, {"count", "binary"}))
         IN /\ Cardinality({c \in counted : Done(c)}) = quests.done + others.done
            /\ Cardinality(counted) = quests.total + others.total
            /\ quests.done \in Nat /\ others.done \in Nat
            /\ quests.total \in Nat /\ others.total \in Nat
<1> DEFINE counted == {c \in items : Counts(c)}
           q == ByCategory(items, {"quest"})
           p == ByCategory(items, {"count", "binary"})
           qd == {c \in q : Done(c)}
           pd == {c \in p : Done(c)}
           cd == {c \in counted : Done(c)}
<1>1. /\ q \in SUBSET items /\ p \in SUBSET items /\ q \cap p = {}
      /\ {c \in q : ~Locked(c)} = q /\ {c \in p : ~Locked(c)} = p
  BY DEF ByCategory
<1>2. q \cup p = counted
  BY Categories DEF ByCategory, Counts
<1>3. /\ FieldCounts(q) = [done |-> Cardinality(qd), total |-> Cardinality(q)]
      /\ FieldCounts(p) = [done |-> Cardinality(pd), total |-> Cardinality(p)]
  BY <1>1 DEF FieldCounts
<1>4. qd \in SUBSET items /\ pd \in SUBSET items /\ qd \cap pd = {} /\ qd \cup pd = cd
  BY <1>1, <1>2
<1> HIDE DEF q, p, qd, pd, cd, counted
<1>5. /\ Cardinality(q \cup p) = Cardinality(q) + Cardinality(p)
      /\ Cardinality(q) \in Nat /\ Cardinality(p) \in Nat
  <2>1. q \in SUBSET items /\ p \in SUBSET items /\ q \cap p = {}
    BY <1>1
  <2> QED
    BY ONLY <2>1, Parts, IsFiniteSet(items)
<1>6. /\ Cardinality(qd \cup pd) = Cardinality(qd) + Cardinality(pd)
      /\ Cardinality(qd) \in Nat /\ Cardinality(pd) \in Nat
  BY ONLY <1>4, Parts, IsFiniteSet(items)
<1>7. /\ Cardinality(cd) = FieldCounts(q).done + FieldCounts(p).done
      /\ Cardinality(counted) = FieldCounts(q).total + FieldCounts(p).total
      /\ FieldCounts(q).done \in Nat /\ FieldCounts(p).done \in Nat
      /\ FieldCounts(q).total \in Nat /\ FieldCounts(p).total \in Nat
  <2>1. /\ FieldCounts(q).done = Cardinality(qd) /\ FieldCounts(q).total = Cardinality(q)
        /\ FieldCounts(p).done = Cardinality(pd) /\ FieldCounts(p).total = Cardinality(p)
    BY ONLY <1>3
  <2>2. /\ Cardinality(cd) = Cardinality(qd) + Cardinality(pd)
        /\ Cardinality(counted) = Cardinality(q) + Cardinality(p)
    BY ONLY <1>2, <1>4, <1>5, <1>6
  <2> QED
    BY ONLY <1>5, <1>6, <2>1, <2>2
<1> QED
  BY <1>7 DEF q, p, cd, counted

(* The same for a list that may be hidden. *)
LEMMA ShownCounts ==
  ASSUME NEW items, IsFiniteSet(items), NEW bucket, NEW ex
  PROVE  LET counted == IF bucket \in ex THEN {} ELSE {c \in items : Counts(c)}
             quests == FieldCounts(Shown(bucket, ex, ByCategory(items, {"quest"})))
             others == FieldCounts(Shown(bucket, ex, ByCategory(items, {"count", "binary"})))
         IN /\ Cardinality({c \in counted : Done(c)}) = quests.done + others.done
            /\ Cardinality(counted) = quests.total + others.total
            /\ quests.done \in Nat /\ others.done \in Nat
            /\ quests.total \in Nat /\ others.total \in Nat
<1> DEFINE counted == IF bucket \in ex THEN {} ELSE {c \in items : Counts(c)}
           done == {c \in counted : Done(c)}
           q == ByCategory(items, {"quest"})
           p == ByCategory(items, {"count", "binary"})
           quests == FieldCounts(Shown(bucket, ex, q))
           others == FieldCounts(Shown(bucket, ex, p))
<1>1. CASE bucket \in ex
  <2>1. Cardinality({}) = 0
    BY FS_EmptySet
  <2>2. Shown(bucket, ex, q) = {} /\ Shown(bucket, ex, p) = {}
    BY <1>1 DEF Shown
  <2>3. quests = [done |-> 0, total |-> 0] /\ others = [done |-> 0, total |-> 0]
    BY <2>2, NothingCounted
  <2>4. counted = {}
    BY <1>1
  <2>5. done = {}
    BY <2>4
  <2> HIDE DEF counted, done, quests, others
  <2>6. /\ Cardinality(done) = quests.done + others.done
        /\ Cardinality(counted) = quests.total + others.total
        /\ quests.done \in Nat /\ others.done \in Nat
        /\ quests.total \in Nat /\ others.total \in Nat
    BY ONLY <2>1, <2>3, <2>4, <2>5
  <2> QED
    BY <2>6 DEF counted, done, quests, others
<1>2. CASE bucket \notin ex
  <2>1. Shown(bucket, ex, q) = q /\ Shown(bucket, ex, p) = p
    BY <1>2 DEF Shown
  <2>2. counted = {c \in items : Counts(c)}
    BY <1>2
  <2> QED
    BY <2>1, <2>2, ListCounts
<1> QED
  BY <1>1, <1>2

(* The bosses of the four sections are the bosses counted. *)
LEMMA ShownBosses ==
  ASSUME NEW bosses, IsFiniteSet(bosses), NEW ex
  PROVE  LET shown == IF "boss" \in ex THEN {} ELSE bosses
             week == BossCounts(Shown("boss", ex, BossesByCycle(bosses, "bossWeekly")))
             day == BossCounts(Shown("boss", ex, BossesByCycle(bosses, "bossDaily")))
             month == BossCounts(Shown("boss", ex, BossesByCycle(bosses, "bossMonthly")))
             other == BossCounts(Shown("boss", ex, BossesOtherCycle(bosses)))
         IN /\ Cardinality({b \in shown : b.done})
                 = week.done + day.done + month.done + other.done
            /\ Cardinality(shown) = week.total + day.total + month.total + other.total
            /\ Cardinality({b \in shown : b.done}) \in Nat
            /\ Cardinality(shown) \in Nat
<1> DEFINE shown == IF "boss" \in ex THEN {} ELSE bosses
           done == {b \in shown : b.done}
           week == BossCounts(Shown("boss", ex, BossesByCycle(bosses, "bossWeekly")))
           day == BossCounts(Shown("boss", ex, BossesByCycle(bosses, "bossDaily")))
           month == BossCounts(Shown("boss", ex, BossesByCycle(bosses, "bossMonthly")))
           other == BossCounts(Shown("boss", ex, BossesOtherCycle(bosses)))
           Agreed == /\ Cardinality(done) = week.done + day.done + month.done + other.done
                     /\ Cardinality(shown) = week.total + day.total + month.total + other.total
                     /\ Cardinality(done) \in Nat /\ Cardinality(shown) \in Nat
<1>3. SUFFICES Agreed
  OBVIOUS
<1>1. CASE "boss" \in ex
  <2>1. Cardinality({}) = 0
    BY FS_EmptySet
  <2>2. /\ Shown("boss", ex, BossesByCycle(bosses, "bossWeekly")) = {}
        /\ Shown("boss", ex, BossesByCycle(bosses, "bossDaily")) = {}
        /\ Shown("boss", ex, BossesByCycle(bosses, "bossMonthly")) = {}
        /\ Shown("boss", ex, BossesOtherCycle(bosses)) = {}
    BY <1>1 DEF Shown
  <2>3. /\ week = [done |-> 0, total |-> 0] /\ day = [done |-> 0, total |-> 0]
        /\ month = [done |-> 0, total |-> 0] /\ other = [done |-> 0, total |-> 0]
    BY <2>2, NothingCounted
  <2>4. shown = {}
    BY <1>1
  <2>5. done = {}
    BY <2>4
  <2> HIDE DEF shown, done, week, day, month, other
  <2> QED
    BY ONLY <2>1, <2>3, <2>4, <2>5
<1>2. CASE "boss" \notin ex
  <2> DEFINE killed == {b \in bosses : b.done}
             doneOf(cycle) == {b \in BossesByCycle(bosses, cycle) : b.done}
             otherDone == {b \in BossesOtherCycle(bosses) : b.done}
  <2>1. /\ week = BossCounts(BossesByCycle(bosses, "bossWeekly"))
        /\ day = BossCounts(BossesByCycle(bosses, "bossDaily"))
        /\ month = BossCounts(BossesByCycle(bosses, "bossMonthly"))
        /\ other = BossCounts(BossesOtherCycle(bosses))
    BY <1>2 DEF Shown
  <2>2. IsFiniteSet(killed)
    <3>1. killed \in SUBSET bosses
      OBVIOUS
    <3> QED
      BY <3>1, FS_Subset
  <2>3. \A cycle : doneOf(cycle) = BossesByCycle(killed, cycle)
    BY DEF BossesByCycle
  <2>4. otherDone = BossesOtherCycle(killed)
    BY DEF BossesOtherCycle
  <2> HIDE DEF killed
  <2>5. /\ Cardinality(killed) \in Nat
        /\ Cardinality(killed) =
             Cardinality(BossesByCycle(killed, "bossWeekly"))
             + Cardinality(BossesByCycle(killed, "bossDaily"))
             + Cardinality(BossesByCycle(killed, "bossMonthly"))
             + Cardinality(BossesOtherCycle(killed))
    BY <2>2, BossParts
  <2>6. /\ Cardinality(bosses) \in Nat
        /\ Cardinality(bosses) =
             Cardinality(BossesByCycle(bosses, "bossWeekly"))
             + Cardinality(BossesByCycle(bosses, "bossDaily"))
             + Cardinality(BossesByCycle(bosses, "bossMonthly"))
             + Cardinality(BossesOtherCycle(bosses))
    BY BossParts
  <2>7. \A cycle : BossCounts(BossesByCycle(bosses, cycle)) =
          [done |-> Cardinality(BossesByCycle(killed, cycle)),
           total |-> Cardinality(BossesByCycle(bosses, cycle))]
    BY <2>3 DEF BossCounts
  <2>8. BossCounts(BossesOtherCycle(bosses)) =
          [done |-> Cardinality(BossesOtherCycle(killed)),
           total |-> Cardinality(BossesOtherCycle(bosses))]
    BY <2>4 DEF BossCounts
  <2>9. shown = bosses /\ done = killed
    BY <1>2 DEF killed
  <2> HIDE DEF shown, done, week, day, month, other
  <2> QED
    BY ONLY <2>1, <2>5, <2>6, <2>7, <2>8, <2>9
<1> QED
  BY <1>1, <1>2

LEMMA EmptyCard ==
  ASSUME NEW hw \in HomeworkType, NEW ex
  PROVE  IsEmptyFiltered(hw, ex) <=> NoSections(hw, ex)
<1>1. ByCategory(hw.daily, {"quest", "count", "binary"})
        = ByCategory(hw.daily, {"quest"}) \cup ByCategory(hw.daily, {"count", "binary"})
  BY DEF ByCategory
<1>2. ByCategory(hw.weekly, {"quest", "count", "binary"})
        = ByCategory(hw.weekly, {"quest"}) \cup ByCategory(hw.weekly, {"binary", "count"})
  BY DEF ByCategory
<1>3. hw.boss = BossesByCycle(hw.boss, "bossWeekly") \cup BossesByCycle(hw.boss, "bossDaily")
                \cup BossesByCycle(hw.boss, "bossMonthly") \cup BossesOtherCycle(hw.boss)
  BY DEF BossesByCycle, BossesOtherCycle, KnownCycle
<1>4. NoSections(hw, ex) <=>
        /\ Shown("daily", ex, ByCategory(hw.daily, {"quest"})) = {}
        /\ Shown("daily", ex, ByCategory(hw.daily, {"count", "binary"})) = {}
        /\ Shown("weekly", ex, ByCategory(hw.weekly, {"quest"})) = {}
        /\ Shown("weekly", ex, ByCategory(hw.weekly, {"binary", "count"})) = {}
        /\ Shown("guild", ex, ByCategory(hw.daily, {"guild"})) = {}
        /\ Shown("guild", ex, ByCategory(hw.weekly, {"guild"})) = {}
        /\ Shown("boss", ex, BossesByCycle(hw.boss, "bossWeekly")) = {}
        /\ Shown("boss", ex, BossesByCycle(hw.boss, "bossDaily")) = {}
        /\ Shown("boss", ex, BossesByCycle(hw.boss, "bossMonthly")) = {}
        /\ Shown("boss", ex, BossesOtherCycle(hw.boss)) = {}
  <2>1. 1 .. 4 = {1, 2, 3, 4} /\ 1 .. 2 = {1, 2}
    OBVIOUS
  <2> QED
    BY <2>1 DEF NoSections, ContentSections, GuildSection, BossSections
<1>5. \A b, S : Shown(b, ex, S) = {} <=> b \in ex \/ S = {}
  BY DEF Shown
<1> QED
  BY <1>1, <1>2, <1>3, <1>4, <1>5 DEF IsEmptyFiltered

(* The headline of every card agrees with its sections. *)
LEMMA CardsAreHonest ==
  ASSUME NEW hw \in HomeworkType, NEW ex
  PROVE  Honest(hw, ex)
<1>1. IsFiniteSet(hw.daily) /\ IsFiniteSet(hw.weekly) /\ IsFiniteSet(hw.boss)
  BY DEF HomeworkType
<1> DEFINE daily == IF "daily" \in ex THEN {} ELSE {c \in hw.daily : Counts(c)}
           weekly == IF "weekly" \in ex THEN {} ELSE {c \in hw.weekly : Counts(c)}
           bosses == IF "boss" \in ex THEN {} ELSE hw.boss
           d1 == FieldCounts(Shown("daily", ex, ByCategory(hw.daily, {"quest"})))
           d2 == FieldCounts(Shown("daily", ex, ByCategory(hw.daily, {"count", "binary"})))
           w1 == FieldCounts(Shown("weekly", ex, ByCategory(hw.weekly, {"quest"})))
           w2 == FieldCounts(Shown("weekly", ex, ByCategory(hw.weekly, {"count", "binary"})))
           c == ContentSections(hw, ex)
           b == BossSections(hw, ex)
<1>2. /\ Cardinality({x \in daily : Done(x)}) = d1.done + d2.done
      /\ Cardinality(daily) = d1.total + d2.total
      /\ d1.done \in Nat /\ d2.done \in Nat /\ d1.total \in Nat /\ d2.total \in Nat
  BY <1>1, ShownCounts
<1>3. /\ Cardinality({x \in weekly : Done(x)}) = w1.done + w2.done
      /\ Cardinality(weekly) = w1.total + w2.total
      /\ w1.done \in Nat /\ w2.done \in Nat /\ w1.total \in Nat /\ w2.total \in Nat
  BY <1>1, ShownCounts
<1>4. /\ Cardinality({x \in bosses : x.done}) = BossDone(b)
      /\ Cardinality(bosses) = BossTotal(b)
      /\ BossDone(b) \in Nat /\ BossTotal(b) \in Nat
  BY <1>1, ShownBosses DEF BossDone, BossTotal, BossSections
<1>5. /\ ContentDone(c) = d1.done + d2.done + w1.done + w2.done
      /\ ContentTotal(c) = d1.total + d2.total + w1.total + w2.total
  <2>1. {"binary", "count"} = {"count", "binary"}
    OBVIOUS
  <2> QED
    BY <2>1 DEF ContentDone, ContentTotal, ContentSections
<1>6. VisibleRemaining(hw, ex) =
        [done |-> Cardinality({x \in daily : Done(x)}) + Cardinality({x \in weekly : Done(x)})
                  + Cardinality({x \in bosses : x.done}),
         total |-> Cardinality(daily) + Cardinality(weekly) + Cardinality(bosses)]
  BY DEF VisibleRemaining
<1> HIDE DEF daily, weekly, bosses, d1, d2, w1, w2, c, b
<1>7. VisibleRemaining(hw, ex) = [done |-> ContentDone(c) + BossDone(b),
                                  total |-> ContentTotal(c) + BossTotal(b)]
  BY <1>2, <1>3, <1>4, <1>5, <1>6
<1> QED
  BY <1>7, EmptyCard DEF Honest, c, b
-----------------------------------------------------------------------------
(* The stored filter *)

LEMMA RangeOfConcat ==
  ASSUME NEW S, NEW s \in Seq(S), NEW t \in Seq(S)
  PROVE  s \o t \in Seq(S) /\ Range(s \o t) = Range(s) \cup Range(t)
<1>1. /\ s \o t \in Seq(S)
      /\ Len(s \o t) = Len(s) + Len(t)
      /\ \A i \in 1 .. Len(s) + Len(t) :
           (s \o t)[i] = IF i <= Len(s) THEN s[i] ELSE t[i - Len(s)]
  BY ConcatProperties
<1>2. /\ Len(s) \in Nat /\ Len(t) \in Nat
      /\ DOMAIN s = 1 .. Len(s) /\ DOMAIN t = 1 .. Len(t)
      /\ DOMAIN (s \o t) = 1 .. Len(s \o t)
  BY <1>1
<1> DEFINE u == s \o t
<1>3. /\ DOMAIN u = 1 .. (Len(s) + Len(t))
      /\ \A i \in DOMAIN u : u[i] = IF i <= Len(s) THEN s[i] ELSE t[i - Len(s)]
  BY <1>1, <1>2
<1> HIDE DEF u
<1>4. ASSUME NEW i \in DOMAIN u PROVE u[i] \in Range(s) \cup Range(t)
  <2>1. CASE i <= Len(s)
    BY <1>2, <1>3, <2>1 DEF Range
  <2>2. CASE ~ (i <= Len(s))
    <3>1. i - Len(s) \in DOMAIN t /\ u[i] = t[i - Len(s)]
      BY <1>2, <1>3, <2>2
    <3> QED
      BY <3>1 DEF Range
  <2> QED
    BY <2>1, <2>2
<1>5. ASSUME NEW i \in DOMAIN s PROVE s[i] \in Range(u)
  <2>1. i \in DOMAIN u /\ u[i] = s[i]
    BY <1>2, <1>3
  <2> QED
    BY <2>1 DEF Range
<1>6. ASSUME NEW i \in DOMAIN t PROVE t[i] \in Range(u)
  <2>1. i + Len(s) \in DOMAIN u /\ ~ (i + Len(s) <= Len(s)) /\ (i + Len(s)) - Len(s) = i
    BY <1>2, <1>3
  <2>2. u[i + Len(s)] = t[i]
    BY <1>3, <2>1
  <2> QED
    BY <2>1, <2>2 DEF Range
<1>7. Range(u) = Range(s) \cup Range(t)
  BY <1>4, <1>5, <1>6 DEF Range
<1> QED
  BY <1>1, <1>7 DEF u

(* What is stored is read back, whatever the filter. *)
LEMMA RoundTrip ==
  ASSUME NEW ex \in SUBSET Bucket
  PROVE  FromCsv(ToCsv(ex)) = ex
<1>1. CASE ex = {}
  BY <1>1 DEF FromCsv, ToCsv
<1>2. CASE ex # {}
  <2> DEFINE a == Token("daily", ex)
             b == Token("weekly", ex)
             c == Token("boss", ex)
             d == Token("guild", ex)
             ab == a \o b
             abc == ab \o c
             abcd == abc \o d
  <2>1. \A x \in Bucket : Token(x, ex) \in Seq(Bucket) /\ Range(Token(x, ex)) = ex \cap {x}
    <3> SUFFICES ASSUME NEW x \in Bucket
                 PROVE  Token(x, ex) \in Seq(Bucket) /\ Range(Token(x, ex)) = ex \cap {x}
      OBVIOUS
    <3>1. CASE x \in ex
      <4>1. Token(x, ex) = <<x>>
        BY <3>1 DEF Token
      <4>2. <<x>> \in Seq(Bucket) /\ DOMAIN <<x>> = {1} /\ <<x>>[1] = x
        OBVIOUS
      <4> QED
        BY <3>1, <4>1, <4>2 DEF Range
    <3>2. CASE x \notin ex
      <4>1. Token(x, ex) = <<>>
        BY <3>2 DEF Token
      <4>2. <<>> \in Seq(Bucket) /\ DOMAIN <<>> = {}
        OBVIOUS
      <4> QED
        BY <3>2, <4>1, <4>2 DEF Range
    <3> QED
      BY <3>1, <3>2
  <2>2. /\ a \in Seq(Bucket) /\ Range(a) = ex \cap {"daily"}
        /\ b \in Seq(Bucket) /\ Range(b) = ex \cap {"weekly"}
        /\ c \in Seq(Bucket) /\ Range(c) = ex \cap {"boss"}
        /\ d \in Seq(Bucket) /\ Range(d) = ex \cap {"guild"}
    BY <2>1 DEF Bucket
  <2>3. ToCsv(ex) = abcd
    BY <1>2 DEF ToCsv
  <2> HIDE DEF a, b, c, d
  <2>4. ab \in Seq(Bucket) /\ Range(ab) = Range(a) \cup Range(b)
    BY <2>2, RangeOfConcat
  <2> HIDE DEF ab
  <2>5. abc \in Seq(Bucket) /\ Range(abc) = Range(ab) \cup Range(c)
    <3>1. ab \in Seq(Bucket) /\ c \in Seq(Bucket)
      BY <2>2, <2>4
    <3> QED
      BY ONLY <3>1, RangeOfConcat
  <2> HIDE DEF abc
  <2>6. abcd \in Seq(Bucket) /\ Range(abcd) = Range(abc) \cup Range(d)
    BY <2>2, <2>5, RangeOfConcat
  <2> HIDE DEF abcd
  <2>7. Range(ToCsv(ex)) = ex
    BY <2>2, <2>3, <2>4, <2>5, <2>6 DEF Bucket
  <2>8. ToCsv(ex) # Null
    <3>1. Range(Null) = {"null"}
      <4>1. DOMAIN Null = {1} /\ Null[1] = "null"
        BY DEF Null
      <4> QED
        BY <4>1 DEF Range
    <3> QED
      BY <2>7, <3>1 DEF Bucket
  <2> QED
    BY <2>7, <2>8 DEF FromCsv, Range
<1> QED
  BY <1>1, <1>2

LEMMA Filters ==
  ASSUME NEW csv
  PROVE  FromCsv(csv) \in SUBSET Bucket
  BY DEF FromCsv
-----------------------------------------------------------------------------
(* Types *)

LEMMA ImageFinite ==
  ASSUME NEW S, IsFiniteSet(S), NEW f, f = [x \in S |-> f[x]]
  PROVE  IsFiniteSet(Range(f))
<1>1. f \in Surjection(S, Range(f))
  BY DEF Surjection, Range
<1> QED
  BY <1>1, FS_Surjection

LEMMA ParsedContents ==
  ASSUME NEW list \in SUBSET RawContent, IsFiniteSet(list)
  PROVE  ParseContents(list) \in SUBSET ContentItem /\ IsFiniteSet(ParseContents(list))
<1> DEFINE registered == {r \in list : r.registered}
           parsed == [raw \in registered |->
             [name |-> raw.name, now |-> ToInt(raw.now), max |-> ToInt(raw.max),
              type |-> raw.type, quest |-> raw.quest]]
<1>1. \A raw \in list : parsed[raw] \in ContentItem \/ raw \notin registered
  <2> SUFFICES ASSUME NEW raw \in list, raw \in registered PROVE parsed[raw] \in ContentItem
    OBVIOUS
  <2>1. ToInt(raw.now) \in Nat /\ ToInt(raw.max) \in Nat
    BY DEF ToInt, NoNumber, RawContent
  <2> QED
    BY <2>1 DEF RawContent, ContentItem
<1>2. ParseContents(list) = Range(parsed)
  BY DEF ParseContents, Range
<1>3. IsFiniteSet(registered)
  BY FS_Subset
<1>4. parsed = [raw \in registered |-> parsed[raw]] /\ DOMAIN parsed = registered
  OBVIOUS
<1>5. IsFiniteSet(Range(parsed))
  <2> HIDE DEF parsed, registered
  <2> QED
    BY <1>3, <1>4, ImageFinite
<1>6. Range(parsed) \in SUBSET ContentItem
  BY <1>1, <1>4 DEF Range
<1> QED
  BY <1>2, <1>5, <1>6

LEMMA ParsedBosses ==
  ASSUME NEW list \in SUBSET RawBoss, IsFiniteSet(list)
  PROVE  ParseBosses(list) \in SUBSET BossItem /\ IsFiniteSet(ParseBosses(list))
<1> DEFINE registered == {r \in list : r.registered}
           parsed == [raw \in registered |->
             [name |-> raw.name, done |-> raw.complete, cycle |-> raw.cycle]]
<1>1. \A raw \in registered : parsed[raw] \in BossItem
  BY DEF RawBoss, BossItem
<1>2. ParseBosses(list) = Range(parsed)
  BY DEF ParseBosses, Range
<1>3. IsFiniteSet(registered)
  BY FS_Subset
<1>4. parsed = [raw \in registered |-> parsed[raw]] /\ DOMAIN parsed = registered
  OBVIOUS
<1>5. IsFiniteSet(Range(parsed))
  <2> HIDE DEF parsed, registered
  <2> QED
    BY <1>3, <1>4, ImageFinite
<1>6. Range(parsed) \in SUBSET BossItem
  BY <1>1, <1>4 DEF Range
<1> QED
  BY <1>2, <1>5, <1>6

LEMMA Parsed ==
  ASSUME NEW data \in DataType
  PROVE  ParseHomework(data) \in HomeworkType
<1>1. /\ data.daily \in SUBSET RawContent /\ IsFiniteSet(data.daily)
      /\ data.weekly \in SUBSET RawContent /\ IsFiniteSet(data.weekly)
      /\ data.boss \in SUBSET RawBoss /\ IsFiniteSet(data.boss)
      /\ data.challengers \in BOOLEAN
  BY DEF DataType
<1>2. /\ ParseContents(data.daily) \in SUBSET ContentItem
      /\ IsFiniteSet(ParseContents(data.daily))
      /\ ParseContents(data.weekly) \in SUBSET ContentItem
      /\ IsFiniteSet(ParseContents(data.weekly))
      /\ ParseBosses(data.boss) \in SUBSET BossItem
      /\ IsFiniteSet(ParseBosses(data.boss))
  BY <1>1, ParsedContents, ParsedBosses
<1> QED
  BY <1>1, <1>2 DEF ParseHomework, HomeworkType

LEMMA NoJobTyped == NoJob \in Job
<1>1. [m \in Member |-> {}] \in [Member -> SUBSET Bucket]
  OBVIOUS
<1> QED
  BY <1>1, ReminderAssumption DEF NoJob, Job

LEMMA NoSubTyped == NoSub \in [hour : Hour \cup {-1}, excluded : Csv]
<1>1. Null = ToCsv({}) /\ {} \in SUBSET Bucket
  BY DEF ToCsv
<1> QED
  BY <1>1 DEF NoSub, Csv

LEMMA NoCommandTyped == NoCommand \in Command
<1>1. [b \in Bucket |-> "unset"] \in [Bucket -> Choice]
  BY DEF Choice
<1> QED
  BY <1>1 DEF NoCommand, Command

LEMMA InitTyped == Init => TypeOK
<1> SUFFICES ASSUME Init PROVE TypeOK
  OBVIOUS
<1> USE ReminderAssumption
<1>1. rows \in [Member -> Row]
  <2> PICK key \in Keys : rows = [m \in Member |-> [key |-> key[m], characters |-> Owned[m]]]
    BY DEF Init
  <2> QED
    BY DEF Row
<1>2. subs \in [Member -> [hour : Hour \cup {-1}, excluded : Csv]]
  <2>1. Subscription \subseteq [hour : Hour \cup {-1}, excluded : Csv]
    BY NoSubTyped DEF Subscription
  <2>2. subs \in [Member -> Subscription]
    BY DEF Init
  <2> QED
    BY <2>1, <2>2
<1>3. command \in [Call -> Command]
  BY NoCommandTyped DEF Init
<1>4. proc \in Process
  BY DEF Init, Started, Process
<1>5. cards \in [Member -> [Character -> [at : -1 .. MaxHour, n : Nat]]]
  BY DEF Init
<1>6. clock \in 0 .. MaxHour
  BY DEF Init
<1>8. count \in [restarts : 0 .. MaxRestarts, changes : 0 .. MaxChanges]
  BY DEF Init
<1>9. raised \in BOOLEAN
  BY DEF Init
<1>7. job \in Job
  BY NoJobTyped DEF Init
<1> QED
  BY ONLY <1>1, <1>2, <1>3, <1>4, <1>5, <1>6, <1>7, <1>8, <1>9, Zenon DEF TypeOK

LEMMA CommandsTyped == TypeOK /\ Commands => TypeOK'
<1> SUFFICES ASSUME TypeOK, Commands PROVE TypeOK'
  OBVIOUS
<1> USE ReminderAssumption DEF TypeOK
<1>1. TakesCommands /\ Change => count' \in [restarts : 0 .. MaxRestarts, changes : 0 .. MaxChanges]
  BY DEF TakesCommands, Change
<1>2. ASSUME NEW k \in Call, ReminderOn(k) PROVE TypeOK'
  <2>1. PICK h \in Hour, ch \in Choices :
          command' = [command EXCEPT ![k] =
                        [NoCommand EXCEPT !.pc = "guarded", !.hour = h, !.choice = ch]]
    BY <1>2 DEF ReminderOn
  <2>2. [NoCommand EXCEPT !.pc = "guarded", !.hour = h, !.choice = ch] \in Command
    BY NoCommandTyped DEF Command
  <2>3. command' \in [Call -> Command]
    BY <2>1, <2>2
  <2> QED
    BY <1>1, <1>2, <2>3 DEF ReminderOn
<1>3. ASSUME NEW k \in Call, ReadStored(k) PROVE TypeOK'
  <2>1. Hidden(k) \in SUBSET Bucket
    BY DEF Hidden, MergeExcluded
  <2>2. command[k] \in Command
    OBVIOUS
  <2>3. [command[k] EXCEPT !.pc = "merged", !.merged = Hidden(k)] \in Command
    BY <2>1, <2>2 DEF Command
  <2>4. command' \in [Call -> Command]
    BY <1>3, <2>3, NoCommandTyped DEF ReadStored
  <2> QED
    BY <1>3, <2>4 DEF ReadStored
<1>4. ASSUME NEW k \in Call, SetSubscription(k) PROVE TypeOK'
  <2>1. command[k] \in Command
    OBVIOUS
  <2>2. [hour |-> command[k].hour, excluded |-> ToCsv(command[k].merged)]
          \in [hour : Hour \cup {-1}, excluded : Csv]
    BY <2>1 DEF Command, Csv
  <2>3. command' \in [Call -> Command]
    BY <1>4, NoCommandTyped DEF SetSubscription
  <2> QED
    BY <1>4, <2>2, <2>3 DEF SetSubscription
<1>5. ASSUME NEW m \in Member, ReminderOff(m) PROVE TypeOK'
  BY <1>1, <1>5, NoSubTyped DEF ReminderOff
<1>6. ASSUME NEW m \in Member, RemoveKey(m) PROVE TypeOK'
  <2>0. rows \in [Member -> Row] /\ rows[m] \in Row
    OBVIOUS
  <2>1. rows' \in [Member -> Row]
    <3>1. rows' = [rows EXCEPT ![m] = [rows[m] EXCEPT !.key = "none"]]
      BY <1>6 DEF RemoveKey
    <3>2. [rows[m] EXCEPT !.key = "none"] \in Row
      BY <2>0 DEF Row
    <3> QED
      BY <2>0, <3>1, <3>2
  <2> QED
    BY <1>1, <1>6, <2>1, NoSubTyped DEF RemoveKey
<1>7. ASSUME NEW m \in Member, NEW c \in Character, DeleteCharacter(m, c) PROVE TypeOK'
  <2>0. rows \in [Member -> Row] /\ rows[m] \in Row
    OBVIOUS
  <2>1. rows' \in [Member -> Row]
    <3>1. rows' = [rows EXCEPT ![m] = [rows[m] EXCEPT !.characters = @ \ {c}]]
      BY <1>7 DEF DeleteCharacter
    <3>2. [rows[m] EXCEPT !.characters = @ \ {c}] \in Row
      BY <2>0 DEF Row
    <3> QED
      BY <2>0, <3>1, <3>2
  <2>2. subs' \in [Member -> [hour : Hour \cup {-1}, excluded : Csv]]
    BY <1>7, NoSubTyped DEF DeleteCharacter
  <2> QED
    BY <1>1, <1>7, <2>1, <2>2 DEF DeleteCharacter
<1> QED
  BY <1>2, <1>3, <1>4, <1>5, <1>6, <1>7 DEF Commands

LEMMA JobTyped == TypeOK /\ JobStep => TypeOK'
<1> SUFFICES ASSUME TypeOK, JobStep PROVE TypeOK'
  OBVIOUS
<1> USE DEF TypeOK
<1>0. job \in Job /\ rows \in [Member -> Row]
  OBVIOUS
<1>1. ASSUME NEW j \in Job, Run(j) PROVE TypeOK'
  BY <1>1 DEF Run
<1>2. CASE ReadSubscriptions
  <2> DEFINE hidden == [m \in Member |-> IF m \in DueAt(job.now)
                                        THEN FromCsv(subs[m].excluded) ELSE {}]
             read == [job EXCEPT !.pc = "next", !.due = DueAt(job.now), !.hidden = hidden]
  <2>1. hidden \in [Member -> SUBSET Bucket]
    BY Filters
  <2>2. DueAt(job.now) \in SUBSET Member
    BY DEF DueAt
  <2> HIDE DEF hidden
  <2>3. read \in Job
    BY <1>0, <2>1, <2>2 DEF Job
  <2>4. Run(NoJob) \/ Run(read)
    BY <1>2 DEF ReadSubscriptions, hidden
  <2> QED
    BY <1>1, <2>3, <2>4, NoJobTyped
<1>9. CASE Raises
  BY <1>9, NoJobTyped DEF Raises, Raise
<1>3. CASE Fetched \/ NextSubscriber \/ Finish
  <2>1. [job EXCEPT !.pc = "send"] \in Job /\ [job EXCEPT !.pc = "next", !.who = {}] \in Job
    BY <1>0 DEF Job
  <2> QED
    BY <1>1, <1>3, <2>1, NoJobTyped DEF Fetched, NextSubscriber, Finish
<1>4. ASSUME NEW m \in Member, PassOver(m) PROVE TypeOK'
  <2>1. [job EXCEPT !.due = @ \ {m}] \in Job
    BY <1>0 DEF Job
  <2> QED
    BY <1>1, <1>4, <2>1 DEF PassOver
<1>5. ASSUME NEW m \in Member, Decrypt(m) PROVE TypeOK'
  <2> DEFINE next == [job EXCEPT !.pc = "fetch", !.due = @ \ {m}, !.who = {m},
                                 !.todo = rows[m].characters,
                                 !.owed = @ \cup {m} \X rows[m].characters]
  <2>1. rows[m].characters \in SUBSET Character
    BY <1>0 DEF Row
  <2>4. job.owed \cup {m} \X rows[m].characters \in SUBSET (Member \X Character)
    <3>1. job.owed \in SUBSET (Member \X Character)
      BY <1>0 DEF Job
    <3> QED
      BY <2>1, <3>1
  <2>2. next \in Job
    BY <1>0, <2>1, <2>4 DEF Job
  <2>3. Run(next)
    BY <1>5 DEF Decrypt
  <2> HIDE DEF next
  <2> QED
    BY <1>1, <2>2, <2>3
<1>6. ASSUME NEW c \in Character, Fetch(c) PROVE TypeOK'
  <2>1. ASSUME NEW data \in Answer[c]
        PROVE  [job EXCEPT !.todo = @ \ {c}, !.ready = @ \cup {<<c, ParseHomework(data)>>}] \in Job
    <3>1. ParseHomework(data) \in HomeworkType
      BY Parsed, ReminderAssumption
    <3>2. job.ready \cup {<<c, ParseHomework(data)>>} \in SUBSET (Character \X HomeworkType)
      <4>1. job.ready \in SUBSET (Character \X HomeworkType)
        BY <1>0 DEF Job
      <4> QED
        BY <3>1, <4>1
    <3> HIDE DEF TypeOK
    <3> QED
      BY <1>0, <3>2 DEF Job
  <2>2. FetchFailed(c) \in Job
    BY <1>0 DEF Job, FetchFailed, Tried
  <2> QED
    BY <1>1, <1>6, <2>1, <2>2, NoJobTyped DEF Fetch
<1>7. ASSUME NEW r \in job.ready, Skip(r) PROVE TypeOK'
  <2>1. [job EXCEPT !.ready = @ \ {r}, !.owed = Tried(r[1])] \in Job
    BY <1>0 DEF Job, Tried
  <2> QED
    BY <1>1, <1>7, <2>1 DEF Skip
<1>8. ASSUME NEW r \in job.ready, SendDM(r) PROVE TypeOK'
  <2>1. [job EXCEPT !.ready = @ \ {r}, !.owed = Tried(r[1])] \in Job
    BY <1>0 DEF Job, Tried
  <2>2. job' \in Job
    BY <1>8, <2>1 DEF SendDM
  <2>3. PICK m \in job.who : \/ UNCHANGED cards
                            \/ cards' = [cards EXCEPT ![m][r[1]] =
                                  [at |-> job.now, n |-> IF @.at = job.now THEN @.n + 1 ELSE 1]]
    BY <1>8 DEF SendDM
  <2>4. m \in Member /\ r[1] \in Character /\ job.now \in -1 .. MaxHour
    BY <1>0 DEF Job
  <2>5. cards' \in [Member -> [Character -> [at : -1 .. MaxHour, n : Nat]]]
    <3> DEFINE old == cards[m][r[1]]
               new == [at |-> job.now, n |-> IF old.at = job.now THEN old.n + 1 ELSE 1]
    <3>1. old \in [at : -1 .. MaxHour, n : Nat]
      BY <2>4
    <3>2. new \in [at : -1 .. MaxHour, n : Nat]
      BY <2>4, <3>1
    <3>3. UNCHANGED cards \/ cards' = [cards EXCEPT ![m][r[1]] = new]
      BY <2>3
    <3>4. cards \in [Member -> [Character -> [at : -1 .. MaxHour, n : Nat]]]
      OBVIOUS
    <3> DEFINE T == [at : -1 .. MaxHour, n : Nat]
    <3>5. new \in T /\ cards \in [Member -> [Character -> T]]
      BY <3>2, <3>4
    <3> HIDE DEF new, old, TypeOK, T
    <3>6. cards' \in [Member -> [Character -> T]]
      BY <2>4, <3>3, <3>5
    <3> QED
      BY <3>6 DEF T
  <2> QED
    BY <1>8, <2>2, <2>5 DEF SendDM
<1> QED
  BY <1>2, <1>3, <1>4, <1>5, <1>6, <1>7, <1>8, <1>9 DEF JobStep

LEMMA ProcessTyped == TypeOK /\ ProcessStep => TypeOK'
<1> SUFFICES ASSUME TypeOK, ProcessStep PROVE TypeOK'
  OBVIOUS
<1> USE DEF TypeOK
<1>0. proc \in Process
  OBVIOUS
<1>1. ASSUME NEW p \in Process, Proceed(p), UNCHANGED job \/ job' = NoJob PROVE TypeOK'
  BY <1>1, NoJobTyped DEF Proceed
<1>2. /\ [proc EXCEPT !.bot = "running", !.scheduler = TRUE] \in Process
      /\ [proc EXCEPT !.bot = "raised"] \in Process
      /\ Closed([proc EXCEPT !.bot = "raised"]) \in Process
      /\ [proc EXCEPT !.main = "gather"] \in Process
      /\ [proc EXCEPT !.main = "close", !.client = FALSE] \in Process
      /\ Closed([proc EXCEPT !.main = "dispose"]) \in Process
      /\ \A how \in {"raised", "returned"} : [proc EXCEPT !.server = how] \in Process
  BY <1>0 DEF Process, Closed
<1>3. [proc EXCEPT !.main = "aclose", !.bot = Cancelled(@), !.server = Cancelled(@)] \in Process
  BY <1>0 DEF Process, Cancelled
<1>4. Gone \in Process /\ Started \in Process
  BY <1>0 DEF Process, Gone, Started
<1>5. CASE SetupHook \/ BotRaises \/ ServerEnds
  BY <1>1, <1>2, <1>5 DEF SetupHook, BotRaises, ServerEnds, NewScheduler
<1>6. CASE Interrupted \/ Ended \/ Gather \/ CloseClient \/ CloseBot
  BY <1>1, <1>2, <1>3, <1>6 DEF Interrupted, Ended, Gather, CloseClient, CloseBot
<1>7. CASE Dispose \/ Crash
  <2>1. Die
    BY <1>7 DEF Dispose, Crash
  <2>2. command' \in [Call -> Command]
    BY <2>1, NoCommandTyped DEF Die
  <2> QED
    BY <1>4, <2>1, <2>2, NoJobTyped DEF Die
<1>8. CASE Restart
  <2>1. count' \in [restarts : 0 .. MaxRestarts, changes : 0 .. MaxChanges]
    <3>1. MaxRestarts \in Nat
      BY ReminderAssumption
    <3> QED
      BY <1>8, <3>1 DEF Restart
  <2> QED
    BY <1>4, <1>8, <2>1 DEF Restart
<1> QED
  BY <1>5, <1>6, <1>7, <1>8 DEF ProcessStep, Shutdown

LEMMA TypeStep == TypeOK /\ [Next]_vars => TypeOK'
<1> SUFFICES ASSUME TypeOK, [Next]_vars PROVE TypeOK'
  OBVIOUS
<1>1. CASE FullHour
  <2>1. clock' \in 0 .. MaxHour
    BY <1>1, ReminderAssumption DEF FullHour, TypeOK
  <2>2. [NoJob EXCEPT !.pc = "start", !.now = clock + 1] \in Job
    <3>1. clock + 1 \in -1 .. MaxHour
      BY <1>1, <2>1, ReminderAssumption DEF FullHour
    <3> QED
      BY <3>1, NoJobTyped DEF Job
  <2> QED
    BY <1>1, <2>1, <2>2 DEF FullHour, TypeOK
<1>2. CASE UNCHANGED vars
  BY <1>2 DEF vars, TypeOK
<1> QED
  BY <1>1, <1>2, CommandsTyped, JobTyped, ProcessTyped DEF Next
-----------------------------------------------------------------------------
(* Safety *)

(* What the running job may still send was not sent in its hour: nobody it *)
(* has not come to, no character it has not fetched, no card it holds.     *)
Unsent ==
  job.pc # "idle" =>
    /\ job.now <= clock
    /\ \A m \in Member, c \in Character :
         \/ job.pc = "start" \/ m \in job.due
         \/ m \in job.who /\ (c \in job.todo \/ \E r \in job.ready : r[1] = c)
         => cards[m][c].at < job.now
    /\ \A r, q \in job.ready : r[1] = q[1] => r = q
    /\ \A r \in job.ready : r[1] \notin job.todo
    /\ job.who \cap job.due = {}

Once == \A m \in Member, c \in Character : cards[m][c].at <= clock /\ cards[m][c].n <= 1

(* What a job holds in each of its stages. *)
Stages ==
  /\ job.pc \in {"idle", "start", "next"} => job.who = {} /\ job.todo = {} /\ job.ready = {}
  /\ job.pc = "start" => job.due = {}
  /\ job.pc = "send" => job.todo = {}

(* Who has not had its try yet is at work on, and is not forgotten.        *)
Owing ==
  \A x \in job.owed :
    x[1] \in job.who /\ (x[2] \in job.todo \/ \E r \in job.ready : r[1] = x[2])

(* There is no job without a scheduler that may have started it, and the   *)
(* client is open as long as the process waits for its tasks.              *)
Alive ==
  /\ proc.bot = "starting" \/ proc.main = "exited" =>
       job.pc = "idle" /\ proc.scheduler = FALSE
  /\ proc.main = "wait" => proc.client = TRUE

(* A filter that hides everything is neither stored nor about to be. *)
Merged ==
  /\ NeverAllHidden
  /\ \A k \in Call : command[k].pc = "merged" => ~IsAllExcluded(command[k].merged)

Inv == TypeOK /\ Unsent /\ Once /\ Stages /\ Owing /\ Alive /\ Merged

LEMMA NoJobIdle ==
  /\ NoJob.pc = "idle" /\ NoJob.todo = {} /\ NoJob.ready = {} /\ NoJob.due = {}
  /\ NoJob.who = {} /\ NoJob.owed = {}
  BY DEF NoJob

(* A step that leaves the cards and the clock alone and the job with less  *)
(* to do keeps what is unsent unsent.                                      *)
LEMMA LessToDo ==
  ASSUME Unsent, Stages, job.pc # "idle", job'.pc # "idle", job'.pc # "start",
         UNCHANGED <<clock, cards>>, job'.now = job.now,
         job'.due \subseteq job.due, job'.who \subseteq job.who,
         job'.todo \subseteq job.todo, job'.ready \subseteq job.ready
  PROVE  Unsent'
  BY DEF Unsent

LEMMA UnsentStep == TypeOK /\ Unsent /\ Once /\ Stages /\ [Next]_vars => Unsent' /\ Once'
<1> SUFFICES ASSUME TypeOK, Unsent, Once, Stages, [Next]_vars PROVE Unsent' /\ Once'
  OBVIOUS
<1>0. /\ job \in Job /\ clock \in Nat /\ clock \in Int
      /\ cards \in [Member -> [Character -> [at : -1 .. MaxHour, n : Nat]]]
      /\ \A m \in Member, c \in Character : cards[m][c].at \in Int /\ cards[m][c].n \in Nat
  BY ReminderAssumption DEF TypeOK
<1>1. CASE UNCHANGED <<clock, cards>> /\ (job' = job \/ job' = NoJob)
  BY <1>1, NoJobIdle DEF Unsent, Once
<1>2. UNCHANGED <<clock, cards>> => Once'
  BY DEF Once
<1>3. CASE FullHour
  <2>1. clock' = clock + 1 /\ cards' = cards
    BY <1>3 DEF FullHour
  <2>2. Once'
    BY <1>0, <2>1 DEF Once
  <2>3. CASE job' = job
    <3>1. job.pc # "idle" => job.now \in Int
      BY <1>0, ReminderAssumption DEF Job
    <3> QED
      BY <1>0, <2>1, <2>2, <2>3, <3>1 DEF Unsent
  <2>4. CASE job' = [NoJob EXCEPT !.pc = "start", !.now = clock + 1]
    <3>1. /\ job'.now = clock + 1 /\ job'.due = {} /\ job'.who = {} /\ job'.ready = {}
          /\ job'.todo = {}
      BY <2>4 DEF NoJob
    <3>2. \A m \in Member, c \in Character : cards[m][c].at < clock + 1
      BY <1>0 DEF Once
    <3> QED
      BY <1>0, <2>1, <2>2, <3>1, <3>2 DEF Unsent
  <2> QED
    BY <1>3, <2>3, <2>4 DEF FullHour
<1>4. CASE ReadSubscriptions
  <2>1. UNCHANGED <<clock, cards>> /\ job.pc = "start"
    BY <1>4 DEF ReadSubscriptions, Run
  <2>2. CASE job' = NoJob
    BY <1>1, <2>1, <2>2
  <2>3. CASE job' # NoJob
    <3>1. /\ job'.pc = "next" /\ job'.now = job.now /\ job'.who = job.who
          /\ job'.todo = job.todo /\ job'.ready = job.ready
          /\ job'.due \subseteq Member
      BY <1>0, <1>4, <2>3 DEF ReadSubscriptions, Run, Job, DueAt
    <3> QED
      BY <1>2, <2>1, <3>1 DEF Unsent, Stages
  <2> QED
    BY <2>2, <2>3
<1>5. ASSUME NEW m \in Member, Decrypt(m) PROVE Unsent' /\ Once'
  <2>1. UNCHANGED <<clock, cards>> /\ job.pc = "next" /\ m \in job.due
    BY <1>5 DEF Decrypt, Run
  <2>2. /\ job'.now = job.now /\ job'.pc = "fetch" /\ job'.due = job.due \ {m}
        /\ job'.who = {m} /\ job'.ready = job.ready
    BY <1>0, <1>5 DEF Decrypt, Run, Job
  <2> QED
    BY <1>2, <2>1, <2>2 DEF Unsent, Stages
<1>6. ASSUME NEW c \in Character, Fetch(c) PROVE Unsent' /\ Once'
  <2>1. UNCHANGED <<clock, cards>> /\ job.pc = "fetch" /\ c \in job.todo
    BY <1>6 DEF Fetch, Run
  <2>3. CASE job' = FetchFailed(c)
    <3>1. /\ job'.pc = "fetch" /\ job'.now = job.now /\ job'.due = job.due
          /\ job'.who = job.who /\ job'.ready = job.ready /\ job'.todo = job.todo \ {c}
      BY <1>0, <2>1, <2>3 DEF FetchFailed, Job
    <3> QED
      BY <1>2, <2>1, <3>1, LessToDo
  <2>4. ASSUME NEW hw,
               job' = [job EXCEPT !.todo = @ \ {c}, !.ready = @ \cup {<<c, hw>>}]
        PROVE  Unsent' /\ Once'
    <3>1. /\ job'.pc = "fetch" /\ job'.now = job.now /\ job'.due = job.due
          /\ job'.who = job.who /\ job'.todo = job.todo \ {c}
          /\ job'.ready = job.ready \cup {<<c, hw>>}
      BY <1>0, <2>1, <2>4 DEF Job
    <3>2. <<c, hw>>[1] = c
      OBVIOUS
    <3>3. \A r \in job.ready : r[1] # c
      BY <2>1 DEF Unsent
    <3>4. \A r \in job'.ready : (r \in job.ready /\ r[1] # c) \/ (r = <<c, hw>> /\ r[1] = c)
      BY <3>1, <3>2, <3>3
    <3>5. \A r, q \in job'.ready : r[1] = q[1] => r = q
      BY <2>1, <3>4 DEF Unsent
    <3>6. \A r \in job'.ready : r[1] \notin job'.todo
      BY <2>1, <3>1, <3>4 DEF Unsent
    <3>7. ASSUME NEW m \in Member, NEW d \in Character,
                 \/ m \in job'.due
                 \/ m \in job'.who /\ (d \in job'.todo \/ \E r \in job'.ready : r[1] = d)
          PROVE  cards[m][d].at < job.now
      BY <2>1, <3>1, <3>4, <3>7 DEF Unsent
    <3> QED
      BY <1>2, <2>1, <3>1, <3>5, <3>6, <3>7 DEF Unsent
  <2> QED
    BY <1>6, <2>3, <2>4 DEF Fetch, Run
<1>7. ASSUME NEW r \in job.ready, SendDM(r) PROVE Unsent' /\ Once'
  <2>1. job.pc = "send" /\ clock' = clock
    BY <1>7 DEF SendDM
  <2>2. PICK m \in job.who :
          /\ job' = [job EXCEPT !.ready = @ \ {r}, !.owed = Tried(r[1])]
          /\ \/ UNCHANGED cards
             \/ cards' = [cards EXCEPT ![m][r[1]] =
                   [at |-> job.now, n |-> IF @.at = job.now THEN @.n + 1 ELSE 1]]
    BY <1>7 DEF SendDM
  <2>3. /\ job'.pc = "send" /\ job'.now = job.now /\ job'.due = job.due
        /\ job'.who = job.who /\ job'.ready = job.ready \ {r} /\ job'.todo = job.todo
    BY <1>0, <2>1, <2>2 DEF Job
  <2>4. CASE UNCHANGED cards
    BY <1>2, <2>1, <2>3, <2>4, LessToDo
  <2>5. CASE cards' = [cards EXCEPT ![m][r[1]] =
               [at |-> job.now, n |-> IF @.at = job.now THEN @.n + 1 ELSE 1]]
    <3>1. /\ job'.pc = "send" /\ job'.now = job.now /\ job'.due = job.due
          /\ job'.who = job.who /\ job'.ready = job.ready \ {r} /\ job'.todo = job.todo
      BY <2>3
    <3>2. m \in Member /\ r[1] \in Character /\ job.now \in Int
      BY <1>0, ReminderAssumption DEF Job
    <3>3. cards[m][r[1]].at < job.now
      BY <2>1, <3>2 DEF Unsent
    <3>4. \A k \in Member, c \in Character :
            /\ k = m /\ c = r[1] => cards'[k][c].at = job.now /\ cards'[k][c].n = 1
            /\ k # m \/ c # r[1] => cards'[k][c] = cards[k][c]
      <4> DEFINE new == [at |-> job.now,
                         n |-> IF cards[m][r[1]].at = job.now THEN cards[m][r[1]].n + 1 ELSE 1]
      <4>1. new.at = job.now /\ new.n = 1
        BY <1>0, <3>2, <3>3
      <4>2. cards' = [cards EXCEPT ![m][r[1]] = new]
        BY <2>5
      <4>3. \A k \in Member, c \in Character :
              cards'[k][c] = IF k = m /\ c = r[1] THEN new ELSE cards[k][c]
        <5> HIDE DEF new
        <5> QED
          BY <1>0, <3>2, <4>2
      <4> QED
        BY <4>1, <4>3
    <3>5. job.now <= clock
      BY <2>1 DEF Unsent
    <3>6. Once'
      BY <2>1, <3>4, <3>5 DEF Once
    <3>7. ASSUME NEW k \in Member, NEW d \in Character,
                 \/ k \in job'.due
                 \/ k \in job'.who /\ (d \in job'.todo \/ \E q \in job'.ready : q[1] = d)
          PROVE  cards'[k][d].at < job.now
      <4>1. ~ (k = m /\ d = r[1])
        BY <2>1, <2>2, <3>1, <3>7 DEF Unsent, Stages
      <4>2. cards'[k][d] = cards[k][d]
        BY <3>4, <4>1
      <4>3. cards[k][d].at < job.now
        BY <2>1, <3>1, <3>7 DEF Unsent
      <4> QED
        BY <4>2, <4>3
    <3>8. Unsent'
      BY <2>1, <3>1, <3>5, <3>7 DEF Unsent
    <3> QED
      BY <3>6, <3>8
  <2> QED
    BY <2>2, <2>4, <2>5
<1>8. ASSUME NEW r \in job.ready, Skip(r) PROVE Unsent' /\ Once'
  <2>1. UNCHANGED <<clock, cards>> /\ job.pc = "send"
    BY <1>8 DEF Skip, Run
  <2>2. /\ job'.pc = "send" /\ job'.now = job.now /\ job'.due = job.due
        /\ job'.who = job.who /\ job'.ready = job.ready \ {r} /\ job'.todo = job.todo
    BY <1>0, <1>8, <2>1 DEF Skip, Run, Job
  <2> QED
    BY <1>2, <2>1, <2>2, LessToDo
<1>9. ASSUME NEW m \in Member, PassOver(m) PROVE Unsent' /\ Once'
  <2>1. UNCHANGED <<clock, cards>> /\ job.pc = "next"
    BY <1>9 DEF PassOver, Run
  <2>2. /\ job'.pc = "next" /\ job'.now = job.now /\ job'.due = job.due \ {m}
        /\ job'.who = job.who /\ job'.ready = job.ready /\ job'.todo = job.todo
    BY <1>0, <1>9, <2>1 DEF PassOver, Run, Job
  <2> QED
    BY <1>2, <2>1, <2>2, LessToDo
<1>10. CASE Fetched
  <2>1. UNCHANGED <<clock, cards>> /\ job.pc = "fetch"
    BY <1>10 DEF Fetched, Run
  <2>2. /\ job'.pc = "send" /\ job'.now = job.now /\ job'.due = job.due
        /\ job'.who = job.who /\ job'.ready = job.ready /\ job'.todo = job.todo
    BY <1>0, <1>10 DEF Fetched, Run, Job
  <2> QED
    BY <1>2, <2>1, <2>2, LessToDo
<1>11. CASE NextSubscriber
  <2>1. UNCHANGED <<clock, cards>> /\ job.pc = "send"
    BY <1>11 DEF NextSubscriber, Run
  <2>2. /\ job'.pc = "next" /\ job'.now = job.now /\ job'.due = job.due
        /\ job'.who = {} /\ job'.ready = job.ready /\ job'.todo = job.todo
    BY <1>0, <1>11 DEF NextSubscriber, Run, Job
  <2> QED
    BY <1>2, <2>1, <2>2, LessToDo
<1>12. CASE Finish
  BY <1>1, <1>12 DEF Finish, Run
<1>13. CASE Commands
  BY <1>1, <1>13 DEF Commands, ReminderOn, ReadStored, SetSubscription, ReminderOff, RemoveKey,
                     DeleteCharacter
<1>14. CASE ProcessStep
  BY <1>1, <1>14 DEF ProcessStep, SetupHook, BotRaises, ServerEnds, Interrupted, Shutdown, Ended,
                     Gather, CloseClient, CloseBot, Dispose, Crash, Die, Restart, Proceed,
                     NewScheduler
<1>15. CASE UNCHANGED vars
  BY <1>1, <1>15 DEF vars
<1>16. CASE Raises
  BY <1>1, <1>16 DEF Raises, Raise
<1> QED
  BY <1>3, <1>4, <1>5, <1>6, <1>7, <1>8, <1>9, <1>10, <1>11, <1>12, <1>13, <1>14, <1>15,
     <1>16
  DEF Next, JobStep

LEMMA StagesStep == TypeOK /\ Stages /\ [Next]_vars => Stages'
<1> SUFFICES ASSUME TypeOK, Stages, [Next]_vars PROVE Stages'
  OBVIOUS
<1>0. job \in Job
  BY DEF TypeOK
<1>1. CASE job' = job \/ job' = NoJob
  BY <1>1, NoJobIdle DEF Stages, NoJob
<1>2. CASE FullHour
  <2>1. CASE job' = [NoJob EXCEPT !.pc = "start", !.now = clock + 1]
    BY <2>1 DEF Stages, NoJob
  <2> QED
    BY <1>1, <1>2, <2>1 DEF FullHour
<1>3. CASE ReadSubscriptions
  <2>1. CASE job' # NoJob
    <3>1. /\ job'.pc = "next" /\ job'.who = job.who
          /\ job'.todo = job.todo /\ job'.ready = job.ready /\ job.pc = "start"
      BY <1>0, <1>3, <2>1 DEF ReadSubscriptions, Run, Job
    <3> QED
      BY <3>1 DEF Stages
  <2> QED
    BY <1>1, <2>1
<1>4. ASSUME NEW m \in Member, Decrypt(m) PROVE Stages'
  <2>1. job'.pc = "fetch"
    BY <1>0, <1>4 DEF Decrypt, Run, Job
  <2> QED
    BY <2>1 DEF Stages
<1>5. ASSUME NEW c \in Character, Fetch(c) PROVE Stages'
  <2>1. job'.pc = "fetch"
    BY <1>0, <1>5 DEF Fetch, FetchFailed, Run, Job
  <2> QED
    BY <2>1 DEF Stages
<1>6. ASSUME NEW r \in job.ready, SendDM(r) PROVE Stages'
  <2>1. job.pc = "send" /\ job'.pc = "send" /\ job'.todo = job.todo
    BY <1>0, <1>6 DEF SendDM, Job
  <2> QED
    BY <2>1 DEF Stages
<1>7. ASSUME NEW r \in job.ready, Skip(r) PROVE Stages'
  <2>1. job.pc = "send" /\ job'.pc = "send" /\ job'.todo = job.todo
    BY <1>0, <1>7 DEF Skip, Run, Job
  <2> QED
    BY <2>1 DEF Stages
<1>8. ASSUME NEW m \in Member, PassOver(m) PROVE Stages'
  <2>1. /\ job.pc = "next" /\ job'.pc = "next" /\ job'.who = job.who
        /\ job'.todo = job.todo /\ job'.ready = job.ready
    BY <1>0, <1>8 DEF PassOver, Run, Job
  <2> QED
    BY <2>1 DEF Stages
<1>9. CASE Fetched
  <2>1. job'.pc = "send" /\ job'.todo = job.todo /\ job.todo = {}
    BY <1>0, <1>9 DEF Fetched, Run, Job
  <2> QED
    BY <2>1 DEF Stages
<1>10. CASE NextSubscriber
  <2>1. /\ job.pc = "send" /\ job'.pc = "next" /\ job'.who = {}
        /\ job'.todo = job.todo /\ job'.ready = job.ready /\ job.ready = {}
    BY <1>0, <1>10 DEF NextSubscriber, Run, Job
  <2> QED
    BY <2>1 DEF Stages
<1>11. CASE Finish
  BY <1>1, <1>11 DEF Finish, Run
<1>12. CASE Commands
  BY <1>1, <1>12 DEF Commands, ReminderOn, ReadStored, SetSubscription, ReminderOff, RemoveKey,
                     DeleteCharacter
<1>13. CASE ProcessStep
  BY <1>1, <1>13 DEF ProcessStep, SetupHook, BotRaises, ServerEnds, Interrupted, Shutdown, Ended,
                     Gather, CloseClient, CloseBot, Dispose, Crash, Die, Restart, Proceed,
                     NewScheduler
<1>14. CASE UNCHANGED vars
  BY <1>1, <1>14 DEF vars
<1>15. CASE Raises
  BY <1>1, <1>15 DEF Raises, Raise
<1> QED
  BY <1>2, <1>3, <1>4, <1>5, <1>6, <1>7, <1>8, <1>9, <1>10, <1>11, <1>12, <1>13, <1>14, <1>15
  DEF Next, JobStep

LEMMA OwingStep == TypeOK /\ Stages /\ Owing /\ [Next]_vars => Owing'
<1> SUFFICES ASSUME TypeOK, Stages, Owing, [Next]_vars PROVE Owing'
  OBVIOUS
<1>0. job \in Job /\ job.owed \subseteq Member \X Character
  BY DEF TypeOK, Job
<1>1. CASE job' = job \/ job' = NoJob
  BY <1>1, NoJobIdle DEF Owing
<1>2. CASE job'.owed = {}
  BY <1>2 DEF Owing
<1>3. job.who = {} \/ (job.todo = {} /\ job.ready = {}) => job.owed = {}
  BY DEF Owing
<1>4. CASE FullHour
  BY <1>1, <1>2, <1>4, NoJobIdle DEF FullHour, NoJob
<1>5. CASE ReadSubscriptions
  <2>1. job'.owed = {}
    BY <1>0, <1>3, <1>5, NoJobIdle DEF ReadSubscriptions, Run, Job, Stages
  <2> QED
    BY <1>2, <2>1
<1>6. ASSUME NEW m \in Member, Decrypt(m) PROVE Owing'
  <2>1. job.owed = {}
    BY <1>3, <1>6 DEF Decrypt, Stages
  <2>2. /\ job'.who = {m} /\ job'.todo = rows[m].characters
        /\ job'.owed = {m} \X rows[m].characters
    BY <1>0, <1>6, <2>1 DEF Decrypt, Run, Job
  <2>3. \A x \in {m} \X rows[m].characters : x[1] = m /\ x[2] \in rows[m].characters
    OBVIOUS
  <2> QED
    BY <2>2, <2>3 DEF Owing
<1>7. ASSUME NEW c \in Character, Fetch(c) PROVE Owing'
  <2>1. CASE job' = FetchFailed(c)
    <3>1. /\ job'.who = job.who /\ job'.todo = job.todo \ {c} /\ job'.ready = job.ready
          /\ job'.owed = job.owed \ (job.who \X {c})
      BY <1>0, <2>1 DEF FetchFailed, Tried, Job
    <3>2. \A x \in job'.owed : x \in job.owed /\ (x[1] \in job.who => x[2] # c)
      BY <1>0, <3>1
    <3> QED
      BY <3>1, <3>2 DEF Owing
  <2>2. ASSUME NEW hw,
               job' = [job EXCEPT !.todo = @ \ {c}, !.ready = @ \cup {<<c, hw>>}]
        PROVE  Owing'
    <3>1. /\ job'.who = job.who /\ job'.todo = job.todo \ {c} /\ job'.owed = job.owed
          /\ job'.ready = job.ready \cup {<<c, hw>>}
      BY <1>0, <2>2 DEF Job
    <3>2. <<c, hw>>[1] = c /\ <<c, hw>> \in job'.ready
      BY <3>1
    <3> QED
      BY <3>1, <3>2 DEF Owing
  <2> QED
    BY <1>7, <2>1, <2>2 DEF Fetch, Run
<1>8. ASSUME NEW r \in job.ready, Skip(r) \/ SendDM(r) PROVE Owing'
  <2>1. /\ job'.who = job.who /\ job'.todo = job.todo /\ job'.ready = job.ready \ {r}
        /\ job'.owed = job.owed \ (job.who \X {r[1]})
    BY <1>0, <1>8 DEF Skip, SendDM, Run, Tried, Job
  <2>2. \A x \in job'.owed : x \in job.owed /\ (x[1] \in job.who => x[2] # r[1])
    BY <1>0, <2>1
  <2> QED
    BY <2>1, <2>2 DEF Owing
<1>9. ASSUME NEW m \in Member, PassOver(m) PROVE Owing'
  <2>1. /\ job'.who = job.who /\ job'.todo = job.todo /\ job'.ready = job.ready
        /\ job'.owed = job.owed
    BY <1>0, <1>9 DEF PassOver, Run, Job
  <2> QED
    BY <2>1 DEF Owing
<1>10. CASE Fetched
  <2>1. /\ job'.who = job.who /\ job'.todo = job.todo /\ job'.ready = job.ready
        /\ job'.owed = job.owed
    BY <1>0, <1>10 DEF Fetched, Run, Job
  <2> QED
    BY <2>1 DEF Owing
<1>11. CASE NextSubscriber
  <2>1. job'.owed = job.owed /\ job.todo = {} /\ job.ready = {}
    BY <1>0, <1>11 DEF NextSubscriber, Run, Job, Stages
  <2> QED
    BY <1>2, <1>3, <2>1
<1>12. CASE Finish \/ Raises
  BY <1>1, <1>12 DEF Finish, Raises, Raise, Run
<1>13. CASE Commands
  BY <1>1, <1>13 DEF Commands, ReminderOn, ReadStored, SetSubscription, ReminderOff, RemoveKey,
                     DeleteCharacter
<1>14. CASE ProcessStep
  BY <1>1, <1>14 DEF ProcessStep, SetupHook, BotRaises, ServerEnds, Interrupted, Shutdown, Ended,
                     Gather, CloseClient, CloseBot, Dispose, Crash, Die, Restart, Proceed,
                     NewScheduler
<1>15. CASE UNCHANGED vars
  BY <1>1, <1>15 DEF vars
<1> QED
  BY <1>4, <1>5, <1>6, <1>7, <1>8, <1>9, <1>10, <1>11, <1>12, <1>13, <1>14, <1>15
  DEF Next, JobStep

LEMMA AliveStep == TypeOK /\ Alive /\ [Next]_vars => Alive'
<1> SUFFICES ASSUME TypeOK, Alive, [Next]_vars PROVE Alive'
  OBVIOUS
<1>0. proc \in Process
  BY DEF TypeOK
<1>1. CASE UNCHANGED <<proc, job>>
  BY <1>1 DEF Alive
<1>2. CASE UNCHANGED proc /\ job' = NoJob
  BY <1>2, NoJobIdle DEF Alive
<1>3. CASE JobStep
  <2>1. job.pc # "idle" /\ UNCHANGED proc
    BY <1>3 DEF JobStep, ReadSubscriptions, Fetched, NextSubscriber, Finish, PassOver, Decrypt,
                Fetch, Skip, SendDM, Run, Raises
  <2> QED
    BY <2>1 DEF Alive
<1>4. CASE FullHour
  <2>1. UNCHANGED proc
    BY <1>4 DEF FullHour
  <2>2. proc.scheduler = FALSE => job' = job
    BY <1>4 DEF FullHour
  <2> QED
    BY <2>1, <2>2 DEF Alive
<1>5. CASE Commands
  BY <1>1, <1>5 DEF Commands, ReminderOn, ReadStored, SetSubscription, ReminderOff, RemoveKey,
                    DeleteCharacter
<1>6. CASE SetupHook
  <2>1. proc'.bot = "running" /\ proc'.main = "wait" /\ proc'.client = proc.client
    BY <1>0, <1>6 DEF SetupHook, Proceed, Process
  <2> QED
    BY <1>6, <2>1 DEF SetupHook, Alive
<1>7. CASE BotRaises
  <2>1. proc'.bot = "raised" /\ proc'.main = "wait" /\ proc'.client = proc.client
    BY <1>0, <1>7 DEF BotRaises, Proceed, Process, Closed
  <2> QED
    BY <1>7, <2>1 DEF BotRaises, Alive
<1>8. CASE ServerEnds \/ Ended \/ Interrupted
  <2>1. /\ proc'.bot = proc.bot /\ proc'.client = proc.client
        /\ proc'.scheduler = proc.scheduler
        /\ proc.main = "wait" /\ proc'.main \in {"wait", "gather"}
        /\ job' = job
    BY <1>0, <1>8 DEF ServerEnds, Ended, Interrupted, Proceed, Process
  <2> QED
    BY <2>1 DEF Alive
<1>9. CASE Gather
  <2>1. proc'.bot # "starting" /\ proc'.main = "aclose"
    BY <1>0, <1>9 DEF Gather, Proceed, Process, Cancelled
  <2> QED
    BY <2>1 DEF Alive
<1>10. CASE CloseClient
  <2>1. /\ proc'.bot = proc.bot /\ proc'.scheduler = proc.scheduler
        /\ proc'.main = "close" /\ job' = job
    BY <1>0, <1>10 DEF CloseClient, Proceed, Process
  <2> QED
    BY <2>1 DEF Alive
<1>11. CASE CloseBot
  <2>1. proc'.scheduler = FALSE /\ proc'.main = "dispose" /\ job' = NoJob
    BY <1>0, <1>11 DEF CloseBot, Proceed, Process, Closed
  <2> QED
    BY <2>1, NoJobIdle DEF Alive
<1>12. CASE Dispose \/ Crash
  <2>1. proc'.scheduler = FALSE /\ proc'.main = "exited" /\ job' = NoJob
    BY <1>0, <1>12 DEF Dispose, Crash, Die, Gone, Process
  <2> QED
    BY <2>1, NoJobIdle DEF Alive
<1>13. CASE Restart
  <2>1. /\ proc'.scheduler = FALSE /\ proc'.main = "wait" /\ proc'.client = TRUE
        /\ job' = job /\ proc.main = "exited"
    BY <1>13 DEF Restart, Started
  <2> QED
    BY <2>1 DEF Alive
<1>14. CASE UNCHANGED vars
  BY <1>1, <1>14 DEF vars
<1> QED
  BY <1>3, <1>4, <1>5, <1>6, <1>7, <1>8, <1>9, <1>10, <1>11, <1>12, <1>13, <1>14
  DEF Next, ProcessStep, Shutdown

LEMMA MergedStep == TypeOK /\ Merged /\ [Next]_vars => Merged'
<1> SUFFICES ASSUME TypeOK, Merged, [Next]_vars PROVE Merged'
  OBVIOUS
<1>0. /\ subs \in [Member -> [hour : Hour \cup {-1}, excluded : Csv]]
      /\ command \in [Call -> Command]
  BY DEF TypeOK
<1>1. CASE UNCHANGED <<subs, command>>
  BY <1>1 DEF Merged, NeverAllHidden
<1>2. ~IsAllExcluded(FromCsv(NoSub.excluded))
  BY DEF NoSub, FromCsv, IsAllExcluded, Bucket
<1>3. NoCommand.pc = "idle"
  BY DEF NoCommand
<1>4. ASSUME NEW k \in Call, ReminderOn(k) PROVE Merged'
  <2>1. command'[k].pc = "guarded" /\ \A i \in Call \ {k} : command'[i] = command[i]
    BY <1>0, <1>4 DEF ReminderOn, NoCommand
  <2>2. subs' = subs
    BY <1>4 DEF ReminderOn
  <2> QED
    BY <2>1, <2>2 DEF Merged, NeverAllHidden
<1>5. ASSUME NEW k \in Call, ReadStored(k) PROVE Merged'
  <2>1. subs' = subs /\ \A i \in Call \ {k} : command'[i] = command[i]
    BY <1>0, <1>5 DEF ReadStored
  <2>2. CASE Refuses(k)
    <3>1. command'[k].pc = "idle"
      BY <1>0, <1>3, <1>5, <2>2 DEF ReadStored
    <3> QED
      BY <2>1, <3>1 DEF Merged, NeverAllHidden
  <2>3. CASE ~Refuses(k)
    <3>1. command[k] \in Command
      BY <1>0
    <3>2. command'[k] = [command[k] EXCEPT !.pc = "merged", !.merged = Hidden(k)]
      BY <1>0, <1>5, <2>3 DEF ReadStored
    <3>3. command'[k].merged = Hidden(k)
      BY <3>1, <3>2 DEF Command
    <3>4. ~IsAllExcluded(command'[k].merged)
      BY <2>3, <3>3 DEF Refuses
    <3> QED
      BY <2>1, <3>4 DEF Merged, NeverAllHidden
  <2> QED
    BY <2>2, <2>3
<1>6. ASSUME NEW k \in Call, SetSubscription(k) PROVE Merged'
  <2> DEFINE m == Caller[k]
  <2>1. command[k].pc = "merged" /\ command[k].merged \in SUBSET Bucket /\ m \in Member
    BY <1>0, <1>6, ReminderAssumption DEF SetSubscription, Command
  <2>2. subs'[m].excluded = ToCsv(command[k].merged)
    BY <1>0, <1>6, <2>1 DEF SetSubscription
  <2>3. FromCsv(subs'[m].excluded) = command[k].merged
    BY <2>1, <2>2, RoundTrip
  <2>4. ~IsAllExcluded(FromCsv(subs'[m].excluded))
    BY <2>1, <2>3 DEF Merged
  <2>5. /\ command'[k].pc = "idle"
        /\ \A i \in Call \ {k} : command'[i] = command[i]
        /\ \A n \in Member \ {m} : subs'[n] = subs[n]
    BY <1>0, <1>3, <1>6 DEF SetSubscription
  <2> QED
    BY <2>4, <2>5 DEF Merged, NeverAllHidden
<1>7. ASSUME NEW m \in Member,
             \/ ReminderOff(m) \/ RemoveKey(m) \/ \E c \in Character : DeleteCharacter(m, c)
      PROVE  Merged'
  <2>1. /\ command' = command
        /\ subs' = subs \/ subs' = [subs EXCEPT ![m] = NoSub]
    BY <1>7 DEF ReminderOff, RemoveKey, DeleteCharacter
  <2>2. \A k \in Member : subs'[k] = subs[k] \/ subs'[k] = NoSub
    BY <1>0, <2>1
  <2> QED
    BY <1>2, <2>1, <2>2 DEF Merged, NeverAllHidden
<1>8. CASE FullHour \/ JobStep
  BY <1>1, <1>8 DEF FullHour, JobStep, ReadSubscriptions, Fetched, NextSubscriber, Finish, PassOver,
                    Decrypt, Fetch, Skip, SendDM, Run, Raises
<1>9. CASE ProcessStep
  <2>1. subs' = subs /\ (command' = command \/ command' = [k \in Call |-> NoCommand])
    BY <1>9 DEF ProcessStep, SetupHook, BotRaises, ServerEnds, Interrupted, Shutdown, Ended,
                Gather, CloseClient, CloseBot, Dispose, Crash, Die, Restart, Proceed
  <2>2. \A k \in Call : command'[k] = command[k] \/ command'[k] = NoCommand
    BY <2>1
  <2> QED
    BY <1>3, <2>1, <2>2 DEF Merged, NeverAllHidden
<1>10. CASE UNCHANGED vars
  BY <1>1, <1>10 DEF vars
<1> QED
  BY <1>4, <1>5, <1>6, <1>7, <1>8, <1>9, <1>10 DEF Next, Commands

LEMMA InvInit == Init => Inv
<1> SUFFICES ASSUME Init PROVE Inv
  OBVIOUS
<1>1. job = NoJob
  BY DEF Init
<1>2. Unsent /\ Stages /\ Owing
  BY <1>1, NoJobIdle DEF Unsent, Stages, Owing
<1>3. Once
  BY DEF Init, Once
<1>4. Alive
  BY <1>1, NoJobIdle DEF Init, Started, Alive
<1>5. Merged
  <2>1. \A m \in Member : subs[m] \in Subscription
    BY ReminderAssumption DEF Init
  <2>2. \A sub \in Subscription : ~IsAllExcluded(FromCsv(sub.excluded))
    BY DEF Subscription, NoSub, FromCsv, IsAllExcluded, Bucket
  <2>3. \A k \in Call : command[k].pc = "idle"
    BY DEF Init, NoCommand
  <2> QED
    BY <2>1, <2>2, <2>3 DEF Merged, NeverAllHidden
<1> QED
  BY <1>2, <1>3, <1>4, <1>5, InitTyped DEF Inv

(* Inv is inductive, so it holds whenever the job is cut off. *)
THEOREM Invariance == Spec => []Inv
<1>1. Inv /\ [Next]_vars => Inv'
  BY TypeStep, UnsentStep, StagesStep, OwingStep, AliveStep, MergedStep DEF Inv
<1> QED
  BY InvInit, <1>1, PTL DEF Spec

(* The tables, the job, the process and the commands keep their types. *)
THEOREM TypeCorrect == Spec => []TypeOK
<1>1. Inv => TypeOK
  BY DEF Inv
<1> QED
  BY Invariance, <1>1, PTL

(* A character gets one card an hour at the most, for any number of members, *)
(* characters, restarts and hours a job lasts.                             *)
THEOREM AtMostOneCard == Spec => []OneCardAnHour
<1>1. Inv => OneCardAnHour
  BY DEF Inv, Once, OneCardAnHour
<1> QED
  BY Invariance, <1>1, PTL

(* No overlap of commands stores a filter that hides everything. *)
THEOREM SomethingShown == Spec => []NeverAllHidden
<1>1. Inv => NeverAllHidden
  BY DEF Inv, Merged
<1> QED
  BY Invariance, <1>1, PTL

LEMMA ReadyTyped ==
  ASSUME TypeOK, NEW r \in job.ready
  PROVE  r[2] \in HomeworkType
  BY DEF TypeOK, Job

(* The headline of every card agrees with its sections, whatever Nexon      *)
(* answers and the member hides, and only a card without any is left out.  *)
THEOREM HeadlinesHonest == Spec => []HeadlineHonest
<1>1. Inv => HeadlineHonest
  BY ReadyTyped, CardsAreHonest DEF Inv, HeadlineHonest
<1> QED
  BY Invariance, <1>1, PTL

(* No card is drawn beyond its canvas, however long the lists are. *)
THEOREM NothingCutOff == Spec => []CardFits
<1>1. Inv => CardFits
  BY ReadyTyped, CardsFit DEF Inv, CardFits
<1> QED
  BY Invariance, <1>1, PTL

(* While the process is up, a job that no exception ends has come to every  *)
(* subscriber, and every character it came to had a try of its own:        *)
(* refused, sent, undeliverable or with nothing to show.                   *)
THEOREM NobodySkipped == Spec => NobodyHeldUp
<1> DEFINE Excused == raised' \/ (job.due = {} /\ job.owed = {})
<1>1. Inv /\ [Next]_vars => [JobOver => Excused]_vars
  <2> SUFFICES ASSUME Inv, Next, job.pc # "idle", job'.pc = "idle",
                      proc'.main = "wait", ~proc'.closed
               PROVE  Excused
    BY DEF vars, JobOver
  <2>0. job \in Job /\ proc \in Process /\ Stages /\ Owing /\ Alive
    BY DEF Inv, TypeOK
  <2>1. CASE UNCHANGED job
    BY <2>1
  <2>2. CASE FullHour
    <3>1. [NoJob EXCEPT !.pc = "start", !.now = clock + 1].pc = "start"
      BY DEF NoJob
    <3> QED
      BY <2>2, <3>1 DEF FullHour
  <2>3. CASE ReadSubscriptions \/ Finish
    <3>1. job.due = {} /\ job.who = {}
      BY <2>0, <2>3 DEF Stages, ReadSubscriptions, Finish
    <3> QED
      BY <2>0, <3>1 DEF Owing
  <2>4. CASE Fetched \/ NextSubscriber
    BY <2>0, <2>4 DEF Fetched, NextSubscriber, Run, Job
  <2>10. CASE Raises
    BY <2>10 DEF Raises, Raise
  <2>5. ASSUME NEW m \in Member, PassOver(m) \/ Decrypt(m) PROVE Excused
    BY <2>0, <2>5 DEF PassOver, Decrypt, Run, Job
  <2>6. ASSUME NEW c \in Character, Fetch(c) PROVE Excused
    <3>1. job.pc = "fetch" /\ job'.pc = "fetch"
      BY <2>0, <2>6 DEF Fetch, FetchFailed, Run, Job
    <3> QED
      BY <3>1
  <2>7. ASSUME NEW r \in job.ready, Skip(r) \/ SendDM(r) PROVE Excused
    <3>1. job.pc = "send" /\ job'.pc = "send"
      BY <2>0, <2>7 DEF Skip, SendDM, Run, Job
    <3> QED
      BY <3>1
  <2>8. CASE Commands
    BY <2>1, <2>8 DEF Commands, ReminderOn, ReadStored, SetSubscription, ReminderOff, RemoveKey,
                      DeleteCharacter
  <2>9. CASE ProcessStep
    <3>1. CASE SetupHook
      BY <2>0, <3>1 DEF SetupHook, Alive
    <3>2. CASE BotRaises
      <4>1. CASE UNCHANGED job
        BY <2>1, <4>1
      <4>2. CASE Proceed(Closed([proc EXCEPT !.bot = "raised"]))
        BY <2>0, <4>2 DEF Proceed, Closed, Process
      <4> QED
        BY <3>2, <4>1, <4>2 DEF BotRaises
    <3>3. CASE CloseBot
      BY <2>0, <3>3 DEF CloseBot, Proceed, Closed, Process
    <3>4. CASE Dispose \/ Crash
      BY <2>0, <3>4 DEF Dispose, Crash, Die, Gone, Process
    <3>5. CASE ServerEnds \/ Interrupted \/ Ended \/ Gather \/ CloseClient \/ Restart
      BY <2>1, <3>5 DEF ServerEnds, Interrupted, Ended, Gather, CloseClient, Restart
    <3> QED
      BY <2>9, <3>1, <3>2, <3>3, <3>4, <3>5 DEF ProcessStep, Shutdown
  <2> QED
    BY <2>2, <2>3, <2>4, <2>5, <2>6, <2>7, <2>8, <2>9, <2>10 DEF Next, JobStep
<1> QED
  BY Invariance, <1>1, PTL DEF Spec, NobodyHeldUp
=============================================================================
