------------------------------ MODULE Homework ------------------------------
(***************************************************************************)
(* The homework of one character as the in-game scheduler reports it: what *)
(* is read from the answer, the category of every item, what a filter of   *)
(* the four buckets leaves, and the card that is drawn from it, down to    *)
(* its height.  A list of the answer is a set of items told apart by their *)
(* names; the order of the rows, the texts and the colours are left out.   *)
(***************************************************************************)
EXTENDS Integers, Sequences, FiniteSets

CONSTANTS
  Name,        \* names of contents and bosses
  GuildName    \* those that begin with the guild prefix

-----------------------------------------------------------------------------
(* The filter: four buckets, any of which a member may hide *)

Bucket == {"daily", "weekly", "boss", "guild"}
Choice == {"on", "off", "unset"}

(* A call of /스케줄러 declares the whole filter anew. *)
ParseOndemand(choice) == {b \in Bucket : choice[b] = "off"}

(* The reminder keeps what the call does not mention. *)
MergeExcluded(stored, choice) ==
  {b \in Bucket : choice[b] = "off" \/ (choice[b] = "unset" /\ b \in stored)}

IsAllExcluded(excluded) == Bucket \subseteq excluded

(* The stored form: the hidden buckets in a fixed order, NULL for none.    *)
(* A token that is no bucket is dropped when it is read.                   *)
Null == <<"null">>
Token(bucket, excluded) == IF bucket \in excluded THEN <<bucket>> ELSE <<>>
ToCsv(excluded) ==
  IF excluded = {} THEN Null
  ELSE Token("daily", excluded) \o Token("weekly", excluded)
       \o Token("boss", excluded) \o Token("guild", excluded)
FromCsv(value) == IF value = Null THEN {} ELSE {value[i] : i \in DOMAIN value} \cap Bucket

-----------------------------------------------------------------------------
(* The answer of Nexon.  Counts may be missing or no number. *)

NoNumber == -1
ToInt(value) == IF value = NoNumber THEN 0 ELSE value

(* Only what the player put on the scheduler in the game is homework. *)
ParseContents(list) ==
  {[name |-> raw.name, now |-> ToInt(raw.now), max |-> ToInt(raw.max),
    type |-> raw.type, quest |-> raw.quest] : raw \in {r \in list : r.registered}}

ParseBosses(list) ==
  {[name |-> raw.name, done |-> raw.complete, cycle |-> raw.cycle] :
     raw \in {r \in list : r.registered}}

ParseHomework(data) ==
  [daily |-> ParseContents(data.daily), weekly |-> ParseContents(data.weekly),
   boss |-> ParseBosses(data.boss), challengers |-> data.challengers]

ContentItem ==
  [name : Name, now : Nat, max : Nat, type : {"contents", "quest"},
   quest : {"", "0", "1", "2"}]
BossItem ==
  [name : Name, done : BOOLEAN,
   cycle : {"bossWeekly", "bossDaily", "bossMonthly", ""}]
HomeworkType ==
  {hw \in [daily : SUBSET ContentItem, weekly : SUBSET ContentItem,
           boss : SUBSET BossItem, challengers : BOOLEAN] :
     IsFiniteSet(hw.daily) /\ IsFiniteSet(hw.weekly) /\ IsFiniteSet(hw.boss)}

(* The same lists as they come. *)
RawContent ==
  [name : Name, now : Nat \cup {NoNumber}, max : Nat \cup {NoNumber},
   type : {"contents", "quest"}, quest : {"", "0", "1", "2"}, registered : BOOLEAN]
RawBoss ==
  [name : Name, complete : BOOLEAN,
   cycle : {"bossWeekly", "bossDaily", "bossMonthly", ""}, registered : BOOLEAN]
DataType ==
  {data \in [daily : SUBSET RawContent, weekly : SUBSET RawContent,
             boss : SUBSET RawBoss, challengers : BOOLEAN] :
     IsFiniteSet(data.daily) /\ IsFiniteSet(data.weekly) /\ IsFiniteSet(data.boss)}

-----------------------------------------------------------------------------
(* ContentItem *)

Category(c) ==
  IF c.type = "quest" THEN "quest"
  ELSE IF c.name \in GuildName THEN "guild"
  ELSE IF c.max > 1 THEN "count"
  ELSE "binary"

(* A quest that cannot be done yet is neither shown nor counted. *)
Locked(c) == c.type = "quest" /\ c.quest = "0"

Done(c) ==
  \/ Category(c) = "quest" /\ c.quest = "2"
  \/ Category(c) = "count" /\ c.now >= c.max
  \/ Category(c) = "binary" /\ c.now > 0

InProgress(c) == Category(c) = "count" /\ 0 < c.now /\ c.now < c.max

CountsLocked(c) == Category(c) # "guild"
Counts(c) == ~Locked(c) /\ Category(c) # "guild"

ByCategory(items, categories) ==
  {c \in items : Category(c) \in categories /\ ~Locked(c)}

KnownCycle == {"bossWeekly", "bossDaily", "bossMonthly"}
BossesByCycle(bosses, cycle) == {b \in bosses : b.cycle = cycle}
BossesOtherCycle(bosses) == {b \in bosses : b.cycle \notin KnownCycle}

(* How many of the items that count are done, and how many there are. *)
FieldCounts(items) ==
  LET active == {c \in items : ~Locked(c)}
  IN [done |-> Cardinality({c \in active : Done(c)}), total |-> Cardinality(active)]
BossCounts(bosses) ==
  [done |-> Cardinality({b \in bosses : b.done}), total |-> Cardinality(bosses)]

(* The headline of a card: done and total over the buckets shown.  A daily *)
(* and a weekly item are two items though they may look the same.          *)
VisibleRemaining(hw, excluded) ==
  LET daily  == IF "daily" \in excluded THEN {} ELSE {c \in hw.daily : Counts(c)}
      weekly == IF "weekly" \in excluded THEN {} ELSE {c \in hw.weekly : Counts(c)}
      bosses == IF "boss" \in excluded THEN {} ELSE hw.boss
  IN [done  |-> Cardinality({c \in daily : Done(c)}) + Cardinality({c \in weekly : Done(c)})
                + Cardinality({b \in bosses : b.done}),
      total |-> Cardinality(daily) + Cardinality(weekly) + Cardinality(bosses)]

(* is_empty_filtered: no card is sent. *)
IsEmptyFiltered(hw, excluded) ==
  /\ "daily" \in excluded \/ ByCategory(hw.daily, {"quest", "count", "binary"}) = {}
  /\ "weekly" \in excluded \/ ByCategory(hw.weekly, {"quest", "count", "binary"}) = {}
  /\ "guild" \in excluded
     \/ ByCategory(hw.daily, {"guild"}) \cup ByCategory(hw.weekly, {"guild"}) = {}
  /\ "boss" \in excluded \/ hw.boss = {}

-----------------------------------------------------------------------------
(* The sections of the card, in the order they are drawn; an empty one is  *)
(* not.  A guild item of the day and one of the week are two rows.         *)

Shown(bucket, excluded, items) == IF bucket \in excluded THEN {} ELSE items

ContentSections(hw, ex) ==
  <<Shown("daily", ex, ByCategory(hw.daily, {"quest"})),
    Shown("daily", ex, ByCategory(hw.daily, {"count", "binary"})),
    Shown("weekly", ex, ByCategory(hw.weekly, {"quest"})),
    Shown("weekly", ex, ByCategory(hw.weekly, {"binary", "count"}))>>

GuildSection(hw, ex) ==
  <<Shown("guild", ex, ByCategory(hw.daily, {"guild"})),
    Shown("guild", ex, ByCategory(hw.weekly, {"guild"}))>>

BossSections(hw, ex) ==
  <<Shown("boss", ex, BossesByCycle(hw.boss, "bossWeekly")),
    Shown("boss", ex, BossesByCycle(hw.boss, "bossDaily")),
    Shown("boss", ex, BossesByCycle(hw.boss, "bossMonthly")),
    Shown("boss", ex, BossesOtherCycle(hw.boss))>>

(* The rows of a content section: those in progress with a gauge, then     *)
(* what is to do, then what is done.                                       *)
GaugeRows(items) == {c \in items : InProgress(c)}
TodoRows(items) == {c \in items : ~Done(c) /\ ~InProgress(c)}
DoneRows(items) == {c \in items : Done(c)}

-----------------------------------------------------------------------------
(* The height of the card, in pixels *)

Margin == 16
Pad == 44
RowHeight == 42
BossRowHeight == 38
HeaderHeight == 46

ContentHeight(items) ==
  IF items = {} THEN 0
  ELSE HeaderHeight + (RowHeight + 8) * Cardinality(GaugeRows(items))
       + RowHeight * Cardinality(TodoRows(items))
       + RowHeight * Cardinality(DoneRows(items)) + 8

GuildHeight(section) ==
  IF section[1] = {} /\ section[2] = {} THEN 0
  ELSE HeaderHeight + (RowHeight + 8) * (Cardinality(section[1]) + Cardinality(section[2])) + 8

BossRows(n) == (n + 1) \div 2

BossHeight(bosses) ==
  IF bosses = {} THEN 0
  ELSE HeaderHeight + BossRows(Cardinality(bosses)) * BossRowHeight + 12

DrawHeader(hw) == IF hw.challengers THEN 94 ELSE 66
DrawProgress == 48 + 40
Divider == 24
DrawSections(c, guild, b) ==
  ContentHeight(c[1]) + ContentHeight(c[2]) + ContentHeight(c[3]) + ContentHeight(c[4])
  + GuildHeight(guild)
  + BossHeight(b[1]) + BossHeight(b[2]) + BossHeight(b[3]) + BossHeight(b[4])
DrawFooter == Divider + 40

(* Where the drawing ends. *)
FinalHeight(hw, ex) ==
  Margin + Pad + DrawHeader(hw) + DrawProgress + Divider
  + DrawSections(ContentSections(hw, ex), GuildSection(hw, ex), BossSections(hw, ex))
  + DrawFooter + Pad - 16

HeaderPerBucket(hw) ==
  300 + 4 * HeaderHeight + (Cardinality(hw.daily) + Cardinality(hw.weekly)) * 50
  + BossRows(Cardinality(hw.boss)) * BossRowHeight + 300

(* _estimate_height: the canvas is made before anything is drawn. *)
EstimateHeight(hw) ==
  300 + 9 * HeaderHeight + (Cardinality(hw.daily) + Cardinality(hw.weekly)) * 50
  + BossRows(Cardinality(hw.boss)) * BossRowHeight + 300

-----------------------------------------------------------------------------
(* What is drawn, added up *)

ContentDone(c) ==
  FieldCounts(c[1]).done + FieldCounts(c[2]).done + FieldCounts(c[3]).done + FieldCounts(c[4]).done
ContentTotal(c) ==
  FieldCounts(c[1]).total + FieldCounts(c[2]).total + FieldCounts(c[3]).total + FieldCounts(c[4]).total
BossDone(b) ==
  BossCounts(b[1]).done + BossCounts(b[2]).done + BossCounts(b[3]).done + BossCounts(b[4]).done
BossTotal(b) ==
  BossCounts(b[1]).total + BossCounts(b[2]).total + BossCounts(b[3]).total + BossCounts(b[4]).total

NoSections(hw, ex) ==
  /\ \A i \in 1 .. 4 : ContentSections(hw, ex)[i] = {} /\ BossSections(hw, ex)[i] = {}
  /\ \A i \in 1 .. 2 : GuildSection(hw, ex)[i] = {}

(* The headline says what the sections under it add up to, and a character *)
(* is passed over exactly when its card would have no section.             *)
Honest(hw, ex) ==
  /\ VisibleRemaining(hw, ex) =
       [done  |-> ContentDone(ContentSections(hw, ex)) + BossDone(BossSections(hw, ex)),
        total |-> ContentTotal(ContentSections(hw, ex)) + BossTotal(BossSections(hw, ex))]
  /\ IsEmptyFiltered(hw, ex) <=> NoSections(hw, ex)

(* Nothing is drawn below the canvas and cut off. *)
Fits(hw, ex) == FinalHeight(hw, ex) <= EstimateHeight(hw)
=============================================================================
