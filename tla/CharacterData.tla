--------------------------- MODULE CharacterData ---------------------------
(***************************************************************************)
(* Whom a comparison compares, and what it shows of each: the main         *)
(* character of a member, the targets named by member, by nickname or not  *)
(* at all, the figures fetched for each of them, and the order of the      *)
(* rows.  One server's registered characters are a table in the order the  *)
(* database returns them.  The challengers' realm is switched off in the   *)
(* code, so that every character is in the realm asked for.                *)
(***************************************************************************)
EXTENDS Integers, SequencesExt, FiniteSetsExt

CONSTANTS
  User,
  Ocid,
  Nick,
  WideCap,         \* MAX_UNSPECIFIED_TARGETS: 10
  WeeklyDays       \* WEEKLY_DAYS: 7

Guest == "guest"
NoTarget == [user |-> "", ocid |-> ""]
NoPin == "none"
Target == [user : User \cup {Guest}, ocid : Ocid]
Character == [user : User, ocid : Ocid, nick : Nick, level : Nat \cup {-1}, created : Nat]

ToTarget(c) == [user |-> c.user, ocid |-> c.ocid]
Ocids(targets) == {targets[i].ocid : i \in DOMAIN targets}
Users(targets) == {targets[i].user : i \in DOMAIN targets}

-----------------------------------------------------------------------------
(* Lists *)

(* sorted: the entries at some places of a list, the lowest key first,     *)
(* equal ones in their order.                                              *)
Place(I, key, i) == Cardinality({j \in I : key[j] < key[i] \/ (key[j] = key[i] /\ j <= i)})
Arranged(s, I, key) == [n \in 1 .. Cardinality(I) |-> s[CHOOSE i \in I : Place(I, key, i) = n]]

(* The entries at some places as they come. *)
Entries(s, I) == Arranged(s, I, [i \in I |-> 0])

(* Each once, at its first place. *)
FirstPlaces(s) == Entries(s, {i \in DOMAIN s : \A j \in 1 .. i - 1 : s[j] # s[i]})

-----------------------------------------------------------------------------
(* Whom to compare *)

(* _auto_key: the highest level, the oldest row.  Rows that agree in both  *)
(* are told apart by the ocid, which is any fixed choice.                  *)
Ahead(c, d) == c.level > d.level \/ (c.level = d.level /\ c.created <= d.created)

PickRepresentative(characters, pin) ==
  LET pinned == {c \in characters : c.ocid = pin}
  IN CHOOSE c \in IF pinned # {} THEN pinned ELSE characters :
       \A d \in characters : c.ocid = pin \/ Ahead(c, d)

OwnedBy(table, u) == {table[i] : i \in {j \in DOMAIN table : table[j].user = u}}

(* get_targets: the main character of everybody, or of those named, in the *)
(* order named, where it was named last.                                   *)
GetTargets(table, pin, users) ==
  LET owners == [i \in DOMAIN table |-> table[i].user]
      wanted == IF users = <<>> THEN FirstPlaces(owners)
                ELSE Entries(users, {i \in DOMAIN users :
                                       /\ users[i] \in Range(owners)
                                       /\ \A j \in i + 1 .. Len(users) : users[j] # users[i]})
  IN [i \in DOMAIN wanted |-> ToTarget(PickRepresentative(OwnedBy(table, wanted[i]), pin[wanted[i]]))]

(* Who is named and not registered is a row of failures. *)
ResolveTargets(table, pin, users) ==
  LET targets == GetTargets(table, pin, users)
  IN [targets |-> targets, missing |-> Entries(users, {i \in DOMAIN users : users[i] \notin Users(targets)})]

(* The first registered character of a nickname, by member and ocid. *)
MatchNickname(table, n) ==
  LET rows == {c \in Range(table) : c.nick = n}
  IN IF rows = {} THEN NoTarget ELSE ToTarget(CHOOSE c \in rows : TRUE)

(* Any other nickname is one that Nexon knows, a guest, or a failure.       *)
Nicknamed(table, names, found) ==
  [i \in DOMAIN names |-> IF MatchNickname(table, names[i]) # NoTarget
                          THEN MatchNickname(table, names[i]) ELSE found[names[i]]]

(* A character that is in already, or comes in by an earlier nickname, is   *)
(* not taken again.                                                        *)
ResolveMixed(table, pin, users, names, found) ==
  LET first == IF users = <<>> /\ names # <<>> THEN [targets |-> <<>>, missing |-> <<>>]
               ELSE ResolveTargets(table, pin, users)
      named == Nicknamed(table, names, found)
      unknown == {i \in DOMAIN names : named[i] = NoTarget}
      fresh == {i \in DOMAIN names \ unknown :
                  /\ named[i].ocid \notin Ocids(first.targets)
                  /\ \A j \in 1 .. i - 1 : named[j].ocid # named[i].ocid}
  IN [targets |-> first.targets \o Entries(named, fresh),
      missing |-> first.missing \o Entries(names, unknown)]

(* parse_nicknames: each nickname once. *)
ParseNicknames(raw) == FirstPlaces(raw)

(* select_with_self: the author first, the others drawn by lot. *)
SelectWithSelf(targets, self, cap) ==
  IF Len(targets) <= cap THEN {targets}
  ELSE LET mine   == Entries(targets, {i \in DOMAIN targets : targets[i].user = self})
           others == {targets[i] : i \in {j \in DOMAIN targets : targets[j].user # self}}
       IN {mine \o s : s \in UNION {SetToSeqs(S) : S \in kSubset(cap - Len(mine), others)}}

(* The characters of one member by level, or those named, each once.       *)
(* Equal levels stay in the order of the table, which is any fixed choice. *)
MyTargets(table, author, ocids) ==
  LET mine == {i \in DOMAIN table : table[i].user = author}
      sorted == Arranged(table, mine, [i \in mine |-> -table[i].level])
      named == Entries(ocids, {i \in DOMAIN ocids :
                                 /\ \E j \in mine : table[j].ocid = ocids[i]
                                 /\ \A j \in 1 .. i - 1 : ocids[j] # ocids[i]})
  IN IF ocids = <<>> THEN [i \in DOMAIN sorted |-> ToTarget(sorted[i])]
     ELSE [i \in DOMAIN named |-> [user |-> author, ocid |-> named[i]]]

-----------------------------------------------------------------------------
(* What is fetched for a target: a figure, no figure, or a failure *)

None == -1        \* answered, but without the figure
NotReady == -2    \* Nexon has no data of that day
Raised == -3      \* any other error
Ok(figure) == figure >= None

(* Of a day that is past the combat power is kept for good. *)
FetchCombatPowerOn(kept, answer) ==
  IF kept # None THEN kept ELSE IF answer = NotReady THEN None ELSE answer
Kept(kept, answer) == IF kept = None /\ answer > None THEN answer ELSE kept

(* The highest of the last answer and the days before, as far as known. *)
FetchWeeklyMaxPower(latest, kept, days) ==
  Max({latest, None} \cup
      {FetchCombatPowerOn(kept[d], days[d]) : d \in {e \in 1 .. WeeklyDays : kept[e] # None \/ days[e] # Raised}})

(* fetch_spec: six calls, of which none may fail. *)
FetchSpec(a) == IF a.basic = Raised THEN Raised ELSE a.power

(* The union of yesterday, of the day before if that is not ready or       *)
(* blank; only if neither is ready it fails.                               *)
UnionLatest(d1, d2) ==
  IF d1 > None \/ d1 = Raised THEN d1
  ELSE IF d2 # NotReady THEN d2
  ELSE d1

(* The champions are asked for when the union was answered. *)
FetchUnion(a) ==
  IF Ok(UnionLatest(a.union[1], a.union[2])) /\ a.champion = Raised THEN Raised
  ELSE UnionLatest(a.union[1], a.union[2])

FetchItem(a) == a.item

(* What Nexon may answer for a character. *)
AnswerType ==
  [basic : {None, Raised}, power : Nat \cup {None}, days : [1 .. WeeklyDays -> Nat \cup {None, NotReady, Raised}],
   union : [1 .. 2 -> Nat \cup {None, NotReady, Raised}], champion : {None, Raised},
   item : {None, Raised} \cup Nat]

-----------------------------------------------------------------------------
(* The rows of a tab *)

(* From the highest figure down. *)
Ranked(people, figure) ==
  Arranged(people, DOMAIN people, [i \in DOMAIN people |-> -figure[people[i]]])

(* The author's own first, the others in their order. *)
SelfFirst(people, self) ==
  Arranged(people, DOMAIN people, [i \in DOMAIN people |-> IF people[i].user = self THEN 0 ELSE 1])

Page(people, outcome, missing, notes) ==
  [people |-> people, failed |-> {t \in DOMAIN outcome : ~Ok(outcome[t])}, missing |-> missing,
   notes |-> IF people = <<>> THEN {} ELSE notes]

Successes(targets, outcome) == Entries(targets, {i \in DOMAIN targets : Ok(outcome[targets[i]])})

(* A single target is shown without a comparison, and without its week. *)
Compared(targets, missing) == Len(targets) + Len(missing) > 1

BuildSpecMessage(targets, missing, notes, answers, kept) ==
  LET outcome == [t \in Range(targets) |-> FetchSpec(answers[t.ocid])]
      weekly == [t \in Range(targets) |-> FetchWeeklyMaxPower(outcome[t], kept[t.ocid], answers[t.ocid].days)]
      people == Successes(targets, outcome)
  IN Page(IF Compared(targets, missing) THEN Ranked(people, weekly) ELSE people, outcome, missing, notes)

(* What is kept when the spec tab was built. *)
KeptWith(targets, missing, answers, kept) ==
  IF ~Compared(targets, missing) THEN kept
  ELSE [o \in Ocid |->
          IF \E t \in Range(targets) : t.ocid = o /\ Ok(FetchSpec(answers[o]))
          THEN [d \in 1 .. WeeklyDays |-> Kept(kept[o][d], answers[o].days[d])]
          ELSE kept[o]]

BuildItemMessage(targets, missing, notes, answers, self) ==
  LET outcome == [t \in Range(targets) |-> FetchItem(answers[t.ocid])]
  IN Page(SelfFirst(Successes(targets, outcome), self), outcome, missing, notes)

BuildUnionMessage(targets, missing, notes, answers) ==
  LET outcome == [t \in Range(targets) |-> FetchUnion(answers[t.ocid])]
      level == [t \in Range(targets) |-> IF outcome[t] = 0 THEN None ELSE outcome[t]]
      people == Successes(targets, outcome)
  IN Page(IF Compared(targets, missing) THEN Ranked(people, level) ELSE people, outcome, missing, notes)
=============================================================================
