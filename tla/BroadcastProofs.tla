-------------------------- MODULE BroadcastProofs --------------------------
(***************************************************************************)
(* Theorems about the two components that the scheduler wakes to broadcast *)
(* on their own: Sunday, for every set of channels, users and requests and *)
(* any number of weeks, and Leaderboard, for any number of characters,     *)
(* builders and days, any period, step, window and retention.  They share  *)
(* no state.                                                               *)
(***************************************************************************)
EXTENDS Sunday, Leaderboard, TLAPS

-----------------------------------------------------------------------------
(* The Sunday announcement.  That nobody is announced to twice follows     *)
(* from the schedule alone; what the marker promises is a matter of the    *)
(* weeks that the broadcasts under way were sent in and are going to mark. *)

(* The automatic job of this week is still to be fired. *)
ToCome == day = "early" \/ (day = "friday" /\ up /\ due = week)

Unsent(w) == \A r \in Recipient : automatic[r][w] = 0

(* Where the schedule of a running bot stands. *)
OnTime ==
  up => /\ day = "early" => due = week
        /\ day = "friday" => due \in {week, week + 1}
        /\ day = "late" => due = week + 1

Schedule ==
  /\ OneAutomaticPerWeek
  /\ \A w \in Week : week < w => Unsent(w)
  /\ OnTime
  /\ ToCome => auto = NoAuto /\ Unsent(week)
  /\ auto # NoAuto => up
  /\ auto.stage = "read" => Unsent(week)
  /\ \A r \in auto.left : automatic[r][week] = 0

(* A broadcast is going to mark the current week only if the week is served *)
(* or has found it on its way.                                             *)
Punctual(q) ==
  /\ manual[q].stage = "send" /\ manual[q].sent => week \in served \cup carried
  /\ manual[q].stage = "mark" =>
       manual[q].week <= week /\ (manual[q].week = week => week \in served \cup carried)

Shared ==
  /\ marker <= week
  /\ \A w \in byHand : w <= week
  /\ MarkedWeekServed
  /\ week \in byHand => marker = week /\ auto = NoAuto
  /\ \A q \in Request : Punctual(q)

-----------------------------------------------------------------------------
LEMMA WeekFact == /\ MaxWeek \in Nat
                  /\ Week \subseteq Nat \ {0}
                  /\ Week \subseteq 0 .. MaxWeek
  BY SundayAssumption DEF Week

LEMMA JobFacts ==
  /\ NoAuto \in AutoJob
  /\ NoManual \in ManualJob
  /\ \A L \in SUBSET Recipient : [stage |-> "read", left |-> L] \in AutoJob
  /\ \A L \in SUBSET Recipient : [stage |-> "fetch", left |-> L] \in AutoJob
  /\ \A L \in SUBSET Recipient : [stage |-> "send", left |-> L] \in AutoJob
  /\ \A L \in SUBSET Channel, b \in BOOLEAN : Sending(L, b) \in ManualJob
  BY WeekFact DEF NoAuto, NoManual, AutoJob, ManualJob, Sending, NoWeek, Week

LEMMA CountMoves ==
  ASSUME automatic \in [Recipient -> [Week -> Nat]], week \in Week,
         NEW r \in Recipient,
         automatic' = [automatic EXCEPT ![r][week] = @ + 1]
  PROVE  /\ automatic' \in [Recipient -> [Week -> Nat]]
         /\ automatic'[r][week] = automatic[r][week] + 1
         /\ \A s \in Recipient, w \in Week :
              s # r \/ w # week => automatic'[s][w] = automatic[s][w]
  OBVIOUS

(* The variables hold values of their types after every step. *)
LEMMA TypeNext == ASSUME SundayTypeOK, [SundayNext]_sundayVars PROVE SundayTypeOK'
<1> USE WeekFact
<1>1. CASE TenPastTen
  BY <1>1 DEF SundayTypeOK, TenPastTen, jobs, ghosts
<1>2. CASE FridayEnds
  BY <1>2 DEF SundayTypeOK, FridayEnds, jobs, ghosts
<1>3. CASE Monday
  <2>1. week + 1 \in Week
    BY <1>3 DEF SundayTypeOK, Monday, Week
  <2> QED
    BY <1>3, <2>1 DEF SundayTypeOK, Monday, jobs
<1>4. CASE Crash
  BY <1>4, JobFacts DEF SundayTypeOK, Crash, ghosts
<1>5. CASE Boot
  BY <1>5 DEF SundayTypeOK, Boot, NextFire, jobs, ghosts, Week
<1>6. ASSUME NEW r \in Recipient, Toggle(r) PROVE SundayTypeOK'
  BY <1>6 DEF SundayTypeOK, Toggle, jobs, ghosts
<1>7. CASE Fire
  <2>1. auto' \in AutoJob
    BY <1>7, JobFacts DEF Fire, NoAuto
  <2> QED
    BY <1>7, <2>1 DEF SundayTypeOK, Fire, Week
<1>8. CASE ReadRecipients
  BY <1>8, JobFacts DEF SundayTypeOK, ReadRecipients, world, ghosts
<1>9. CASE NoEvents
  BY <1>9, JobFacts DEF SundayTypeOK, NoEvents, world, ghosts
<1>10. CASE Events
  <2>1. auto' \in AutoJob
    BY <1>10, JobFacts DEF SundayTypeOK, Events, AutoJob
  <2> QED
    BY <1>10, <2>1 DEF SundayTypeOK, Events, world, ghosts
<1>11. CASE AutoMark
  BY <1>11, JobFacts DEF SundayTypeOK, AutoMark, world
<1>16. CASE AutoRaises
  BY <1>16, JobFacts DEF SundayTypeOK, AutoRaises, world, ghosts
<1>12. ASSUME NEW r \in Recipient, AutoSend(r) PROVE SundayTypeOK'
  <2>1. auto' \in AutoJob
    BY <1>12, JobFacts DEF SundayTypeOK, AutoSend, AutoJob
  <2>2. automatic' \in [Recipient -> [Week -> Nat]]
    BY <1>12, CountMoves DEF SundayTypeOK, AutoSend
  <2> QED
    BY <1>12, <2>1, <2>2 DEF SundayTypeOK, AutoSend, world
<1>13. ASSUME NEW r \in Recipient, AutoSendFails(r) PROVE SundayTypeOK'
  <2>1. auto' \in AutoJob
    BY <1>13, JobFacts DEF SundayTypeOK, AutoSendFails, AutoJob
  <2> QED
    BY <1>13, <2>1 DEF SundayTypeOK, AutoSendFails, world, ghosts
<1>14. ASSUME NEW q \in Request, ManualStep(q) PROVE SundayTypeOK'
  <2>0. manual \in [Request -> ManualJob] /\ manual[q] \in ManualJob
    BY DEF SundayTypeOK
  <2>1. CASE ManualStart(q)
    <3>1. EnabledChannels \in SUBSET Channel
      BY DEF EnabledChannels
    <3>2. Sending(EnabledChannels, FALSE) \in ManualJob
      BY <3>1, JobFacts
    <3> QED
      BY <2>1, <3>2 DEF SundayTypeOK, ManualStart, world, ghosts
  <2>2. CASE ManualSent(q)
    <3>1. Sent(q) \in ManualJob
      BY JobFacts DEF SundayTypeOK, Sent, Marking, ManualJob
    <3> QED
      BY <2>2, <3>1 DEF SundayTypeOK, ManualSent, world, ghosts
  <2>3. CASE ManualMark(q)
    <3>1. manual[q].week \in 0 .. MaxWeek /\ manual[q].week \in Week \cup {0}
      BY <2>0 DEF ManualJob, Week
    <3>2. manual' \in [Request -> ManualJob]
      BY <2>3, JobFacts DEF SundayTypeOK, ManualMark
    <3>3. byHand' \subseteq 0 .. MaxWeek
      BY <2>3 DEF SundayTypeOK, ManualMark
    <3> QED
      BY <2>3, <3>1, <3>2, <3>3 DEF SundayTypeOK, ManualMark, world
  <2>4. ASSUME NEW c \in Channel, ManualSend(q, c) PROVE SundayTypeOK'
    <3>1. Sending(manual[q].left \ {c}, TRUE) \in ManualJob
      BY <2>0, JobFacts DEF ManualJob
    <3> QED
      BY <2>4, <3>1 DEF SundayTypeOK, ManualSend, world
  <2>5. ASSUME NEW c \in Channel, ManualSendFails(q, c) PROVE SundayTypeOK'
    <3>1. Sending(manual[q].left \ {c}, manual[q].sent) \in ManualJob
      BY <2>0, JobFacts DEF ManualJob
    <3> QED
      BY <2>5, <3>1 DEF SundayTypeOK, ManualSendFails, world, ghosts
  <2>6. CASE ManualRaises(q)
    BY <2>6, JobFacts DEF SundayTypeOK, ManualRaises, world, ghosts
  <2> QED
    BY <1>14, <2>1, <2>2, <2>3, <2>4, <2>5, <2>6 DEF ManualStep
<1>15. CASE UNCHANGED sundayVars
  BY <1>15 DEF SundayTypeOK, sundayVars
<1> QED
  BY <1>1, <1>2, <1>3, <1>4, <1>5, <1>6, <1>7, <1>8, <1>9, <1>10, <1>11, <1>12,
     <1>13, <1>14, <1>15, <1>16 DEF SundayNext, AutoStep

(* The schedule of the running bot, and what was announced under it. *)
LEMMA ScheduleNext == ASSUME SundayTypeOK, Schedule, [SundayNext]_sundayVars PROVE Schedule'
<1> USE WeekFact
<1>0. week \in Nat /\ week \in Week /\ due \in Nat
  BY DEF SundayTypeOK
<1>1. CASE TenPastTen
  BY <1>1 DEF Schedule, OneAutomaticPerWeek, Unsent, OnTime, ToCome,
              TenPastTen, jobs, ghosts
<1>2. CASE FridayEnds
  BY <1>2 DEF Schedule, OneAutomaticPerWeek, Unsent, OnTime, ToCome,
              FridayEnds, jobs, ghosts
<1>3. CASE Monday
  <2>1. week + 1 \in Week /\ week < week + 1
    BY <1>0, <1>3 DEF SundayTypeOK, Monday, Week
  <2>2. Unsent(week + 1)
    BY <2>1 DEF Schedule
  <2>3. Unsent(week)'
    BY <1>3, <2>2 DEF Monday, Unsent
  <2>4. ASSUME NEW w \in Week, week' < w PROVE Unsent(w)'
    <3>1. week' = week + 1 /\ automatic' = automatic
      BY <1>3 DEF Monday
    <3>2. week < w
      BY <1>0, <2>4, <3>1, WeekFact
    <3>3. Unsent(w)
      BY <2>4, <3>2 DEF Schedule
    <3> QED
      BY <3>1, <3>3 DEF Unsent
  <2>5. OnTime'
    BY <1>0, <1>3 DEF Monday, OnTime, Schedule
  <2>6. auto' = NoAuto /\ auto'.left = {} /\ auto'.stage # "read"
    BY <1>3 DEF Monday, NoAuto, jobs
  <2>7. OneAutomaticPerWeek'
    BY <1>3 DEF Monday, OneAutomaticPerWeek, Schedule
  <2> QED
    BY <2>3, <2>4, <2>5, <2>6, <2>7 DEF Schedule
<1>4. CASE Crash
  BY <1>4 DEF Schedule, OneAutomaticPerWeek, Unsent, OnTime, ToCome,
              Crash, NoAuto, ghosts
<1>5. CASE Boot
  <2>1. OnTime'
    BY <1>0, <1>5 DEF Boot, NextFire, OnTime
  <2>2. day # "early" => ~ToCome'
    BY <1>0, <1>5 DEF Boot, NextFire, ToCome
  <2>3. day = "early" => ToCome
    BY DEF ToCome
  <2> QED
    BY <1>5, <2>1, <2>2, <2>3 DEF Schedule, OneAutomaticPerWeek, Unsent, Boot, jobs, ghosts
<1>6. ASSUME NEW r \in Recipient, Toggle(r) PROVE Schedule'
  BY <1>6 DEF Schedule, OneAutomaticPerWeek, Unsent, OnTime, ToCome, Toggle, jobs, ghosts
<1>7. CASE Fire
  <2>1. ToCome /\ Unsent(week)
    BY <1>7 DEF Fire, ToCome, Schedule
  <2>2. auto'.left = {} /\ ~ToCome' /\ OnTime'
    BY <1>0, <1>7 DEF Fire, ToCome, OnTime
  <2> QED
    BY <1>7, <2>1, <2>2 DEF Schedule, OneAutomaticPerWeek, Unsent, Fire
<1>8. ASSUME auto # NoAuto, UNCHANGED <<world, automatic>>, auto'.stage # "read",
             \A r \in auto'.left : automatic[r][week] = 0
      PROVE  Schedule'
  <2>1. up /\ ~ToCome
    BY <1>8 DEF Schedule
  <2> QED
    BY <1>8, <2>1 DEF Schedule, OneAutomaticPerWeek, Unsent, OnTime, ToCome, world
<1>9. CASE ReadRecipients
  <2>1. Unsent(week) /\ auto # NoAuto
    BY <1>9 DEF ReadRecipients, Schedule, NoAuto
  <2>2. \A r \in auto'.left : automatic[r][week] = 0
    BY <1>9, <2>1 DEF SundayTypeOK, ReadRecipients, Unsent, NoAuto
  <2> QED
    BY <1>8, <1>9, <2>1, <2>2 DEF ReadRecipients, NoAuto, ghosts
<1>10. CASE NoEvents \/ Events \/ AutoMark
  BY <1>8, <1>10 DEF NoEvents, Events, AutoMark, NoAuto, Schedule, ghosts
<1>15. CASE AutoRaises
  <2>1. auto # NoAuto /\ UNCHANGED <<world, automatic>> /\ auto' = NoAuto
    BY <1>15 DEF AutoRaises, ghosts
  <2>2. auto'.stage # "read" /\ \A r \in auto'.left : automatic[r][week] = 0
    BY <2>1 DEF NoAuto
  <2> QED
    BY <1>8, <2>1, <2>2
<1>11. ASSUME NEW r \in Recipient, AutoSendFails(r) PROVE Schedule'
  <2>1. /\ auto # NoAuto /\ UNCHANGED <<world, automatic>>
        /\ auto' = [stage |-> "send", left |-> auto.left \ {r}]
    BY <1>11 DEF AutoSendFails, Turn, NoAuto, ghosts
  <2>2. auto'.stage # "read" /\ \A s \in auto'.left : automatic[s][week] = 0
    BY <2>1 DEF Schedule
  <2> QED
    BY <1>8, <2>1, <2>2
<1>12. ASSUME NEW r \in Recipient, AutoSend(r) PROVE Schedule'
  <2>1. /\ auto # NoAuto /\ auto.stage = "send" /\ r \in auto.left
        /\ auto' = [stage |-> "send", left |-> auto.left \ {r}]
        /\ automatic' = [automatic EXCEPT ![r][week] = @ + 1]
        /\ UNCHANGED <<week, day, due, up>>
    BY <1>12 DEF AutoSend, Turn, NoAuto, world
  <2>2. /\ automatic' \in [Recipient -> [Week -> Nat]]
        /\ automatic'[r][week] = automatic[r][week] + 1
        /\ \A s \in Recipient, w \in Week :
             s # r \/ w # week => automatic'[s][w] = automatic[s][w]
    BY <1>0, <2>1, CountMoves DEF SundayTypeOK
  <2>3. up /\ ~ToCome /\ auto.left \subseteq Recipient
    BY <2>1 DEF Schedule, SundayTypeOK, AutoJob
  <2>4. automatic'[r][week] = 1
    BY <2>1, <2>2 DEF Schedule
  <2>5. OneAutomaticPerWeek'
    <3> SUFFICES ASSUME NEW s \in Recipient, NEW w \in Week PROVE automatic'[s][w] <= 1
      BY DEF OneAutomaticPerWeek
    <3>1. automatic[s][w] <= 1
      BY DEF Schedule, OneAutomaticPerWeek
    <3> QED
      BY <2>2, <2>4, <3>1
  <2>6. \A w \in Week : week' < w => Unsent(w)'
    BY <1>0, <2>1, <2>2 DEF Unsent, Schedule
  <2>7. \A s \in auto'.left : automatic'[s][week'] = 0
    BY <1>0, <2>1, <2>2, <2>3 DEF Schedule
  <2> QED
    BY <2>1, <2>3, <2>5, <2>6, <2>7 DEF Schedule, OnTime, ToCome
<1>13. ASSUME NEW q \in Request, ManualStep(q) PROVE Schedule'
  <2>1. UNCHANGED <<world, auto, automatic>>
    BY <1>13 DEF ManualStep, ManualStart, ManualSend, ManualSendFails, ManualSent,
                 ManualMark, ManualRaises, ghosts
  <2> QED
    BY <2>1 DEF Schedule, OneAutomaticPerWeek, Unsent, OnTime, ToCome, world
<1>14. CASE UNCHANGED sundayVars
  BY <1>14 DEF Schedule, OneAutomaticPerWeek, Unsent, OnTime, ToCome, sundayVars
<1> QED
  BY <1>1, <1>2, <1>3, <1>4, <1>5, <1>6, <1>7, <1>9, <1>10, <1>11, <1>12, <1>13, <1>14, <1>15
     DEF SundayNext, AutoStep

(* What the marker says of the current week. *)
LEMMA SharedNext == ASSUME SundayTypeOK, Shared, [SundayNext]_sundayVars PROVE Shared'
<1> USE WeekFact
<1>0. week \in Nat /\ week \in Week /\ marker \in Nat
  BY DEF SundayTypeOK
<1>1. CASE Monday
  <2>1. /\ week' = week + 1 /\ auto' = auto /\ auto = NoAuto
        /\ UNCHANGED <<marker, byHand, served, manual>>
        /\ \A q \in Request : manual[q].stage = "send" /\ manual[q].sent => week' \in carried'
    BY <1>1 DEF Monday, jobs
  <2>2. \A w \in byHand : w <= week /\ w \in Nat
    BY DEF SundayTypeOK, Shared
  <2>3. ASSUME NEW q \in Request PROVE Punctual(q)'
    <3>1. manual[q].week \in Nat
      BY DEF SundayTypeOK, ManualJob
    <3> QED
      BY <1>0, <2>1, <3>1 DEF Shared, Punctual
  <2> QED
    BY <1>0, <2>1, <2>2, <2>3 DEF Shared, MarkedWeekServed
<1>2. CASE Crash
  <2>1. \A q \in Request : Punctual(q)'
    BY <1>2 DEF Crash, Punctual, NoManual
  <2> QED
    BY <1>2, <2>1 DEF Crash, Shared, MarkedWeekServed, ghosts
<1>3. ASSUME UNCHANGED <<week, marker, manual, byHand, carried>>, served \subseteq served',
             auto' = NoAuto \/ auto # NoAuto \/ week \notin byHand
      PROVE  Shared'
  BY <1>3 DEF Shared, MarkedWeekServed, Punctual
<1>4. CASE TenPastTen \/ FridayEnds \/ Boot \/ \E r \in Recipient : Toggle(r)
  <2>1. UNCHANGED <<week, marker, auto, manual, byHand, served, carried>>
    BY <1>4 DEF TenPastTen, FridayEnds, Boot, Toggle, jobs, ghosts
  <2> QED
    BY <1>3, <2>1
<1>5. CASE Fire
  <2>1. week \in byHand => marker = week
    BY DEF Shared
  <2> QED
    BY <1>3, <1>5, <2>1 DEF Fire, AlreadySentThisWeek, NoAuto
<1>6. CASE ReadRecipients \/ NoEvents \/ Events \/ AutoRaises
  BY <1>3, <1>6 DEF ReadRecipients, NoEvents, Events, AutoRaises, NoAuto, world, ghosts
<1>7. ASSUME NEW r \in Recipient, AutoSend(r) \/ AutoSendFails(r) PROVE Shared'
  BY <1>3, <1>7 DEF AutoSend, AutoSendFails, Turn, NoAuto, world, ghosts
<1>8. CASE AutoMark
  <2>1. /\ UNCHANGED <<week, manual, byHand, carried>> /\ marker' = week /\ auto' = NoAuto
        /\ served' = served \cup {week}
    BY <1>8 DEF AutoMark, world
  <2> QED
    BY <1>0, <2>1 DEF Shared, MarkedWeekServed, Punctual
<1>9. ASSUME NEW q \in Request, ManualStep(q) PROVE Shared'
  <2>0. manual \in [Request -> ManualJob] /\ Punctual(q)
    BY DEF SundayTypeOK, Shared
  <2>1. ASSUME NEW m, manual' = [manual EXCEPT ![q] = m],
               UNCHANGED <<week, marker, auto, byHand, carried>>, served \subseteq served',
               m.stage = "send" /\ m.sent => week \in served' \cup carried,
               m.stage = "mark" => m.week = week /\ week \in served' \cup carried
        PROVE  Shared'
    <3>1. \A p \in Request : manual'[p] = IF p = q THEN m ELSE manual[p]
      BY <2>0, <2>1
    <3>2. \A p \in Request : Punctual(p)'
      BY <1>0, <2>1, <3>1 DEF Punctual, Shared
    <3> QED
      BY <2>1, <3>2 DEF Shared, MarkedWeekServed
  <2>2. CASE ManualStart(q)
    BY <2>1, <2>2 DEF ManualStart, Sending, world, ghosts
  <2>3. CASE ManualSent(q)
    <3>1. CASE manual[q].sent
      <4>1. Sent(q) = Marking
        BY <3>1 DEF Sent
      <4> QED
        BY <2>0, <2>1, <2>3, <3>1, <4>1 DEF ManualSent, Marking, Punctual, world, ghosts
    <3>2. CASE ~manual[q].sent
      <4>1. Sent(q) = NoManual
        BY <3>2 DEF Sent
      <4> QED
        BY <2>1, <2>3, <4>1 DEF ManualSent, NoManual, world, ghosts
    <3> QED
      BY <3>1, <3>2
  <2>4. CASE ManualMark(q)
    <3>1. /\ manual[q].week <= week /\ manual[q].week \in Nat
          /\ manual[q].week = week => week \in served \cup carried
          /\ manual' = [manual EXCEPT ![q] = NoManual]
          /\ UNCHANGED <<week, auto, served, carried>> /\ marker' = manual[q].week
      BY <2>0, <2>4 DEF ManualMark, Punctual, ManualJob, world
    <3>2. \A p \in Request : manual'[p] = IF p = q THEN NoManual ELSE manual[p]
      BY <2>0, <3>1
    <3>3. \A p \in Request : Punctual(p)'
      BY <3>1, <3>2 DEF Punctual, Shared, NoManual
    <3>4. CASE manual[q].week = week
      <4>1. byHand' = byHand \cup {w \in {week} : auto = NoAuto}
        BY <2>4, <3>4 DEF ManualMark
      <4> QED
        BY <1>0, <3>1, <3>3, <3>4, <4>1 DEF Shared, MarkedWeekServed
    <3>5. CASE manual[q].week # week
      <4>1. byHand' = byHand \ {week}
        BY <2>4, <3>5 DEF ManualMark
      <4> QED
        BY <1>0, <3>1, <3>3, <3>5, <4>1 DEF Shared, MarkedWeekServed
    <3> QED
      BY <3>4, <3>5
  <2>5. ASSUME NEW c \in Channel, ManualSend(q, c) PROVE Shared'
    BY <2>1, <2>5 DEF ManualSend, Sending, world
  <2>6. ASSUME NEW c \in Channel, ManualSendFails(q, c) PROVE Shared'
    BY <2>0, <2>1, <2>6 DEF ManualSendFails, Sending, Punctual, world, ghosts
  <2>7. CASE ManualRaises(q)
    BY <2>1, <2>7 DEF ManualRaises, NoManual, world, ghosts
  <2> QED
    BY <1>9, <2>2, <2>3, <2>4, <2>5, <2>6, <2>7 DEF ManualStep
<1>10. CASE UNCHANGED sundayVars
  BY <1>3, <1>10 DEF sundayVars
<1> QED
  BY <1>1, <1>2, <1>4, <1>5, <1>6, <1>7, <1>8, <1>9, <1>10 DEF SundayNext, AutoStep

-----------------------------------------------------------------------------
LEMMA InitFacts == SundayInit => SundayTypeOK /\ Schedule /\ Shared
<1> USE WeekFact
<1> SUFFICES ASSUME SundayInit PROVE SundayTypeOK /\ Schedule /\ Shared
  OBVIOUS
<1>1. SundayTypeOK
  BY SundayAssumption, JobFacts DEF SundayInit, SundayTypeOK, NoWeek, Week
<1>2. Schedule
  <2>1. \A r \in Recipient, w \in Week : automatic[r][w] = 0
    BY DEF SundayInit
  <2>2. 1 \in Week
    BY SundayAssumption DEF Week
  <2> QED
    BY <2>1, <2>2 DEF SundayInit, Schedule, OneAutomaticPerWeek, Unsent, OnTime, NoAuto
<1>3. Shared
  BY DEF SundayInit, Shared, MarkedWeekServed, Punctual, NoManual, NoWeek
<1> QED
  BY <1>1, <1>2, <1>3

(* The values of run_sunday_job, manual_broadcast_sunday and notice_state  *)
(* keep their types.                                                       *)
THEOREM SundayTypeCorrect == SundaySpec => []SundayTypeOK
  BY InitFacts, TypeNext, PTL DEF SundaySpec

(* However often the bot crashes and restarts, run_sunday_job announces a  *)
(* week at most once to each channel and each subscriber.                  *)
THEOREM AtMostOneAutomatic == SundaySpec => []OneAutomaticPerWeek
<1>1. SundayTypeOK /\ Schedule /\ [SundayNext]_sundayVars => (SundayTypeOK /\ Schedule)'
  BY TypeNext, ScheduleNext
<1>2. Schedule => OneAutomaticPerWeek
  BY DEF Schedule
<1> QED
  BY <1>1, <1>2, InitFacts, PTL DEF SundaySpec

LEMMA SharedInvariant == SundaySpec => [](SundayTypeOK /\ Shared)
<1>1. SundayTypeOK /\ Shared /\ [SundayNext]_sundayVars => (SundayTypeOK /\ Shared)'
  BY TypeNext, SharedNext
<1> QED
  BY <1>1, InitFacts, PTL DEF SundaySpec

(* A marked week is one somebody was sent to, one whose automatic job got  *)
(* to its end, or one whose Monday found on its way a broadcast that had   *)
(* reached somebody, although the week is taken only after the sends.      *)
THEOREM MarksAreHonest == SundaySpec => []MarkedWeekServed
<1>1. Shared => MarkedWeekServed
  BY DEF Shared
<1> QED
  BY <1>1, SharedInvariant, PTL

(* The automatic job is silent in a week that an operator announced and    *)
(* marked while no automatic job was running, until a broadcast that was   *)
(* late overwrites the mark with that of the week before.                  *)
THEOREM OperatorGoesFirst == SundaySpec => OperatorFirst
<1>1. SundayTypeOK /\ Shared /\ [SundayNext]_sundayVars =>
        [automatic' # automatic => week \notin byHand]_sundayVars
  <2> SUFFICES ASSUME SundayTypeOK, Shared, SundayNext, automatic' # automatic
               PROVE  week \notin byHand
    BY DEF sundayVars
  <2>1. PICK r \in Recipient : AutoSend(r)
    BY DEF SundayNext, TenPastTen, FridayEnds, Monday, Crash, Boot, Toggle, AutoStep, Fire,
       ReadRecipients, NoEvents, Events, AutoMark, AutoRaises, AutoSendFails, ManualStep,
       ManualStart, ManualSend, ManualSendFails, ManualSent, ManualMark, ManualRaises, ghosts
  <2>2. auto # NoAuto
    BY <2>1 DEF AutoSend, Turn, NoAuto
  <2> QED
    BY <2>2 DEF Shared
<1> QED
  BY <1>1, SharedInvariant, PTL DEF SundaySpec, OperatorFirst

-----------------------------------------------------------------------------
(* The experience ranking *)

(* A build that looks at the window of a day knows the day, one that ranks *)
(* or fills knows the reference date; the character under way is to be done. *)
Dated(b) ==
  /\ build[b].stage \in {"backfill", "refresh"} => build[b].day # NoDay
  /\ build[b].stage \in {"rank", "fill"} => build[b].ref # NoDay
  /\ build[b].todo \subseteq build[b].targets
  /\ build[b].at # NoOcid => /\ build[b].at \in build[b].todo
                              /\ build[b].stage \in {"backfill", "refresh", "fill"}

(* A filling asks for no more of a character it asked for in vain. *)
Stopped(b) ==
  build[b].stage = "fill" =>
    /\ \A x, y \in build[b].vain : x[1] = y[1] => x = y
    /\ \A x \in build[b].vain : x[1] \notin build[b].todo

(* The recent day d of o has been seen to by the backfill b. *)
SeenTo(b, o, d) ==
  d \in snapshot[o] \/ <<o, d>> \in build[b].vain \/ d < today - RETENTION_DAYS

Asked(b) ==
  build[b].stage = "backfill" =>
    \A o \in build[b].targets : \A d \in Window(build[b].day) :
      /\ o \notin build[b].todo => SeenTo(b, o, d)
      /\ o = build[b].at => d \in build[b].days \/ SeenTo(b, o, d)

(* What a character was shown for stays until it leaves the retention period. *)
Kept ==
  \A o \in Ocid : full[o] # NoDay =>
    \A d \in Sample(full[o]) : d >= today - RETENTION_DAYS => d \in snapshot[o]

Inv ==
  /\ TypeOK
  /\ \A b \in Builder : Dated(b) /\ Stopped(b) /\ Asked(b)
  /\ ShownForTheSameDay
  /\ Kept

(* Two reference dates sample the same days of the period they share, the  *)
(* reference dates apart: sample_dates is anchored to the calendar.        *)
THEOREM SamplesAgree ==
  ASSUME NEW r \in Int, NEW q \in Int, r <= q, NEW d \in Sample(q), d <= r
  PROVE  d \in Sample(r) \/ d = q
BY LeaderboardAssumption DEF Sample

LEMMA SampleFacts ==
  ASSUME NEW r \in Int
  PROVE  Sample(r) \subseteq Int /\ \A d \in Sample(r) : d <= r
BY LeaderboardAssumption DEF Sample

(* What the type invariant says of a build, field by field. *)
LEMMA BuildFacts ==
  ASSUME Inv
  PROVE  /\ today \in Int /\ FirstToday \in Int /\ MaxDay \in Int
         /\ RETENTION_DAYS \in Int /\ BACKFILL_DAYS \in Int
         /\ snapshot \in [Ocid -> SUBSET Int]
         /\ full \in [Ocid -> Int \cup {NoDay}]
         /\ \A b \in Builder :
              /\ build[b].targets \subseteq Ocid
              /\ build[b].todo \subseteq Ocid
              /\ build[b].at \in Ocid \cup {NoOcid}
              /\ build[b].days \subseteq Int
              /\ build[b].day \in Int \cup {NoDay}
              /\ build[b].ref \in Int \cup {NoDay}
              /\ build[b].vain \subseteq Ocid \X Int
<1>1. /\ today \in Int /\ FirstToday \in Int /\ MaxDay \in Int
      /\ RETENTION_DAYS \in Int /\ BACKFILL_DAYS \in Int
  BY LeaderboardAssumption DEF Inv, TypeOK
<1>2. (FirstToday .. today) \cup {NoDay} \subseteq Int \cup {NoDay}
  BY <1>1
<1> QED
  BY <1>1, <1>2 DEF Inv, TypeOK

(* The day or the reference date that a stage works with. *)
LEMMA StageFacts ==
  ASSUME Inv, NEW b \in Builder
  PROVE  /\ build[b].stage \in {"backfill", "refresh"} =>
              build[b].day \in Int /\ build[b].day \in FirstToday .. today
         /\ build[b].stage \in {"rank", "fill"} =>
              build[b].ref \in Int /\ build[b].ref < today
<1>1. build[b].day \in (FirstToday .. today) \cup {NoDay}
  BY DEF Inv, TypeOK
<1>2. build[b].ref \in Int \cup {NoDay} /\ (build[b].ref # NoDay => build[b].ref < today)
  BY DEF Inv, TypeOK
<1>3. Dated(b)
  BY DEF Inv
<1> QED
  BY <1>1, <1>2, <1>3, BuildFacts DEF Dated

(* The retention period only moves on. *)
LEMMA RetentionMovesOn ==
  ASSUME NEW d \in Int, NEW before \in Int, NEW after \in Int, NEW days \in Int,
         before <= after
  PROVE  /\ d < before - days => d < after - days
         /\ d >= after - days => d >= before - days
         /\ d < after - days \/ d >= after - days
OBVIOUS

(* What is seen to stays so while rows only leave with the retention period. *)
LEMMA StillSeenTo ==
  ASSUME NEW b \in Builder, NEW o \in Ocid, NEW d \in Int, SeenTo(b, o, d),
         today \in Int, today' \in Int, RETENTION_DAYS \in Int, today <= today',
         build[b].vain \subseteq build'[b].vain,
         d \in snapshot[o] /\ d >= today' - RETENTION_DAYS => d \in snapshot'[o]
  PROVE  SeenTo(b, o, d)'
<1>1. d < today - RETENTION_DAYS => d < today' - RETENTION_DAYS
  BY RetentionMovesOn
<1>2. d >= today' - RETENTION_DAYS \/ d < today' - RETENTION_DAYS
  BY RetentionMovesOn
<1> QED
  BY <1>1, <1>2 DEF SeenTo

LEMMA InitInv == Init => Inv
<1> SUFFICES ASSUME Init PROVE Inv
  OBVIOUS
<1>1. TypeOK
  BY LeaderboardAssumption DEF Init, TypeOK, Idle
<1>2. \A b \in Builder : Dated(b) /\ Stopped(b) /\ Asked(b)
  BY DEF Init, Idle, Dated, Stopped, Asked
<1>3. ShownForTheSameDay /\ Kept
  BY DEF Init, Idle, ShownForTheSameDay, Kept
<1> QED
  BY <1>1, <1>2, <1>3 DEF Inv

-----------------------------------------------------------------------------
(* The world *)

LEMMA WorldInv == ASSUME Inv, Midnight \/ PruneOldSnapshots PROVE Inv'
<1>0. /\ today \in FirstToday .. MaxDay /\ today \in Int /\ RETENTION_DAYS \in Int
      /\ snapshot \in [Ocid -> SUBSET Int]
      /\ FirstToday \in Int /\ MaxDay \in Int
  BY LeaderboardAssumption DEF Inv, TypeOK
<1>1. /\ build' = build /\ full' = full
      /\ today' \in FirstToday .. MaxDay /\ today' \in Int /\ today <= today'
      /\ snapshot' \in [Ocid -> SUBSET Int]
      /\ \A o \in Ocid : snapshot'[o] \subseteq snapshot[o]
      /\ \A o \in Ocid : \A d \in snapshot[o] :
           d >= today' - RETENTION_DAYS => d \in snapshot'[o]
  <2>1. CASE Midnight
    BY <1>0, <2>1 DEF Midnight
  <2>2. CASE PruneOldSnapshots
    BY <1>0, <2>2 DEF PruneOldSnapshots, Inv, TypeOK
  <2> QED
    BY <2>1, <2>2
<1>2. TypeOK'
  <2>1. \A b \in Builder : \A d \in build[b].days : d < today'
    <3> SUFFICES ASSUME NEW b \in Builder, NEW d \in build[b].days
                 PROVE  d < today'
      OBVIOUS
    <3>1. d \in Int /\ d < today
      BY BuildFacts DEF Inv, TypeOK
    <3> QED
      BY <1>0, <1>1, <3>1
  <2>2. \A o \in Ocid : \A d \in snapshot'[o] : d < today'
    <3> SUFFICES ASSUME NEW o \in Ocid, NEW d \in snapshot'[o]
                 PROVE  d < today'
      OBVIOUS
    <3>1. d \in Int /\ d < today
      BY <1>1 DEF Inv, TypeOK
    <3> QED
      BY <1>0, <1>1, <3>1
  <2>3. \A b \in Builder : build[b].ref # NoDay => build[b].ref < today'
    <3> SUFFICES ASSUME NEW b \in Builder, build[b].ref # NoDay
                 PROVE  build[b].ref < today'
      OBVIOUS
    <3>1. build[b].ref \in Int /\ build[b].ref < today
      BY BuildFacts DEF Inv, TypeOK
    <3> QED
      BY <1>0, <1>1, <3>1
  <2>4. (FirstToday .. today) \cup {NoDay} \subseteq (FirstToday .. today') \cup {NoDay}
    BY <1>0, <1>1
  <2> QED
    BY <1>1, <2>1, <2>2, <2>3, <2>4 DEF Inv, TypeOK
<1>3. ASSUME NEW b \in Builder PROVE (Dated(b) /\ Stopped(b) /\ Asked(b))'
  <2>1. (Dated(b) /\ Stopped(b))'
    BY <1>1 DEF Inv, Dated, Stopped
  <2>2. ASSUME build[b].stage = "backfill",
               NEW o \in build[b].targets, NEW d \in Window(build[b].day),
               SeenTo(b, o, d)
        PROVE  SeenTo(b, o, d)'
    <3>1. o \in Ocid
      BY BuildFacts
    <3>2. d \in Int
      BY StageFacts, <2>2, BuildFacts DEF Window
    <3>3. d \in snapshot[o] /\ d >= today' - RETENTION_DAYS => d \in snapshot'[o]
      BY <1>1, <3>1
    <3> QED
      BY <1>0, <1>1, <2>2, <3>1, <3>2, <3>3, StillSeenTo
  <2>3. Asked(b)
    BY DEF Inv
  <2> QED
    BY <1>1, <2>1, <2>2, <2>3 DEF Asked
<1>4. ShownForTheSameDay'
  <2> SUFFICES ASSUME NEW b \in Builder, build[b].stage = "fill",
                      build[b].ref >= today' - RETENTION_DAYS, NEW o \in build[b].targets
               PROVE  build[b].ref \in snapshot'[o]
    BY <1>1 DEF ShownForTheSameDay
  <2>1. build[b].ref \in Int /\ o \in Ocid
    BY BuildFacts, StageFacts
  <2>2. build[b].ref >= today - RETENTION_DAYS
    BY <1>0, <1>1, <2>1, RetentionMovesOn
  <2>3. build[b].ref \in snapshot[o]
    BY <2>2 DEF Inv, ShownForTheSameDay
  <2> QED
    BY <1>1, <2>1, <2>3
<1>5. Kept'
  <2> SUFFICES ASSUME NEW o \in Ocid, full[o] # NoDay, NEW d \in Sample(full[o]),
                      d >= today' - RETENTION_DAYS
               PROVE  d \in snapshot'[o]
    BY <1>1 DEF Kept, Sample
  <2>1. d \in Int
    BY SampleFacts, BuildFacts
  <2>2. d >= today - RETENTION_DAYS
    BY <1>0, <1>1, <2>1, RetentionMovesOn
  <2>3. d \in snapshot[o]
    BY <2>2 DEF Inv, Kept
  <2> QED
    BY <1>1, <2>3
<1> QED
  BY <1>2, <1>3, <1>4, <1>5 DEF Inv

-----------------------------------------------------------------------------
(* What a builder's step has to show: the rest of the invariant concerns   *)
(* builds it leaves alone and rows that only become more.                  *)

Build ==
  [stage   : {"idle", "backfill", "refresh", "rank", "fill"},
   targets : SUBSET Ocid,
   todo    : SUBSET Ocid,
   at      : Ocid \cup {NoOcid},
   days    : SUBSET Int,
   day     : (FirstToday .. today) \cup {NoDay},
   ref     : Int \cup {NoDay},
   vain    : SUBSET (Ocid \X Int)]

WellTyped(r) ==
  /\ r \in Build
  /\ \A d \in r.days : d < today
  /\ r.ref # NoDay => r.ref < today

LEMMA BecomeInv ==
  ASSUME Inv, NEW b \in Builder, NEW r, Become(b, r), WellTyped(r),
         today' = today,
         snapshot' \in [Ocid -> SUBSET Int],
         \A o \in Ocid : snapshot[o] \subseteq snapshot'[o],
         \A o \in Ocid : \A d \in snapshot'[o] : d < today,
         full' \in [Ocid -> Int \cup {NoDay}],
         Dated(b)', Stopped(b)', Asked(b)', Kept',
         r.stage = "fill" /\ r.ref >= today - RETENTION_DAYS =>
           \A o \in r.targets : r.ref \in snapshot'[o]
  PROVE  Inv'
<1>0. build \in [Builder -> Build]
  BY DEF Inv, TypeOK, Build
<1>1. /\ build'[b] = r
      /\ \A c \in Builder : c # b => build'[c] = build[c]
      /\ build' \in [Builder -> Build]
  BY <1>0 DEF Become, WellTyped
<1>2. TypeOK'
  <2>1. build' \in [Builder -> Build]'
    BY <1>1 DEF Build
  <2>2. ASSUME NEW c \in Builder
        PROVE  /\ \A d \in build'[c].days : d < today
               /\ build'[c].ref # NoDay => build'[c].ref < today
    <3>1. CASE c = b
      BY <1>1, <3>1 DEF WellTyped
    <3>2. CASE c # b
      BY <1>1, <3>2 DEF Inv, TypeOK
    <3> QED
      BY <3>1, <3>2
  <2>3. today' \in FirstToday .. MaxDay
    BY DEF Inv, TypeOK
  <2> QED
    BY <2>1, <2>2, <2>3 DEF TypeOK, Build
<1>3. ASSUME NEW c \in Builder, c # b PROVE (Dated(c) /\ Stopped(c) /\ Asked(c))'
  <2>1. build'[c] = build[c]
    BY <1>1, <1>3
  <2>2. (Dated(c) /\ Stopped(c))'
    BY <2>1 DEF Inv, Dated, Stopped
  <2>3. ASSUME build[c].stage = "backfill",
               NEW o \in build[c].targets, NEW d \in Window(build[c].day),
               SeenTo(c, o, d)
        PROVE  SeenTo(c, o, d)'
    <3>1. o \in Ocid
      BY BuildFacts
    <3> QED
      BY <2>1, <2>3, <3>1 DEF SeenTo
  <2>4. Asked(c)
    BY DEF Inv
  <2> QED
    BY <2>1, <2>2, <2>3, <2>4 DEF Asked
<1>4. ShownForTheSameDay'
  <2> SUFFICES ASSUME NEW c \in Builder, build'[c].stage = "fill",
                      build'[c].ref >= today - RETENTION_DAYS, NEW o \in build'[c].targets
               PROVE  build'[c].ref \in snapshot'[o]
    BY DEF ShownForTheSameDay
  <2>1. CASE c = b
    BY <1>1, <2>1
  <2>2. CASE c # b
    <3>1. build'[c] = build[c]
      BY <1>1, <2>2
    <3>2. o \in Ocid
      BY <3>1, BuildFacts
    <3>3. build[c].ref \in snapshot[o]
      BY <3>1 DEF Inv, ShownForTheSameDay
    <3> QED
      BY <3>1, <3>2, <3>3
  <2> QED
    BY <2>1, <2>2
<1> QED
  BY <1>2, <1>3, <1>4 DEF Inv

(* A new stage, with nothing asked for yet. *)
LEMMA StageInv ==
  ASSUME Inv, NEW b \in Builder,
         NEW stage \in {"idle", "backfill", "refresh", "rank", "fill"},
         NEW targets \in SUBSET Ocid,
         NEW newest \in (FirstToday .. today) \cup {NoDay}, NEW ref \in Int \cup {NoDay},
         Become(b, Stage(stage, targets, newest, ref)),
         stage \in {"backfill", "refresh"} => newest # NoDay,
         stage \in {"rank", "fill"} => ref # NoDay,
         ref # NoDay => ref < today,
         stage = "fill" /\ ref >= today - RETENTION_DAYS =>
           \A o \in targets : ref \in snapshot[o],
         today' = today, snapshot' = snapshot,
         full' \in [Ocid -> Int \cup {NoDay}], Kept'
  PROVE  Inv'
<1> DEFINE r == Stage(stage, targets, newest, ref)
<1>1. WellTyped(r)
  BY DEF Stage, WellTyped, Build
<1>2. build'[b] = r
  BY DEF Become, Inv, TypeOK
<1>3. /\ r.stage = stage /\ r.targets = targets /\ r.todo = targets /\ r.at = NoOcid
      /\ r.days = {} /\ r.day = newest /\ r.ref = ref /\ r.vain = {}
  BY DEF Stage
<1>4. Dated(b)'
  BY <1>2, <1>3 DEF Dated
<1>5. Stopped(b)'
  BY <1>2, <1>3 DEF Stopped
<1>6. Asked(b)'
  BY <1>2, <1>3, LeaderboardAssumption DEF Asked
<1>7. /\ snapshot' \in [Ocid -> SUBSET Int]
      /\ \A o \in Ocid : \A d \in snapshot'[o] : d < today
  BY DEF Inv, TypeOK
<1> HIDE DEF r
<1> QED
  BY <1>1, <1>2, <1>3, <1>4, <1>5, <1>6, <1>7, BecomeInv DEF r

(* The character o under way, with some days left to ask for. *)
LEMMA LeftInv ==
  ASSUME Inv, NEW b \in Builder, NEW o \in build[b].todo,
         NEW days \in SUBSET Int, NEW vain \in SUBSET (Ocid \X Int),
         Become(b, Left(b, o, days, vain)),
         build[b].stage \in {"backfill", "refresh", "fill"},
         \A d \in days : d < today,
         build[b].vain \subseteq vain,
         today' = today, full' = full,
         snapshot' \in [Ocid -> SUBSET Int],
         \A c \in Ocid : snapshot[c] \subseteq snapshot'[c],
         \A c \in Ocid : \A d \in snapshot'[c] : d < today,
         Stopped(b)',
         build[b].stage = "backfill" =>
           \A d \in Window(build[b].day) : d \in days \/ SeenTo(b, o, d)'
  PROVE  Inv'
<1> DEFINE r == Left(b, o, days, vain)
<1>0. /\ r.stage = build[b].stage /\ r.targets = build[b].targets
      /\ r.todo = IF days = {} THEN build[b].todo \ {o} ELSE build[b].todo
      /\ r.at = IF days = {} THEN NoOcid ELSE o
      /\ r.days = days /\ r.day = build[b].day /\ r.ref = build[b].ref /\ r.vain = vain
  BY DEF Left
<1>1. build[b].todo \subseteq build[b].targets /\ build[b].targets \subseteq Ocid
  BY BuildFacts DEF Inv, Dated
<1>2. WellTyped(r)
  <2>1. build[b] \in Build /\ (build[b].ref # NoDay => build[b].ref < today)
    BY DEF Inv, TypeOK, Build
  <2>2. r \in Build
    BY <1>1, <2>1 DEF Left, Build
  <2> QED
    BY <1>0, <2>1, <2>2 DEF WellTyped
<1>3. build'[b] = r
  BY DEF Become, Inv, TypeOK
<1> HIDE DEF r
<1>4. Dated(b)'
  BY <1>0, <1>1, <1>3 DEF Inv, Dated
<1>5. Asked(b)'
  <2> SUFFICES ASSUME build[b].stage = "backfill",
                      NEW c \in build[b].targets, NEW d \in Window(build[b].day)
               PROVE  /\ c \notin build'[b].todo => SeenTo(b, c, d)'
                      /\ c = build'[b].at => d \in build'[b].days \/ SeenTo(b, c, d)'
    BY <1>0, <1>3 DEF Asked
  <2>1. CASE c = o
    BY <1>0, <1>3, <2>1
  <2>2. CASE c # o
    <3>1. c \notin build[b].todo => SeenTo(b, c, d)
      BY DEF Inv, Asked
    <3>2. SeenTo(b, c, d) => SeenTo(b, c, d)'
      BY <1>0, <1>1, <1>3 DEF SeenTo
    <3>3. c # build'[b].at
      BY <1>0, <1>1, <1>3, <2>2, LeaderboardAssumption
    <3> QED
      BY <1>0, <1>3, <2>2, <3>1, <3>2, <3>3
  <2> QED
    BY <2>1, <2>2
<1>6. Kept'
  BY DEF Inv, Kept, Sample
<1>7. r.stage = "fill" /\ r.ref >= today - RETENTION_DAYS =>
        \A c \in r.targets : r.ref \in snapshot'[c]
  BY <1>0, <1>1 DEF Inv, ShownForTheSameDay
<1>8. full' \in [Ocid -> Int \cup {NoDay}] /\ Become(b, r)
  BY BuildFacts DEF r
<1> QED
  BY <1>2, <1>4, <1>5, <1>6, <1>7, <1>8, BecomeInv

-----------------------------------------------------------------------------
(* The fetches *)

(* What is wanted of a character is closed to nobody: it is before today. *)
LEMMA WantedFacts ==
  ASSUME Inv, NEW b \in Builder, NEW o \in Ocid,
         build[b].stage \in {"backfill", "refresh", "fill"}
  PROVE  Wanted(b, o) \subseteq Int /\ \A d \in Wanted(b, o) : d < today
<1>1. CASE build[b].stage = "backfill"
  <2>1. Wanted(b, o) = Window(build[b].day) \ snapshot[o]
    BY <1>1 DEF Wanted
  <2>2. build[b].day \in Int /\ build[b].day <= today
    BY <1>1, StageFacts, BuildFacts
  <2> QED
    BY <2>1, <2>2, BuildFacts DEF Window
<1>2. CASE build[b].stage = "refresh"
  <2>1. Wanted(b, o) = {build[b].day - 1}
    BY <1>2 DEF Wanted
  <2>2. build[b].day \in Int /\ build[b].day <= today
    BY <1>2, StageFacts, BuildFacts
  <2> QED
    BY <2>1, <2>2, BuildFacts
<1>3. CASE build[b].stage = "fill"
  <2>1. Wanted(b, o) = Sample(build[b].ref) \ snapshot[o]
    BY <1>3 DEF Wanted
  <2>2. build[b].ref \in Int /\ build[b].ref < today
    BY <1>3, StageFacts
  <2>3. Sample(build[b].ref) \subseteq Int /\ \A d \in Sample(build[b].ref) : d <= build[b].ref
    BY <2>2, SampleFacts
  <2> QED
    BY <2>1, <2>2, <2>3, BuildFacts
<1> QED
  BY <1>1, <1>2, <1>3

LEMMA NextTargetInv ==
  ASSUME Inv, NEW b \in Builder, NEW o \in Ocid, NextTarget(b, o)
  PROVE  Inv'
<1>1. /\ o \in build[b].todo
      /\ build[b].stage \in {"backfill", "refresh", "fill"}
      /\ Become(b, Left(b, o, Wanted(b, o), build[b].vain))
      /\ today' = today /\ snapshot' = snapshot /\ full' = full
  BY DEF NextTarget
<1>2. Wanted(b, o) \in SUBSET Int /\ \A d \in Wanted(b, o) : d < today
  BY <1>1, WantedFacts
<1>3. build[b].vain \in SUBSET (Ocid \X Int)
  BY BuildFacts
<1>4. build'[b] = Left(b, o, Wanted(b, o), build[b].vain)
  BY <1>1 DEF Become, Inv, TypeOK
<1>5. build'[b].vain = build[b].vain /\ build'[b].stage = build[b].stage
      /\ build'[b].todo \subseteq build[b].todo
  BY <1>4 DEF Left
<1>6. Stopped(b)'
  BY <1>5 DEF Inv, Stopped
<1>7. build[b].stage = "backfill" =>
        \A d \in Window(build[b].day) : d \in Wanted(b, o) \/ SeenTo(b, o, d)'
  BY <1>1 DEF Wanted, SeenTo
<1>8. /\ snapshot' \in [Ocid -> SUBSET Int]
      /\ \A c \in Ocid : \A d \in snapshot'[c] : d < today
  BY <1>1 DEF Inv, TypeOK
<1> QED
  BY <1>1, <1>2, <1>3, <1>6, <1>7, <1>8, LeftInv

LEMMA FetchDayInv ==
  ASSUME Inv, NEW b \in Builder, NEW o \in Ocid, NEW d \in build[b].days,
         FetchDay(b, o, d)
  PROVE  Inv'
<1>1. /\ build[b].at = o
      /\ Become(b, Left(b, o, build[b].days \ {d}, build[b].vain))
      /\ today' = today /\ full' = full
  BY DEF FetchDay, Asks
<1>2. o \in build[b].todo /\ build[b].stage \in {"backfill", "refresh", "fill"}
  BY <1>1, LeaderboardAssumption DEF Inv, Dated
<1>3. /\ build[b].days \ {d} \in SUBSET Int /\ d \in Int /\ d < today
      /\ \A e \in build[b].days \ {d} : e < today
  BY BuildFacts DEF Inv, TypeOK
<1>4. /\ snapshot' \in [Ocid -> SUBSET Int]
      /\ snapshot'[o] = snapshot[o] \cup {d}
      /\ \A c \in Ocid : snapshot[c] \subseteq snapshot'[c]
  BY <1>3, BuildFacts DEF FetchDay
<1>5. \A c \in Ocid : \A e \in snapshot'[c] : e < today
  BY <1>3, BuildFacts DEF FetchDay, Inv, TypeOK
<1>6. build'[b] = Left(b, o, build[b].days \ {d}, build[b].vain)
  BY <1>1 DEF Become, Inv, TypeOK
<1>7. /\ build'[b].vain = build[b].vain /\ build'[b].stage = build[b].stage
      /\ build'[b].todo \subseteq build[b].todo
  BY <1>6 DEF Left
<1>8. Stopped(b)'
  BY <1>7 DEF Inv, Stopped
<1>9. build[b].stage = "backfill" =>
        \A e \in Window(build[b].day) : e \in build[b].days \ {d} \/ SeenTo(b, o, e)'
  <2> SUFFICES ASSUME build[b].stage = "backfill", NEW e \in Window(build[b].day)
               PROVE  e \in build[b].days \ {d} \/ SeenTo(b, o, e)'
    OBVIOUS
  <2>1. e \in build[b].days \/ SeenTo(b, o, e)
    BY <1>1, <1>2 DEF Inv, Asked, Dated
  <2>2. SeenTo(b, o, e) => SeenTo(b, o, e)'
    BY <1>1, <1>4, <1>7 DEF SeenTo
  <2>3. e = d => SeenTo(b, o, e)'
    BY <1>4 DEF SeenTo
  <2> QED
    BY <2>1, <2>2, <2>3
<1>10. build[b].vain \in SUBSET (Ocid \X Int)
  BY BuildFacts
<1> QED
  BY <1>1, <1>2, <1>3, <1>4, <1>5, <1>8, <1>9, <1>10, LeftInv

LEMMA FetchInVainInv ==
  ASSUME Inv, NEW b \in Builder, NEW o \in Ocid, NEW d \in build[b].days,
         FetchInVain(b, o, d)
  PROVE  Inv'
<1> DEFINE vain == build[b].vain \cup {<<o, d>>}
<1>1. /\ build[b].at = o
      /\ Become(b, Left(b, o, StopAtGap(b, d), vain))
      /\ today' = today /\ full' = full /\ snapshot' = snapshot
  BY DEF FetchInVain, Asks
<1>2. o \in build[b].todo /\ build[b].stage \in {"backfill", "refresh", "fill"}
  BY <1>1, LeaderboardAssumption DEF Inv, Dated
<1>3. /\ StopAtGap(b, d) \in SUBSET Int
      /\ \A e \in StopAtGap(b, d) : e < today
      /\ d \in Int
      /\ vain \in SUBSET (Ocid \X Int)
      /\ build[b].vain \subseteq vain
  BY BuildFacts DEF Inv, TypeOK, StopAtGap
<1>4. build'[b] = Left(b, o, StopAtGap(b, d), vain)
  BY <1>1 DEF Become, Inv, TypeOK
<1>5. /\ build'[b].vain = vain /\ build'[b].stage = build[b].stage
      /\ build'[b].todo = IF StopAtGap(b, d) = {} THEN build[b].todo \ {o} ELSE build[b].todo
  BY <1>4 DEF Left
<1>6. Stopped(b)'
  <2> SUFFICES ASSUME build[b].stage = "fill"
               PROVE  /\ \A x, y \in vain : x[1] = y[1] => x = y
                      /\ \A x \in vain : x[1] \notin build[b].todo \ {o}
    BY <1>5 DEF Stopped, StopAtGap
  <2>1. /\ \A x, y \in build[b].vain : x[1] = y[1] => x = y
        /\ \A x \in build[b].vain : x[1] \notin build[b].todo
    BY DEF Inv, Stopped
  <2>2. \A x \in vain : x \in build[b].vain \/ x = <<o, d>>
    OBVIOUS
  <2>3. <<o, d>>[1] = o
    OBVIOUS
  <2> HIDE DEF vain
  <2> QED
    BY <1>2, <2>1, <2>2, <2>3
<1>7. build[b].stage = "backfill" =>
        \A e \in Window(build[b].day) : e \in StopAtGap(b, d) \/ SeenTo(b, o, e)'
  <2> SUFFICES ASSUME build[b].stage = "backfill", NEW e \in Window(build[b].day)
               PROVE  e \in StopAtGap(b, d) \/ SeenTo(b, o, e)'
    OBVIOUS
  <2>1. e \in build[b].days \/ SeenTo(b, o, e)
    BY <1>1, <1>2 DEF Inv, Asked, Dated
  <2>2. SeenTo(b, o, e) => SeenTo(b, o, e)'
    BY <1>1, <1>5 DEF SeenTo
  <2>3. e = d => SeenTo(b, o, e)'
    BY <1>5 DEF SeenTo
  <2> QED
    BY <2>1, <2>2, <2>3 DEF StopAtGap
<1>8. /\ snapshot' \in [Ocid -> SUBSET Int]
      /\ \A c \in Ocid : \A e \in snapshot'[c] : e < today
  BY <1>1 DEF Inv, TypeOK
<1> HIDE DEF vain
<1> QED
  BY <1>1, <1>2, <1>3, <1>6, <1>7, <1>8, LeftInv

-----------------------------------------------------------------------------
(* From stage to stage *)

LEMMA IdleStage == Idle = Stage("idle", {}, NoDay, NoDay)
BY DEF Idle, Stage

LEMMA StartInv ==
  ASSUME Inv, NEW b \in Builder, NEW targets \in SUBSET Ocid, Start(b, targets)
  PROVE  Inv'
<1>1. today \in FirstToday .. today /\ today # NoDay
  BY BuildFacts, LeaderboardAssumption DEF Inv, TypeOK
<1>2. Kept' /\ full' \in [Ocid -> Int \cup {NoDay}]
  BY BuildFacts DEF Inv, Kept, Sample, Start
<1> QED
  BY <1>1, <1>2, StageInv DEF Start

LEMMA RefreshInv ==
  ASSUME Inv, NEW b \in Builder, Refresh(b)
  PROVE  Inv'
<1>1. build[b].day \in FirstToday .. today /\ build[b].day # NoDay
  BY StageFacts, LeaderboardAssumption DEF Refresh
<1>2. Kept' /\ full' \in [Ocid -> Int \cup {NoDay}]
  BY BuildFacts DEF Inv, Kept, Sample, Refresh
<1>3. build[b].targets \in SUBSET Ocid
  BY BuildFacts
<1> QED
  BY <1>1, <1>2, <1>3, StageInv DEF Refresh

LEMMA GateInv ==
  ASSUME Inv, NEW b \in Builder, NEW targets \in SUBSET Ocid, Gate(b, targets)
  PROVE  Inv'
<1>1. Kept' /\ full' \in [Ocid -> Int \cup {NoDay}]
  BY BuildFacts DEF Inv, Kept, Sample, Gate
<1>2. CASE Become(b, Idle)
  BY <1>1, <1>2, StageInv, IdleStage DEF Gate
<1>3. ASSUME NEW ref \in Days(targets), Become(b, Stage("rank", targets, NoDay, ref))
      PROVE  Inv'
  <2>1. ref \in Int /\ ref <= today - 1
    BY BuildFacts DEF Days
  <2>2. ref < today /\ ref # NoDay
    BY <2>1, BuildFacts, LeaderboardAssumption
  <2> QED
    BY <1>1, <1>3, <2>1, <2>2, StageInv DEF Gate
<1> QED
  BY <1>2, <1>3 DEF Gate

LEMMA RankInv ==
  ASSUME Inv, NEW b \in Builder, Rank(b)
  PROVE  Inv'
<1>1. Kept' /\ full' \in [Ocid -> Int \cup {NoDay}]
  BY BuildFacts DEF Inv, Kept, Sample, Rank
<1>2. CASE Become(b, Idle)
  BY <1>1, <1>2, StageInv, IdleStage DEF Rank
<1>3. ASSUME NEW top \in Best(Ranked(b)), Become(b, Stage("fill", top, NoDay, build[b].ref))
      PROVE  Inv'
  <2>1. top \subseteq Ranked(b) /\ Ranked(b) \subseteq Ocid
    BY BuildFacts DEF Best, Ranked
  <2>2. build[b].ref \in Int /\ build[b].ref < today /\ build[b].ref # NoDay
    BY StageFacts, LeaderboardAssumption DEF Rank
  <2>3. \A o \in top : build[b].ref \in snapshot[o]
    BY <2>1 DEF Ranked
  <2> QED
    BY <1>1, <1>3, <2>1, <2>2, <2>3, StageInv DEF Rank
<1> QED
  BY <1>2, <1>3 DEF Rank

LEMMA ShowInv ==
  ASSUME Inv, NEW b \in Builder, Show(b)
  PROVE  Inv'
<1>1. build[b].ref \in Int /\ snapshot' = snapshot /\ today' = today
  BY StageFacts DEF Show
<1>2. full' \in [Ocid -> Int \cup {NoDay}]
  BY <1>1, BuildFacts DEF Show
<1>3. Kept'
  BY <1>1 DEF Inv, Kept, Sample, Show
<1> QED
  BY <1>1, <1>2, <1>3, StageInv, IdleStage DEF Show

LEMMA NextInv == Inv /\ [Next]_vars => Inv'
<1> SUFFICES ASSUME Inv, [Next]_vars PROVE Inv'
  OBVIOUS
<1>1. CASE Midnight \/ PruneOldSnapshots
  BY <1>1, WorldInv
<1>2. ASSUME NEW b \in Builder, BuildStep(b) PROVE Inv'
  <2>1. CASE Fetch(b)
    BY <2>1, NextTargetInv, FetchDayInv, FetchInVainInv DEF Fetch
  <2>2. CASE Refresh(b)
    BY <2>2, RefreshInv
  <2>3. ASSUME NEW targets \in SUBSET Ocid, Start(b, targets) \/ Gate(b, targets)
        PROVE  Inv'
    BY <2>3, StartInv, GateInv
  <2>4. CASE Rank(b) \/ Show(b)
    BY <2>4, RankInv, ShowInv
  <2> QED
    BY <1>2, <2>1, <2>2, <2>3, <2>4 DEF BuildStep
<1>3. CASE UNCHANGED vars
  BY <1>3 DEF vars, Inv, TypeOK, Dated, Stopped, Asked, SeenTo, ShownForTheSameDay,
              Kept, Window, Sample
<1> QED
  BY <1>1, <1>2, <1>3 DEF Next

THEOREM Invariance == Spec => []Inv
BY InitInv, NextInv, PTL DEF Spec

-----------------------------------------------------------------------------
(* TypeOK: in particular no row, no day asked for and no reference date is *)
(* of today or later, however midnight falls into a build.                 *)
THEOREM TypeCorrect == Spec => []TypeOK
<1>1. Inv => TypeOK
  BY DEF Inv
<1> QED
  BY Invariance, <1>1, PTL

(* A character costs a filling of the graph at most one call in vain. *)
THEOREM OneVain == Spec => []OneCallInVain
<1>1. Inv => OneCallInVain
  BY DEF Inv, Stopped, OneCallInVain
<1> QED
  BY Invariance, <1>1, PTL

(* A backfill that is over asked for every day of its window that has no row. *)
THEOREM GapsAsked == Spec => []EveryGapAsked
<1>1. Inv => EveryGapAsked
  BY DEF Inv, Asked, Done, SeenTo, EveryGapAsked
<1> QED
  BY Invariance, <1>1, PTL

(* Who is shown has a row of the reference date. *)
THEOREM ShownTogether == Spec => []ShownForTheSameDay
<1>1. Inv => ShownForTheSameDay
  BY DEF Inv
<1> QED
  BY Invariance, <1>1, PTL

(* The anchor of the sampled days makes the filling ask only for days after *)
(* the last graph without a gap, whatever the reference dates of the two.   *)
THEOREM NothingAskedTwice == Spec => []FilledOnce
<1>1. Inv => FilledOnce
  <2> SUFFICES ASSUME Inv,
                      NEW b \in Builder, NEW o \in Ocid,
                      build[b].stage = "fill",
                      o \in build[b].targets,
                      full[o] # NoDay,
                      full[o] <= build[b].ref,
                      today - RETENTION_DAYS <= build[b].ref - period_days + 1,
                      NEW d \in Sample(build[b].ref) \ snapshot[o]
               PROVE  d > full[o]
    BY DEF FilledOnce
  <2>1. /\ build[b].ref \in Int /\ full[o] \in Int /\ today \in Int
        /\ RETENTION_DAYS \in Int /\ period_days \in Int /\ period_days >= 1
    BY StageFacts, BuildFacts, LeaderboardAssumption
  <2>2. d \in Int /\ d >= build[b].ref - period_days + 1
    BY <2>1 DEF Sample
  <2>3. d >= today - RETENTION_DAYS
    BY <2>1, <2>2
  <2>4. d # build[b].ref
    <3>1. build[b].ref >= today - RETENTION_DAYS
      BY <2>1
    <3> QED
      BY <3>1 DEF Inv, ShownForTheSameDay
  <2>5. d <= full[o] => d \in Sample(full[o])
    BY <2>1, <2>4, SamplesAgree
  <2>6. d \notin Sample(full[o])
    BY <2>3 DEF Inv, Kept
  <2> QED
    BY <2>1, <2>2, <2>5, <2>6
<1> QED
  BY Invariance, <1>1, PTL

=============================================================================
