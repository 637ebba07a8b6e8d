-------------------------- MODULE NoticePollProofs --------------------------
(***************************************************************************)
(* NoticePoll for any categories, recipients, page and batch sizes: the    *)
(* marker, the baseline and the at-most-once promise.                      *)
(***************************************************************************)
EXTENDS NoticePoll, FiniteSetTheorems, TLAPS

(* The job that is announcing a category holds a page with a newest notice, *)
(* and what is left for a recipient is above the marker.                   *)
Announcing ==
  job.stage = "send" =>
    /\ job.at \in Category
    /\ \E n \in job.page : \A k \in job.page : k <= n
    /\ \A r \in Recipient : job.left[r] \subseteq SelectNew(job.page, marker[job.at])

(* The running job has dealt with notice n of category c for recipient r. *)
Dealt(r, c, n) ==
  /\ job.stage = "send"
  /\ job.at = c
  /\ n \in job.page
  /\ n \notin job.left[r]

(* A notice still above the marker was sent by interrupted jobs only, unless *)
(* the running job has just dealt with it.                                 *)
Counted ==
  \A r \in Recipient, c \in Category, n \in Id :
    /\ received[r][c][n] <= 1 + interrupts
    /\ marker[c] < n /\ ~ Dealt(r, c, n) => received[r][c][n] <= interrupts

(* The marker starts at the baseline and nothing is sent before there is one. *)
Based ==
  /\ \A c \in Category : /\ baseline[c] = NoMarker <=> marker[c] = NoMarker
                         /\ baseline[c] <= marker[c]
  /\ SilentBaseline

(* What the running job has dealt with, it has sent, or it failed to. *)
Sent ==
  \A r \in job.to \ job.failed, n \in Id :
    /\ Dealt(r, job.at, n)
    /\ marker[job.at] # NoMarker
    /\ marker[job.at] < n
    => received[r][job.at][n] > 0

Inv == TypeOK /\ Announcing /\ Counted /\ Based /\ Sent

LEMMA LatestIdIsMax ==
  ASSUME NEW page \in SUBSET Id, \E n \in page : \A k \in page : k <= n
  PROVE  LatestId(page) \in page /\ \A k \in page : k <= LatestId(page)
  BY DEF LatestId

LEMMA PageHasNewest ==
  ASSUME NEW newest \in Id
  PROVE  /\ Page(newest) \subseteq Id
         /\ newest \in Page(newest)
         /\ \A k \in Page(newest) : k <= newest
  BY NoticePollAssumption DEF Page, Id

LEMMA TypeStep == TypeOK /\ Announcing /\ [Next]_vars => TypeOK'
<1> SUFFICES ASSUME TypeOK, Announcing, [Next]_vars PROVE TypeOK'
  OBVIOUS
<1> USE NoticePollAssumption DEF TypeOK, NoJob, Between, Job
<1>1. CASE \E c \in Category : Publish(c)
  BY <1>1 DEF Publish
<1>2. CASE \E r \in Recipient : Toggle(r)
  BY <1>2 DEF Toggle
<1>3. CASE Interrupt
  BY <1>3 DEF Interrupt
<1>4. CASE StartJob
  <2>1. job' \in Job
    BY <1>4 DEF StartJob
  <2> QED
    BY <1>4, <2>1 DEF StartJob
<1>11. CASE EndJob
  BY <1>11 DEF EndJob
<1>5. ASSUME NEW c \in Category, SkipCategory(c) PROVE TypeOK'
  BY <1>5 DEF SkipCategory
<1>6. ASSUME NEW c \in Category, NEW newest \in Id, FetchPage(c, newest) PROVE TypeOK'
  <2>1. Page(newest) \subseteq Id
    BY PageHasNewest
  <2>2. SelectNew(Page(newest), marker[c]) \subseteq Id
    BY <2>1 DEF SelectNew
  <2>3. job' \in Job
    BY <1>6, <2>1, <2>2 DEF FetchPage
  <2> QED
    BY <1>6, <2>3 DEF FetchPage
<1>7. ASSUME NEW r \in Recipient, SendBatch(r) PROVE TypeOK'
  <2>1. job.left[r] \in SUBSET Id
    OBVIOUS
  <2>2. job' \in Job
    BY <1>7, <2>1 DEF SendBatch, FirstBatch
  <2>3. job.at \in Category
    BY <1>7 DEF SendBatch, Served, Announcing
  <2> DEFINE counts == [n \in Id |-> IF n \in FirstBatch(job.left[r])
                                     THEN received[r][job.at][n] + 1
                                     ELSE received[r][job.at][n]]
  <2>4. counts \in [Id -> Nat]
    BY <2>3
  <2>5. received' = [received EXCEPT ![r][job.at] = counts]
    BY <1>7 DEF SendBatch
  <2>6. received' \in [Recipient -> [Category -> [Id -> Nat]]]
    <3> HIDE DEF counts
    <3> QED
      BY <2>3, <2>4, <2>5
  <2> QED
    BY <1>7, <2>2, <2>6 DEF SendBatch
<1>8. ASSUME NEW r \in Recipient, SendFails(r) PROVE TypeOK'
  BY <1>8 DEF SendFails
<1>9. CASE Mark
  <2>1. LatestId(job.page) \in Id
    BY <1>9, LatestIdIsMax DEF Announcing, Mark
  <2>2. job' = Between("poll", job.to, job.todo \ {job.at})
    BY <1>9 DEF Mark
  <2>4. job' \in Job
    <3>1. job.to \in SUBSET Recipient /\ job.todo \in SUBSET Category
      OBVIOUS
    <3> HIDE DEF TypeOK
    <3> QED
      BY <2>2, <3>1
  <2>3. LatestId(job.page) \in 0 .. MaxId
    BY <2>1 DEF Id
  <2>5. marker' \in [Category -> 0 .. MaxId]
    BY <1>9, <2>3 DEF Mark, Advanced
  <2>6. baseline' \in [Category -> 0 .. MaxId]
    BY <1>9, <2>3 DEF Mark
  <2> QED
    BY <1>9, <2>4, <2>5, <2>6 DEF Mark
<1>10. CASE UNCHANGED vars
  BY <1>10 DEF vars
<1> QED
  BY <1>1, <1>2, <1>3, <1>4, <1>5, <1>6, <1>7, <1>8, <1>9, <1>10, <1>11
  DEF Next, JobStep, Poll

LEMMA AnnouncingStep == TypeOK /\ Announcing /\ [Next]_vars => Announcing'
<1> SUFFICES ASSUME TypeOK, Announcing, [Next]_vars PROVE Announcing'
  OBVIOUS
<1> USE DEF Announcing
<1>1. CASE \E c \in Category : Publish(c)
  BY <1>1 DEF Publish
<1>2. CASE \E r \in Recipient : Toggle(r)
  BY <1>2 DEF Toggle
<1>3. CASE Interrupt \/ StartJob \/ EndJob
  <2>1. job'.stage # "send"
    BY <1>3 DEF Interrupt, StartJob, EndJob, NoJob, Between
  <2> QED
    BY <2>1
<1>4. ASSUME NEW c \in Category, SkipCategory(c) PROVE Announcing'
  BY <1>4 DEF SkipCategory, TypeOK, Job
<1>5. ASSUME NEW c \in Category, NEW newest \in Id, FetchPage(c, newest) PROVE Announcing'
  <2>1. /\ job'.at = c
        /\ job'.page = Page(newest)
        /\ \A r \in Recipient : job'.left[r] \subseteq SelectNew(Page(newest), marker[c])
        /\ marker' = marker
    BY <1>5 DEF FetchPage, TypeOK, Job
  <2> QED
    BY <2>1, PageHasNewest
<1>6. ASSUME NEW r \in Recipient, SendBatch(r) PROVE Announcing'
  BY <1>6 DEF SendBatch, Served, TypeOK, Job
<1>7. ASSUME NEW r \in Recipient, SendFails(r) PROVE Announcing'
  BY <1>7 DEF SendFails, Served, TypeOK, Job
<1>8. CASE Mark
  <2>1. job' = Between("poll", job.to, job.todo \ {job.at})
    BY <1>8 DEF Mark
  <2>2. job'.stage # "send"
    BY <2>1 DEF Between
  <2> QED
    BY <2>2
<1>9. CASE UNCHANGED vars
  BY <1>9 DEF vars
<1> QED
  BY <1>1, <1>2, <1>3, <1>4, <1>5, <1>6, <1>7, <1>8, <1>9 DEF Next, JobStep, Poll

LEMMA MarkMoves ==
  ASSUME TypeOK, Announcing, Mark
  PROVE  /\ job.at \in Category
         /\ job.page \subseteq Id
         /\ LatestId(job.page) \in Id
         /\ \A n \in job.page : n <= LatestId(job.page)
         /\ \A c \in Category : marker[c] <= marker'[c]
         /\ LatestId(job.page) <= marker'[job.at]
         /\ marker'[job.at] > NoMarker
         /\ \A c \in Category \ {job.at} : marker'[c] = marker[c]
         /\ job'.stage = "poll"
<1>1. job.stage = "send" /\ job.page \in SUBSET Id
  BY DEF Mark, TypeOK, Job
<1>2. job.at \in Category /\ \E n \in job.page : \A k \in job.page : k <= n
  BY <1>1 DEF Announcing
<1>3. LatestId(job.page) \in job.page /\ \A k \in job.page : k <= LatestId(job.page)
  BY <1>1, <1>2, LatestIdIsMax
<1> DEFINE latest == LatestId(job.page)
<1>4. marker' = [marker EXCEPT ![job.at] = IF @ < latest THEN latest ELSE @]
  BY DEF Mark, Advanced
<1>5. job' = Between("poll", job.to, job.todo \ {job.at})
  BY DEF Mark
<1>6. job'.stage = "poll"
  BY <1>5 DEF Between
<1>7. latest \in Id /\ marker \in [Category -> 0 .. MaxId] /\ MaxId \in Nat
  BY <1>1, <1>3, NoticePollAssumption DEF TypeOK
<1> HIDE DEF latest
<1>8. /\ \A c \in Category : marker[c] <= marker'[c]
      /\ latest <= marker'[job.at]
      /\ marker'[job.at] > NoMarker
      /\ \A c \in Category \ {job.at} : marker'[c] = marker[c]
  BY <1>2, <1>4, <1>7 DEF Id, NoMarker
<1> QED
  BY <1>1, <1>2, <1>3, <1>6, <1>7, <1>8 DEF latest

(* What recipient r being sent the batch changes, and what it leaves alone. *)
Sending(r, batch) ==
  /\ job.at \in Category
  /\ batch \subseteq job.left[r]
  /\ batch \subseteq job.page
  /\ \A n \in batch : marker[job.at] # NoMarker /\ marker[job.at] < n
  /\ job'.stage = job.stage /\ job'.at = job.at /\ job'.page = job.page
  /\ job'.to = job.to /\ job'.failed = job.failed
  /\ \A k \in Recipient :
       job'.left[k] = IF k = r THEN job.left[r] \ batch ELSE job.left[k]
  /\ \A q \in Recipient, c \in Category, n \in Id :
       received'[q][c][n] = IF q = r /\ c = job.at /\ n \in batch
                            THEN received[q][c][n] + 1
                            ELSE received[q][c][n]
  /\ UNCHANGED <<marker, baseline, interrupts>>

LEMMA SendMoves ==
  ASSUME TypeOK, Announcing, NEW r \in Recipient, SendBatch(r)
  PROVE  Sending(r, FirstBatch(job.left[r]))
<1> DEFINE batch == FirstBatch(job.left[r])
<1>1. batch \subseteq job.left[r]
  BY DEF FirstBatch
<1>2. job.stage = "send"
  BY DEF SendBatch, Served
<1>3. /\ job.at \in Category
      /\ job.left[r] \subseteq SelectNew(job.page, marker[job.at])
  BY <1>2 DEF Announcing
<1>4. /\ batch \subseteq job.page
      /\ \A n \in batch : marker[job.at] # NoMarker /\ marker[job.at] < n
  BY <1>1, <1>3 DEF SelectNew
<1>5. /\ job'.stage = job.stage /\ job'.at = job.at /\ job'.page = job.page
      /\ job'.to = job.to /\ job'.failed = job.failed
      /\ \A k \in Recipient :
           job'.left[k] = IF k = r THEN job.left[r] \ batch ELSE job.left[k]
  BY DEF SendBatch, TypeOK, Job
<1>6. received' = [received EXCEPT ![r][job.at] =
                     [n \in Id |-> IF n \in batch THEN @[n] + 1 ELSE @[n]]]
  BY DEF SendBatch
<1>7. UNCHANGED <<marker, baseline, interrupts>>
  BY DEF SendBatch
<1>8. received \in [Recipient -> [Category -> [Id -> Nat]]]
  BY DEF TypeOK
<1> HIDE DEF batch
<1>9. \A q \in Recipient, c \in Category, n \in Id :
        received'[q][c][n] = IF q = r /\ c = job.at /\ n \in batch
                             THEN received[q][c][n] + 1
                             ELSE received[q][c][n]
  BY <1>3, <1>6, <1>8
<1> QED
  BY <1>1, <1>3, <1>4, <1>5, <1>7, <1>9 DEF Sending, batch

LEMMA CountedStep == TypeOK /\ Announcing /\ Counted /\ [Next]_vars => Counted'
<1> SUFFICES ASSUME TypeOK, Announcing, Counted, [Next]_vars,
                    NEW r \in Recipient, NEW c \in Category, NEW n \in Id
             PROVE  /\ received'[r][c][n] <= 1 + interrupts'
                    /\ marker'[c] < n /\ ~ Dealt(r, c, n)' =>
                         received'[r][c][n] <= interrupts'
  BY DEF Counted
<1>0. /\ received[r][c][n] \in Nat /\ interrupts \in Nat
      /\ marker[c] \in Nat /\ n \in Nat
      /\ received[r][c][n] <= 1 + interrupts
      /\ marker[c] < n /\ ~ Dealt(r, c, n) => received[r][c][n] <= interrupts
  BY NoticePollAssumption DEF Counted, TypeOK, Id
<1>1. CASE UNCHANGED <<marker, job, received, interrupts>>
  BY <1>0, <1>1 DEF Dealt
<1>2. CASE Interrupt
  BY <1>0, <1>2 DEF Interrupt
<1>3. CASE job.stage # "send" /\ UNCHANGED <<marker, received, interrupts>>
  BY <1>0, <1>3 DEF Dealt
<1>4. ASSUME NEW q \in Recipient, SendBatch(q)
      PROVE  /\ received'[r][c][n] <= 1 + interrupts'
             /\ marker'[c] < n /\ ~ Dealt(r, c, n)' => received'[r][c][n] <= interrupts'
  <2> DEFINE batch == FirstBatch(job.left[q])
  <2>1. Sending(q, batch)
    BY <1>4, SendMoves
  <2>2. job \in Job /\ job.stage = "send"
    BY <1>4 DEF TypeOK, SendBatch, Served
  <2> HIDE DEF batch
  <2>3. CASE r = q /\ c = job.at /\ n \in batch
    <3>1. received[r][c][n] <= interrupts
      BY <1>0, <2>1, <2>3 DEF Dealt, Sending
    <3>2. Dealt(r, c, n)'
      BY <2>1, <2>2, <2>3 DEF Dealt, Sending
    <3> QED
      BY <1>0, <2>1, <2>3, <3>1, <3>2 DEF Sending
  <2>4. CASE ~ (r = q /\ c = job.at /\ n \in batch)
    <3>1. Dealt(r, c, n) => Dealt(r, c, n)'
      BY <2>1, <2>2 DEF Dealt, Sending
    <3> QED
      BY <1>0, <2>1, <2>4, <3>1 DEF Sending
  <2> QED
    BY <2>3, <2>4
<1>5. ASSUME NEW q \in Recipient, SendFails(q)
      PROVE  /\ received'[r][c][n] <= 1 + interrupts'
             /\ marker'[c] < n /\ ~ Dealt(r, c, n)' => received'[r][c][n] <= interrupts'
  <2>1. Dealt(r, c, n) => Dealt(r, c, n)'
    BY <1>5 DEF SendFails, Dealt, TypeOK, Job
  <2>2. UNCHANGED <<marker, received, interrupts>>
    BY <1>5 DEF SendFails
  <2> QED
    BY <1>0, <2>1, <2>2
<1>6. CASE Mark
  <2>1. UNCHANGED <<received, interrupts>>
    BY <1>6 DEF Mark
  <2>2. marker'[c] < n => marker[c] < n /\ ~ Dealt(r, c, n)
    <3> SUFFICES ASSUME marker'[c] < n PROVE marker[c] < n /\ ~ Dealt(r, c, n)
      OBVIOUS
    <3>1. /\ marker[c] <= marker'[c]
          /\ job.at \in Category
          /\ LatestId(job.page) \in Id
          /\ \A k \in job.page : k <= LatestId(job.page)
          /\ LatestId(job.page) <= marker'[job.at]
          /\ \A d \in Category \ {job.at} : marker'[d] = marker[d]
      BY <1>6, MarkMoves
    <3>2. marker'[c] \in Nat /\ marker'[job.at] \in Nat
      BY <3>1, TypeStep, NoticePollAssumption DEF TypeOK
    <3>3. c = job.at => n \notin job.page
      BY <1>0, <3>1, <3>2 DEF Id
    <3> QED
      BY <1>0, <3>1, <3>2, <3>3 DEF Dealt
  <2> QED
    BY <1>0, <2>1, <2>2
<1>7. ASSUME NEW d \in Category, Poll(d)
      PROVE  job.stage # "send" /\ UNCHANGED <<marker, received, interrupts>>
  BY <1>7 DEF Poll, SkipCategory, FetchPage
<1>8. CASE StartJob \/ EndJob
  BY <1>3, <1>8 DEF StartJob, EndJob
<1>9. CASE (\E d \in Category : Publish(d)) \/ (\E q \in Recipient : Toggle(q)) \/ UNCHANGED vars
  BY <1>1, <1>9 DEF Publish, Toggle, vars
<1> QED
  BY <1>2, <1>3, <1>4, <1>5, <1>6, <1>7, <1>8, <1>9 DEF Next, JobStep

LEMMA BasedStep == TypeOK /\ Announcing /\ Based /\ [Next]_vars => Based'
<1> SUFFICES ASSUME TypeOK, Announcing, Based, [Next]_vars PROVE Based'
  OBVIOUS
<1>0. /\ \A c \in Category : baseline[c] \in Nat /\ marker[c] \in Nat
      /\ \A n \in Id : n \in Nat
      /\ \A r \in Recipient, c \in Category, n \in Id : received[r][c][n] \in Nat
  BY NoticePollAssumption DEF TypeOK, Id
<1>1. CASE UNCHANGED <<marker, baseline, received>>
  BY <1>1 DEF Based, SilentBaseline
<1>2. ASSUME NEW q \in Recipient, SendBatch(q) PROVE Based'
  <2> DEFINE batch == FirstBatch(job.left[q])
  <2>1. Sending(q, batch)
    BY <1>2, SendMoves
  <2> HIDE DEF batch
  <2>2. marker' = marker /\ baseline' = baseline
    BY <2>1 DEF Sending
  <2>3. ASSUME NEW r \in Recipient, NEW c \in Category, NEW n \in Id,
               received'[r][c][n] > 0
        PROVE  baseline[c] # NoMarker /\ baseline[c] < n
    <3>1. CASE c = job.at /\ n \in batch
      <4>1. marker[c] # NoMarker /\ marker[c] < n
        BY <2>1, <3>1 DEF Sending
      <4> QED
        BY <1>0, <4>1 DEF Based
    <3>2. CASE ~ (c = job.at /\ n \in batch)
      <4>1. received'[r][c][n] = received[r][c][n]
        BY <2>1, <3>2 DEF Sending
      <4> QED
        BY <2>3, <4>1 DEF Based, SilentBaseline
    <3> QED
      BY <3>1, <3>2
  <2> QED
    BY <2>2, <2>3 DEF Based, SilentBaseline
<1>3. CASE Mark
  <2> DEFINE latest == LatestId(job.page)
  <2>1. job.at \in Category /\ latest \in Id
    BY <1>3, MarkMoves
  <2>2. /\ marker' = [marker EXCEPT ![job.at] = IF @ < latest THEN latest ELSE @]
        /\ baseline' = [baseline EXCEPT ![job.at] = IF @ = NoMarker THEN latest ELSE @]
        /\ received' = received
    BY <1>3 DEF Mark, Advanced
  <2> HIDE DEF latest
  <2>3. latest \in Nat /\ latest > 0
    BY <2>1, NoticePollAssumption DEF Id
  <2>4. \A c \in Category :
          /\ marker'[c] = IF c = job.at /\ marker[c] < latest THEN latest ELSE marker[c]
          /\ baseline'[c] = IF c = job.at /\ baseline[c] = NoMarker THEN latest ELSE baseline[c]
    BY <2>1, <2>2 DEF TypeOK
  <2>5. \A c \in Category : /\ baseline'[c] = NoMarker <=> marker'[c] = NoMarker
                            /\ baseline'[c] <= marker'[c]
    BY <1>0, <2>3, <2>4 DEF Based, NoMarker
  <2>6. \A c \in Category : baseline[c] # NoMarker => baseline'[c] = baseline[c]
    BY <2>4
  <2>7. SilentBaseline'
    BY <2>2, <2>6 DEF Based, SilentBaseline
  <2> QED
    BY <2>5, <2>7 DEF Based
<1>4. ASSUME NEW c \in Category, Poll(c) PROVE Based'
  BY <1>1, <1>4 DEF Poll, SkipCategory, FetchPage
<1>5. ASSUME NEW r \in Recipient, SendFails(r) PROVE Based'
  BY <1>1, <1>5 DEF SendFails
<1>6. CASE StartJob \/ EndJob \/ Interrupt
  BY <1>1, <1>6 DEF StartJob, EndJob, Interrupt
<1>7. CASE (\E c \in Category : Publish(c)) \/ (\E r \in Recipient : Toggle(r)) \/ UNCHANGED vars
  BY <1>1, <1>7 DEF Publish, Toggle, vars
<1> QED
  BY <1>2, <1>3, <1>4, <1>5, <1>6, <1>7 DEF Next, JobStep

LEMMA SentStep == TypeOK /\ Announcing /\ Sent /\ [Next]_vars => Sent'
<1> SUFFICES ASSUME TypeOK, Announcing, Sent, [Next]_vars PROVE Sent'
  OBVIOUS
<1>0. /\ job \in Job
      /\ \A r \in Recipient, c \in Category, n \in Id : received[r][c][n] \in Nat
  BY DEF TypeOK
<1>1. CASE UNCHANGED <<marker, job, received>>
  BY <1>1 DEF Sent, Dealt
<1>2. CASE job'.stage # "send"
  BY <1>2 DEF Sent, Dealt
<1>3. ASSUME NEW c \in Category, NEW newest \in Id, FetchPage(c, newest) PROVE Sent'
  <2>1. /\ job'.at = c /\ job'.page = Page(newest) /\ job'.to = job.to
        /\ \A r \in Recipient :
             job'.left[r] = IF r \in job.to THEN SelectNew(Page(newest), marker[c]) ELSE {}
        /\ marker' = marker
    BY <1>0, <1>3 DEF FetchPage, Job
  <2>2. job.to \subseteq Recipient
    BY <1>0 DEF Job
  <2>3. \A r \in job'.to, n \in Id :
          Dealt(r, job.at, n)' => ~ (marker[c] # NoMarker /\ marker[c] < n)
    BY <2>1, <2>2 DEF Dealt, SelectNew
  <2> QED
    BY <2>1, <2>3 DEF Sent, Dealt
<1>4. ASSUME NEW q \in Recipient, SendBatch(q) PROVE Sent'
  <2> DEFINE batch == FirstBatch(job.left[q])
  <2>1. Sending(q, batch)
    BY <1>4, SendMoves
  <2> HIDE DEF batch
  <2>2. SUFFICES ASSUME NEW r \in job'.to \ job'.failed, NEW n \in Id,
                        Dealt(r, job.at, n)', marker'[job'.at] # NoMarker,
                        marker'[job'.at] < n
                 PROVE  received'[r][job'.at][n] > 0
    BY DEF Sent
  <2>3. r \in Recipient /\ job.at \in Category /\ r \in job.to \ job.failed
    BY <1>0, <2>1 DEF Sending, Job
  <2>4. CASE r = q /\ n \in batch
    BY <1>0, <2>1, <2>3, <2>4 DEF Sending
  <2>5. CASE ~ (r = q /\ n \in batch)
    <3>1. Dealt(r, job.at, n)
      BY <2>1, <2>2, <2>3, <2>5 DEF Sending, Dealt
    <3>2. received[r][job.at][n] > 0
      BY <2>1, <2>2, <2>3, <3>1 DEF Sent, Sending
    <3> QED
      BY <2>1, <2>3, <2>5, <3>2 DEF Sending
  <2> QED
    BY <2>4, <2>5
<1>5. ASSUME NEW q \in Recipient, SendFails(q) PROVE Sent'
  <2>1. /\ job'.stage = job.stage /\ job'.at = job.at /\ job'.page = job.page
        /\ job'.to = job.to /\ job'.failed = job.failed \cup {q}
        /\ \A r \in Recipient \ {q} : job'.left[r] = job.left[r]
        /\ UNCHANGED <<marker, received>>
    BY <1>0, <1>5 DEF SendFails, Job
  <2>2. job.to \subseteq Recipient
    BY <1>0 DEF Job
  <2> QED
    BY <2>1, <2>2 DEF Sent, Dealt
<1>6. CASE Mark
  BY <1>2, <1>6, MarkMoves
<1>7. CASE StartJob \/ EndJob \/ Interrupt
  BY <1>2, <1>7 DEF StartJob, EndJob, Interrupt, NoJob, Between
<1>8. ASSUME NEW c \in Category, SkipCategory(c) PROVE Sent'
  BY <1>0, <1>2, <1>8 DEF SkipCategory, Job
<1>9. CASE (\E c \in Category : Publish(c)) \/ (\E r \in Recipient : Toggle(r)) \/ UNCHANGED vars
  BY <1>1, <1>9 DEF Publish, Toggle, vars
<1> QED
  BY <1>3, <1>4, <1>5, <1>6, <1>7, <1>8, <1>9 DEF Next, JobStep, Poll

LEMMA InvInit == Init => Inv
<1> SUFFICES ASSUME Init PROVE Inv
  OBVIOUS
<1> USE NoticePollAssumption DEF Init, NoJob, Between, NoMarker
<1>1. TypeOK
  BY DEF TypeOK, Job
<1>2. job.stage # "send"
  OBVIOUS
<1>3. Announcing /\ Sent
  BY <1>2 DEF Announcing, Sent, Dealt
<1>4. Counted
  BY DEF Counted, Id
<1>5. Based
  BY DEF Based, SilentBaseline
<1> QED
  BY <1>1, <1>3, <1>4, <1>5 DEF Inv

(* Inv is inductive: the state of every job, interrupted or not, satisfies it. *)
THEOREM Invariance == Spec => []Inv
<1>1. Inv /\ [Next]_vars => Inv'
  BY TypeStep, AnnouncingStep, CountedStep, BasedStep, SentStep DEF Inv
<1> QED
  BY InvInit, <1>1, PTL DEF Spec

(* The variables of the notice job keep their types. *)
THEOREM TypeCorrect == Spec => []TypeOK
<1>1. Inv => TypeOK
  BY DEF Inv
<1> QED
  BY Invariance, <1>1, PTL

(* No recipient is sent a notice more often than once, and once more for    *)
(* each interrupted job, whatever the page and the batch sizes.            *)
THEOREM AtMostOncePerInterrupt == Spec => []NoDuplicates
<1>1. Inv => NoDuplicates
  BY DEF Inv, Counted, NoDuplicates
<1> QED
  BY Invariance, <1>1, PTL

(* Nothing at or below the first marker of a category is ever announced. *)
THEOREM BaselineIsSilent == Spec => []SilentBaseline
<1>1. Inv => SilentBaseline
  BY DEF Inv, Based
<1> QED
  BY Invariance, <1>1, PTL

(* No step of the job moves a marker back. *)
THEOREM MarkerMonotone == Spec => MarkerNeverBack
<1>1. Inv /\ [Next]_vars => [\A c \in Category : marker[c] <= marker'[c]]_vars
  <2> SUFFICES ASSUME Inv, Next PROVE \A c \in Category : marker[c] <= marker'[c]
    BY DEF vars
  <2>1. CASE Mark
    BY <2>1, MarkMoves DEF Inv
  <2>2. CASE marker' = marker
    BY <2>2, NoticePollAssumption DEF Inv, TypeOK
  <2> QED
    BY <2>1, <2>2 DEF Next, JobStep, Poll, StartJob, EndJob, SkipCategory, FetchPage,
                      SendBatch, SendFails, Interrupt, Publish, Toggle
<1> QED
  BY Invariance, <1>1, PTL DEF Spec, MarkerNeverBack

(* The marker passes no notice that a recipient of the job was not sent,    *)
(* unless a send to that recipient failed.                                 *)
THEOREM NothingLost == Spec => MarkedAfterSent
<1> DEFINE Lossless ==
      \A c \in Category : marker[c] # NoMarker /\ marker'[c] # marker[c] =>
        \A r \in job.to \ job.failed, n \in job.page :
          marker[c] < n => received[r][c][n] > 0
<1>1. Inv /\ [Next]_vars => [Lossless]_vars
  <2> SUFFICES ASSUME Inv, Next PROVE Lossless
    BY DEF vars
  <2>1. CASE Mark
    <3> SUFFICES ASSUME NEW c \in Category, marker[c] # NoMarker, marker'[c] # marker[c],
                        NEW r \in job.to \ job.failed, NEW n \in job.page, marker[c] < n
                 PROVE  received[r][c][n] > 0
      OBVIOUS
    <3>1. c = job.at /\ job.page \subseteq Id
      BY <2>1, MarkMoves DEF Inv
    <3>2. job.to \subseteq Recipient
      BY DEF Inv, TypeOK, Job
    <3>3. Dealt(r, job.at, n)
      BY <2>1, <3>1, <3>2 DEF Dealt, Mark, Announced
    <3> QED
      BY <3>1, <3>3 DEF Inv, Sent
  <2>2. CASE marker' = marker
    BY <2>2
  <2> QED
    BY <2>1, <2>2 DEF Next, JobStep, Poll, StartJob, EndJob, SkipCategory, FetchPage,
                      SendBatch, SendFails, Interrupt, Publish, Toggle
<1> QED
  BY Invariance, <1>1, PTL DEF Spec, MarkedAfterSent

-----------------------------------------------------------------------------
(* The refinement *)

(* What is left for a recipient of the job comes after what it was served. *)
Ordered ==
  job.stage = "send" =>
    /\ \A r \in Recipient \ job.to : job.left[r] = {}
    /\ \A r \in Recipient :
         \A k \in SelectNew(job.page, marker[job.at]) \ job.left[r], n \in job.left[r] :
           r \in job.to => k < n

LEMMA BatchComesFirst ==
  ASSUME NEW ids \in SUBSET Id, NEW n \in FirstBatch(ids), NEW k \in ids \ FirstBatch(ids)
  PROVE  n < k
<1> DEFINE Below(m) == {j \in ids : j < m}
<1>1. n \in ids /\ k \in ids
  BY DEF FirstBatch
<1>2. n \in Nat /\ k \in Nat /\ \A j \in ids : j \in Nat
  BY <1>1, NoticePollAssumption DEF Id
<1>3. IsFiniteSet(Below(n)) /\ IsFiniteSet(Below(k))
  <2>1. IsFiniteSet(Id)
    BY FS_Interval, NoticePollAssumption DEF Id
  <2> QED
    BY <2>1, FS_Subset
<1>4. Cardinality(Below(n)) \in Nat /\ Cardinality(Below(k)) \in Nat
  BY <1>3, FS_CardinalityType
<1>5. Cardinality(Below(n)) < EMBEDS_PER_MESSAGE
  BY DEF FirstBatch
<1>6. ~ (Cardinality(Below(k)) < EMBEDS_PER_MESSAGE)
  BY <1>1 DEF FirstBatch
<1>7. SUFFICES ASSUME k < n PROVE FALSE
  BY <1>1, <1>2
<1>8. Below(k) \subseteq Below(n)
  <2> SUFFICES ASSUME NEW j \in ids, j < k PROVE j < n
    BY <1>1
  <2>1. j \in Nat
    BY <1>2
  <2> QED
    BY <1>2, <1>7, <2>1
<1>9. Cardinality(Below(k)) <= Cardinality(Below(n))
  BY <1>3, <1>8, FS_Subset
<1> HIDE DEF Below
<1> QED
  BY <1>4, <1>5, <1>6, <1>9, NoticePollAssumption

LEMMA OrderedStep == TypeOK /\ Announcing /\ Ordered /\ [Next]_vars => Ordered'
<1> SUFFICES ASSUME TypeOK, Announcing, Ordered, [Next]_vars PROVE Ordered'
  OBVIOUS
<1>0. job \in Job
  BY DEF TypeOK
<1>1. CASE UNCHANGED <<marker, job>>
  BY <1>1 DEF Ordered
<1>2. CASE job'.stage # "send"
  BY <1>2 DEF Ordered
<1>3. ASSUME NEW c \in Category, NEW newest \in Id, FetchPage(c, newest) PROVE Ordered'
  <2>1. /\ job'.at = c /\ job'.page = Page(newest) /\ job'.to = job.to
        /\ \A r \in Recipient :
             job'.left[r] = IF r \in job.to THEN SelectNew(Page(newest), marker[c]) ELSE {}
        /\ marker' = marker
    BY <1>0, <1>3 DEF FetchPage, Job
  <2> QED
    BY <2>1 DEF Ordered
<1>4. ASSUME NEW q \in Recipient, SendBatch(q) PROVE Ordered'
  <2> DEFINE batch == FirstBatch(job.left[q])
             new == SelectNew(job.page, marker[job.at])
  <2>1. Sending(q, batch) /\ job.stage = "send" /\ job.left[q] \in SUBSET Id
    BY <1>0, <1>4, SendMoves DEF SendBatch, Served, Job
  <2>2. /\ job'.stage = "send" /\ job'.to = job.to
        /\ SelectNew(job.page, marker[job.at])' = new
        /\ \A r \in Recipient :
             job'.left[r] = IF r = q THEN job.left[q] \ batch ELSE job.left[r]
    BY <2>1 DEF Sending, SelectNew
  <2>3. \A n \in batch, k \in job.left[q] \ batch : n < k
    BY <2>1, BatchComesFirst
  <2> HIDE DEF batch, new
  <2>4. \A r \in Recipient \ job.to : job'.left[r] = {}
    BY <2>1, <2>2 DEF Ordered
  <2>5. ASSUME NEW r \in Recipient, NEW k \in new \ job'.left[r], NEW n \in job'.left[r],
               r \in job.to
        PROVE  k < n
    <3>1. \A j \in new \ job.left[r], m \in job.left[r] : j < m
      BY <2>1, <2>5 DEF Ordered, new
    <3>2. CASE r = q /\ k \in batch
      BY <2>2, <2>3, <2>5, <3>2
    <3>3. CASE ~ (r = q /\ k \in batch)
      BY <2>2, <2>5, <3>1, <3>3
    <3> QED
      BY <3>2, <3>3
  <2> QED
    BY <2>2, <2>4, <2>5 DEF Ordered
<1>5. ASSUME NEW q \in Recipient, SendFails(q) PROVE Ordered'
  <2>1. /\ job'.stage = job.stage /\ job'.at = job.at /\ job'.page = job.page
        /\ job'.to = job.to
        /\ \A r \in Recipient : job'.left[r] = IF r = q THEN {} ELSE job.left[r]
        /\ marker' = marker
    BY <1>0, <1>5 DEF SendFails, Job
  <2> QED
    BY <2>1 DEF Ordered
<1>6. CASE Mark
  BY <1>2, <1>6, MarkMoves
<1>7. CASE StartJob \/ EndJob \/ Interrupt
  BY <1>2, <1>7 DEF StartJob, EndJob, Interrupt, NoJob, Between
<1>8. ASSUME NEW c \in Category, SkipCategory(c) PROVE Ordered'
  BY <1>0, <1>2, <1>8 DEF SkipCategory, Job
<1>9. CASE (\E c \in Category : Publish(c)) \/ (\E r \in Recipient : Toggle(r)) \/ UNCHANGED vars
  BY <1>1, <1>9 DEF Publish, Toggle, vars
<1> QED
  BY <1>3, <1>4, <1>5, <1>6, <1>7, <1>8, <1>9 DEF Next, JobStep, Poll

LEMMA OneEntry ==
  ASSUME NEW f \in [Recipient -> [Category -> SUBSET Id]],
         NEW g \in [Recipient -> [Category -> SUBSET Id]],
         NEW r \in Recipient, NEW d \in Category,
         \A q \in Recipient, c \in Category : q # r \/ c # d => g[q][c] = f[q][c]
  PROVE  g = [f EXCEPT ![r][d] = g[r][d]]
<1> DEFINE h == [f EXCEPT ![r][d] = g[r][d]]
<1>1. h \in [Recipient -> [Category -> SUBSET Id]]
  OBVIOUS
<1>2. ASSUME NEW q \in Recipient, NEW c \in Category PROVE h[q][c] = g[q][c]
  <2>1. CASE q = r /\ c = d
    BY <2>1
  <2>2. CASE q = r /\ c # d
    BY <2>2
  <2>3. CASE q # r
    BY <2>3
  <2> QED
    BY <2>1, <2>2, <2>3
<1> HIDE DEF h
<1>3. h = g
  BY <1>1, <1>2
<1> QED
  BY <1>3 DEF h

LEMMA NoProgress ==
  ASSUME job.stage # "send"
  PROVE  Progress = Promise!NothingServed
  BY DEF Progress, Promise!NothingServed

(* Each step of the job is a step of the promise, or changes nothing of it. *)
LEMMA PromiseStep == Inv /\ Ordered /\ [Next]_vars => [Promise!Next]_(Promise!vars)
<1> SUFFICES ASSUME Inv, Ordered, [Next]_vars
             PROVE  Promise!Next \/ UNCHANGED Promise!vars
  OBVIOUS
<1>0. TypeOK /\ Announcing /\ job \in Job
  BY DEF Inv, TypeOK
<1>1. CASE UNCHANGED <<marker, job, received, interrupts>>
  BY <1>1 DEF Promise!vars, Progress
<1>2. CASE /\ job.stage # "send" /\ job'.stage # "send"
           /\ UNCHANGED <<marker, received, interrupts>>
  <2>1. Progress = Promise!NothingServed
    BY <1>2, NoProgress
  <2>2. Progress' = Promise!NothingServed
    BY <1>2 DEF Progress, Promise!NothingServed
  <2> QED
    BY <1>2, <2>1, <2>2 DEF Promise!vars
<1>3. ASSUME NEW c \in Category, NEW newest \in Id, FetchPage(c, newest)
      PROVE  UNCHANGED Promise!vars
  <2>1. /\ job.stage # "send" /\ job'.stage = "send"
        /\ job'.at = c /\ job'.page = Page(newest) /\ job'.to = job.to
        /\ \A r \in Recipient :
             job'.left[r] = IF r \in job.to THEN SelectNew(Page(newest), marker[c]) ELSE {}
        /\ UNCHANGED <<marker, received, interrupts>>
    BY <1>0, <1>3 DEF FetchPage, Job
  <2>2. Progress = Promise!NothingServed
    BY <2>1, NoProgress
  <2>3. Progress' = Promise!NothingServed
    BY <2>1 DEF Progress, Promise!NothingServed
  <2> QED
    BY <2>1, <2>2, <2>3 DEF Promise!vars
<1>4. ASSUME NEW r \in Recipient, SendBatch(r) PROVE Promise!Next
  <2> DEFINE batch == FirstBatch(job.left[r])
             new == SelectNew(job.page, marker[job.at])
  <2>1. Sending(r, batch) /\ job.stage = "send" /\ job.left[r] \in SUBSET Id
    BY <1>0, <1>4, SendMoves DEF SendBatch, Served, Job
  <2>2. received' = [received EXCEPT ![r][job.at] =
          [n \in Id |-> IF n \in batch THEN @[n] + 1 ELSE @[n]]]
    BY <1>4 DEF SendBatch
  <2>3. new \in SUBSET Id
    BY <1>0 DEF SelectNew, Job
  <2>4. r \in job.to
    BY <1>4, <2>1 DEF Ordered, SendBatch, Served
  <2>5. batch \subseteq job.left[r] /\ job.left[r] \subseteq new
    BY <1>0, <2>1 DEF FirstBatch, Announcing
  <2>6. \A k \in new \ job.left[r], n \in job.left[r] : k < n
    BY <2>1, <2>4 DEF Ordered
  <2> HIDE DEF batch
  <2>7. job.at \in Category /\ marker[job.at] > 0 /\ marker[job.at] \in Nat
    <3>1. new # {}
      BY <1>4, <2>5 DEF SendBatch, Served
    <3> QED
      BY <1>0, <2>1, <3>1, NoticePollAssumption DEF Sending, SelectNew, NoMarker, TypeOK
  <2>8. Progress[r][job.at] = new \ job.left[r]
    BY <2>1, <2>4, <2>7 DEF Progress
  <2>9. Progress' = [Progress EXCEPT ![r][job.at] = Progress[r][job.at] \cup batch]
    <3>1. /\ job'.stage = "send" /\ job'.at = job.at /\ job'.to = job.to
          /\ SelectNew(job.page, marker[job.at])' = new
          /\ \A q \in Recipient :
               job'.left[q] = IF q = r THEN job.left[r] \ batch ELSE job.left[q]
      BY <2>1 DEF Sending, SelectNew
    <3> HIDE DEF new
    <3>2. new \ (job.left[r] \ batch) = (new \ job.left[r]) \cup batch
      BY <2>5
    <3>3. Progress' = [q \in Recipient |-> [c \in Category |->
            IF c = job.at /\ q \in job.to THEN new \ job'.left[q] ELSE {}]]
      BY <3>1 DEF Progress
    <3>4. Progress = [q \in Recipient |-> [c \in Category |->
            IF c = job.at /\ q \in job.to THEN new \ job.left[q] ELSE {}]]
      BY <2>1 DEF Progress, new
    <3>5. /\ Progress \in [Recipient -> [Category -> SUBSET Id]]
          /\ Progress' \in [Recipient -> [Category -> SUBSET Id]]
      BY <2>3, <3>3, <3>4
    <3>6. \A q \in Recipient, c \in Category :
            q # r \/ c # job.at => Progress'[q][c] = Progress[q][c]
      BY <3>1, <3>3, <3>4
    <3>7. Progress'[r][job.at] = Progress[r][job.at] \cup batch
      BY <2>4, <2>7, <2>8, <3>1, <3>2, <3>3, <3>4
    <3>8. Progress' = [Progress EXCEPT ![r][job.at] = Progress'[r][job.at]]
      BY <2>7, <3>5, <3>6, OneEntry
    <3> QED
      BY <3>7, <3>8
  <2>10. \A n \in batch : marker[job.at] < n /\ \A k \in Progress[r][job.at] : k < n
    BY <2>1, <2>5, <2>6, <2>8 DEF Sending
  <2>11. UNCHANGED <<marker, interrupts>>
    BY <2>1 DEF Sending
  <2>12. Promise!Serve(r, job.at, batch)
    BY <2>7, <2>9, <2>10 DEF Promise!Serve
  <2>13. Promise!Deliver(r, job.at, batch)
    BY <2>2, <2>11, <2>12 DEF Promise!Deliver, Promise!Id, Id
  <2> QED
    BY <2>1, <2>5, <2>7, <2>13 DEF Promise!Next, Promise!Id, Id
<1>5. ASSUME NEW r \in Recipient, SendFails(r) PROVE Promise!Next
  <2> DEFINE rest == job.left[r]
             new == SelectNew(job.page, marker[job.at])
  <2>1. /\ job'.stage = job.stage /\ job'.at = job.at /\ job'.page = job.page
        /\ job'.to = job.to
        /\ \A q \in Recipient : job'.left[q] = IF q = r THEN {} ELSE job.left[q]
        /\ UNCHANGED <<marker, received, interrupts>>
    BY <1>0, <1>5 DEF SendFails, Job
  <2>2. job.stage = "send" /\ rest # {} /\ rest \in SUBSET Id
    BY <1>0, <1>5 DEF SendFails, Served, Job
  <2>3. r \in job.to /\ job.at \in Category /\ rest \subseteq new
    BY <1>0, <2>2 DEF Ordered, Announcing
  <2>4. \A k \in new \ rest, n \in rest : k < n
    BY <2>2, <2>3 DEF Ordered
  <2>5. marker[job.at] > 0 /\ \A n \in rest : marker[job.at] < n
    BY <1>0, <2>2, <2>3, NoticePollAssumption DEF SelectNew, NoMarker, TypeOK
  <2>6. Progress[r][job.at] = new \ rest
    BY <2>2, <2>3 DEF Progress
  <2>0. new \in SUBSET Id
    BY <1>0 DEF SelectNew, Job
  <2>7. Progress' = [Progress EXCEPT ![r][job.at] = Progress[r][job.at] \cup rest]
    <3>1. SelectNew(job.page, marker[job.at])' = new
      BY <2>1 DEF SelectNew
    <3> HIDE DEF new
    <3>2. Progress' = [q \in Recipient |-> [c \in Category |->
            IF c = job.at /\ q \in job.to THEN new \ job'.left[q] ELSE {}]]
      BY <2>1, <2>2, <3>1 DEF Progress
    <3>3. Progress = [q \in Recipient |-> [c \in Category |->
            IF c = job.at /\ q \in job.to THEN new \ job.left[q] ELSE {}]]
      BY <2>2 DEF Progress, new
    <3>4. new \ {} = (new \ rest) \cup rest
      BY <2>3
    <3>5. /\ Progress \in [Recipient -> [Category -> SUBSET Id]]
          /\ Progress' \in [Recipient -> [Category -> SUBSET Id]]
      BY <2>0, <3>2, <3>3
    <3>6. \A q \in Recipient, c \in Category :
            q # r \/ c # job.at => Progress'[q][c] = Progress[q][c]
      BY <2>1, <3>2, <3>3
    <3>7. Progress'[r][job.at] = Progress[r][job.at] \cup rest
      BY <2>1, <2>3, <2>6, <3>2, <3>3, <3>4
    <3>8. Progress' = [Progress EXCEPT ![r][job.at] = Progress'[r][job.at]]
      BY <2>3, <3>5, <3>6, OneEntry
    <3> QED
      BY <3>7, <3>8
  <2>8. Promise!Serve(r, job.at, rest)
    BY <2>4, <2>5, <2>6, <2>7 DEF Promise!Serve
  <2>9. Promise!GiveUp(r, job.at, rest)
    BY <2>1, <2>8 DEF Promise!GiveUp
  <2> QED
    BY <2>2, <2>3, <2>9 DEF Promise!Next, Promise!Id, Id
<1>6. CASE Mark
  <2> DEFINE latest == LatestId(job.page)
             c == job.at
             new == SelectNew(job.page, marker[c])
  <2>1. /\ c \in Category /\ latest \in Id /\ \A n \in job.page : n <= latest
        /\ job.page \subseteq Id /\ job'.stage = "poll" /\ job.stage = "send"
    BY <1>0, <1>6, MarkMoves DEF Mark
  <2>2. /\ marker' = [marker EXCEPT ![c] = IF marker[c] < latest THEN latest ELSE marker[c]]
        /\ UNCHANGED <<received, interrupts>>
    BY <1>6 DEF Mark, Advanced
  <2>3. Progress' = Promise!NothingServed
    BY <2>1 DEF Progress, Promise!NothingServed
  <2>4. Progress = [q \in Recipient |-> [d \in Category |->
          IF d = c /\ q \in job.to THEN new \ job.left[q] ELSE {}]]
    BY <2>1 DEF Progress
  <2>5. new \subseteq job.page /\ marker \in [Category -> 0 .. MaxId]
    BY <1>0 DEF SelectNew, TypeOK
  <2>6. CASE marker[c] < latest
    <3>1. Progress' = [q \in Recipient |-> [Progress[q] EXCEPT ![c] = {}]]
      BY <2>3, <2>4 DEF Promise!NothingServed
    <3>2. \A q \in Recipient : \A n \in Progress[q][c] : n <= latest
      BY <2>1, <2>4, <2>5
    <3>3. marker' = [marker EXCEPT ![c] = latest]
      BY <2>2, <2>6
    <3>4. Promise!Advance(c, latest)
      BY <2>2, <2>6, <3>1, <3>2, <3>3 DEF Promise!Advance
    <3> QED
      BY <2>1, <3>4 DEF Promise!Next, Promise!Id, Id
  <2>7. CASE ~ (marker[c] < latest)
    <3>1. new = {}
      <4>1. marker[c] \in Nat /\ latest \in Nat /\ \A n \in job.page : n \in Nat
        BY <2>1, <2>5, NoticePollAssumption DEF Id
      <4>2. \A n \in job.page : ~ (marker[c] < n)
        BY <2>1, <2>7, <4>1
      <4> QED
        BY <4>2 DEF SelectNew
    <3>2. Progress = Promise!NothingServed
      BY <2>4, <3>1 DEF Promise!NothingServed
    <3>3. marker' = marker
      BY <2>1, <2>2, <2>5, <2>7
    <3> QED
      BY <2>2, <2>3, <3>2, <3>3 DEF Promise!vars
  <2> QED
    BY <2>6, <2>7
<1>7. CASE Interrupt
  <2>1. /\ job'.stage # "send" /\ interrupts' = interrupts + 1
        /\ UNCHANGED <<marker, received>>
    BY <1>7 DEF Interrupt, NoJob, Between
  <2>2. Progress' = Promise!NothingServed
    BY <2>1 DEF Progress, Promise!NothingServed
  <2> QED
    BY <2>1, <2>2 DEF Promise!Next, Promise!Restart
<1>8. CASE StartJob \/ EndJob
  BY <1>2, <1>8 DEF StartJob, EndJob, NoJob, Between
<1>9. ASSUME NEW c \in Category, SkipCategory(c) PROVE UNCHANGED Promise!vars
  <2>1. /\ job.stage # "send" /\ job'.stage # "send"
        /\ UNCHANGED <<marker, received, interrupts>>
    BY <1>0, <1>9 DEF SkipCategory, Job
  <2>2. Progress = Promise!NothingServed
    BY <2>1, NoProgress
  <2>3. Progress' = Promise!NothingServed
    BY <2>1 DEF Progress, Promise!NothingServed
  <2> QED
    BY <2>1, <2>2, <2>3 DEF Promise!vars
<1>10. CASE (\E c \in Category : Publish(c)) \/ (\E r \in Recipient : Toggle(r)) \/ UNCHANGED vars
  BY <1>1, <1>10 DEF Publish, Toggle, vars
<1> QED
  BY <1>3, <1>4, <1>5, <1>6, <1>7, <1>8, <1>9, <1>10 DEF Next, JobStep, Poll

(* The notice job implements the promise: in order above a marker that only *)
(* moves forward, and repeated from the marker after an interruption.      *)
THEOREM Refinement == Spec => Implements
<1>1. Init => Promise!Init /\ Ordered
  <2> SUFFICES ASSUME Init PROVE Promise!Init /\ Ordered
    OBVIOUS
  <2>1. job.stage # "send"
    BY DEF Init, NoJob, Between
  <2> QED
    BY <2>1, NoProgress DEF Init, Promise!Init, Promise!Id, Id, NoMarker, Ordered
<1>2. Inv /\ [Next]_vars => Inv'
  BY TypeStep, AnnouncingStep, CountedStep, BasedStep, SentStep DEF Inv
<1>3. Inv /\ Ordered /\ [Next]_vars => Ordered'
  BY OrderedStep DEF Inv
<1> QED
  BY InvInit, <1>1, <1>2, <1>3, PromiseStep, PTL DEF Spec, Implements, Promise!Spec

=============================================================================
