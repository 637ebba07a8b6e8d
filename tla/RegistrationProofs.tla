------------------------- MODULE RegistrationProofs -------------------------
(***************************************************************************)
(* Registration for any members, characters, keys, dates, cap and number   *)
(* of handlers in flight: each promise holds of everybody for whom the     *)
(* handlers it names have not been open together, although a transaction   *)
(* locks no more than the rows its statements have found.                  *)
(***************************************************************************)
EXTENDS Registration, FiniteSetTheorems, TLAPS

(* What is true of an open session r: of the rows it has locked, ... *)
Renames(r) ==
  \E o \in Ocid : r.want = {o} /\ r.to \in Ocid \ {o} /\ NameOf[r.to] = NameOf[o]

Taken(r) ==
  /\ r.characters = r.want \cup {r.to}
  /\ r.want \subseteq character[r.m] /\ r.to \notin character[r.m]

Shape(r) ==
  /\ r.op \notin {"delete", "refresh"} => r.characters = {}
  /\ r.op = "delete" => r.characters \subseteq r.want \cap character[r.m]
  /\ r.op = "refresh" => Renames(r) /\ (r.characters = {} \/ Taken(r))
  /\ r.op \in {"delete", "refresh"} /\ "character" \in r.todo =>
       r.characters = {} /\ "registration" \in r.todo
  /\ r.op \in {"register", "pin"} => \E o \in Ocid : r.want = {o}
  /\ r.op = "history" => r.key \in Key

(* ... of the room it has found, ... *)
Roomy(r) ==
  r.op \in {"register", "import"} =>
    \/ r.op = "register" /\ r.want \subseteq character[r.m]
    \/ Cardinality(character[r.m]) + Cardinality(r.want) <= MAX_CHARACTERS_PER_USER

(* ... of the pointer, ... *)
Pointing(r) ==
  /\ r.op = "pin" => r.want \subseteq character[r.m]
  /\ r.op = "delete" /\ "registration" \notin r.todo /\ representative[r.m] \in r.characters =>
       "registration" \in r.locked
  /\ r.op = "refresh" =>
       /\ "character" \notin r.todo /\ r.characters = {} => representative[r.m] \notin r.want
       /\ "registration" \notin r.todo /\ representative[r.m] \in r.want =>
            "registration" \in r.locked
       /\ "registration" \in r.locked => representative[r.m] \in r.want

(* ... and of what its transaction leaves to a subscriber. *)
Spared(r) ==
  \/ "character" \in r.todo /\ Cardinality(r.want) < Cardinality(character[r.m])
  \/ "character" \notin r.todo /\ character[r.m] \ r.characters # {}

Reminding(r) ==
  /\ r.op = "remind" => Remindable(r.m)
  /\ r.op \in {"delete", "unkey"} =>
       \/ "subscription" \in r.todo \cup r.locked
       \/ r.m \notin subscription
       \/ r.op = "delete" /\ Spared(r)

Facts(r) ==
  /\ Shape(r)
  /\ r.m \notin crossed.cap => Roomy(r)
  /\ r.m \notin crossed.representative => Pointing(r)
  /\ r.m \notin crossed.subscription => Reminding(r)

Whole(m) ==
  /\ m \notin crossed.cap => Cardinality(character[m]) <= MAX_CHARACTERS_PER_USER
  /\ m \notin crossed.representative => representative[m] \in character[m] \cup {NoOcid}
  /\ m \in subscription \ crossed.subscription => Remindable(m)

(* Two transactions have no row in common. *)
Disjoint(q, r) ==
  q.m = r.m => q.characters \cap r.characters = {} /\ q.locked \cap r.locked = {}

Exclusive ==
  \A p, q \in Session :
    p # q /\ session[p] \in Open /\ session[q] \in Open => Disjoint(session[p], session[q])

Promises ==
  /\ \A s \in Session : session[s] \in Open => Facts(session[s])
  /\ \A m \in Member : Whole(m)

(* A removal that is past its first statement will erase all there is. *)
Erasing(r) ==
  r.op = "unkey" /\ r.key \in Key /\ "history" \notin r.todo /\ r.key \notin crossed.history =>
    \A d \in Date : <<r.key, d>> \in historyCache => d \in r.dates

Clean(k) ==
  /\ \A d \in Date : <<k, d>> \notin historyCache
  /\ \A s \in Session : session[s].op = "history" => session[s].key # k

Forgetting ==
  /\ \A s \in Session : session[s] \in Open => Erasing(session[s])
  /\ \A k \in forgotten : \A m \in Member : apiKey[m] # k
  /\ \A k \in forgotten \ crossed.history : Clean(k)

Inv == TypeOK /\ Exclusive /\ Promises /\ Forgetting

LEMMA CharactersFinite ==
  ASSUME NEW S \in SUBSET Ocid
  PROVE  IsFiniteSet(S) /\ Cardinality(S) \in Nat
  BY RegistrationAssumption, FS_Subset, FS_CardinalityType

LEMMA IdleIsNotOpen == Idle \notin Open
<1>1. Idle.op \notin Op
  BY DEF Idle, Op
<1> QED
  BY <1>1 DEF Open

LEMMA SessionOpen ==
  ASSUME TypeOK, NEW s \in Session, session[s].op # "idle"
  PROVE  session[s] \in Open
  BY DEF TypeOK, Idle

LEMMA OpenFields ==
  ASSUME NEW r \in Open
  PROVE  /\ r.op \in Op /\ r.op # "idle" /\ r.m \in Member /\ r.want \subseteq Ocid
         /\ r.to \in Ocid \cup {NoOcid}
         /\ r.key \in Key \cup {NoKey} /\ r.todo \subseteq Table /\ r.characters \subseteq Ocid
         /\ r.locked \subseteq Table /\ r.dates \subseteq Date
<1>1. "idle" \notin Op
  BY DEF Op
<1> QED
  BY <1>1 DEF Open

LEMMA OfIsOpen ==
  ASSUME TypeOK, NEW m, NEW q
  PROVE  q \in Of(m) <=> q \in Session /\ session[q] \in Open /\ session[q].m = m
  BY SessionOpen, OpenFields DEF Of

LEMMA InitInv == Init => Inv
<1> SUFFICES ASSUME Init PROVE Inv
  OBVIOUS
<1> USE RegistrationAssumption DEF Init
<1>1. TypeOK
  BY DEF TypeOK
<1>2. \A s \in Session : session[s] \notin Open /\ session[s].op = "idle"
  BY IdleIsNotOpen DEF Idle
<1>3. Exclusive
  BY <1>2 DEF Exclusive
<1>4. \A m \in Member : Whole(m)
  BY FS_EmptySet DEF Whole
<1>5. Forgetting
  BY <1>2 DEF Forgetting
<1> QED
  BY <1>1, <1>2, <1>3, <1>4, <1>5 DEF Inv, Promises

-----------------------------------------------------------------------------
(* Steps that touch no row: a session opens, runs a statement, or ends with *)
(* nothing of its transaction.                                             *)

Still == UNCHANGED <<rows, life, crossed, forgotten>>

LEMMA FactsStill ==
  ASSUME Still, NEW r
  PROVE  /\ Facts(r) => Facts(r)'
         /\ Erasing(r) => Erasing(r)'
         /\ \A m : Whole(m) => Whole(m)'
<1>1. /\ character' = character /\ representative' = representative /\ apiKey' = apiKey
      /\ subscription' = subscription /\ historyCache' = historyCache /\ crossed' = crossed
  BY DEF Still, rows
<1>2. Shape(r) = Shape(r)'
  BY <1>1 DEF Shape, Renames, Taken
<1>3. Roomy(r) = Roomy(r)'
  BY <1>1 DEF Roomy
<1>4. Pointing(r) = Pointing(r)'
  BY <1>1 DEF Pointing
<1>5. Reminding(r) = Reminding(r)'
  BY <1>1 DEF Reminding, Spared, Remindable
<1>6. Erasing(r) = Erasing(r)'
  BY <1>1 DEF Erasing
<1>7. \A m : Whole(m) = Whole(m)'
  BY <1>1 DEF Whole, Remindable
<1> QED
  BY <1>1, <1>2, <1>3, <1>4, <1>5, <1>6, <1>7 DEF Facts

LEMMA SessionMoves ==
  ASSUME Inv, NEW s \in Session, NEW r \in Open,
         session' = [session EXCEPT ![s] = r], Still,
         Facts(r), Erasing(r),
         r.op = "history" => r.key \notin forgotten \ crossed.history,
         \A q \in Session \ {s} : session[q] \in Open => Disjoint(r, session[q])
  PROVE  Inv'
<1>1. session'[s] = r /\ \A q \in Session \ {s} : session'[q] = session[q]
  BY DEF Inv, TypeOK
<1>2. TypeOK'
  BY DEF Inv, TypeOK, Still, rows
<1>3. Exclusive'
  <2> SUFFICES ASSUME NEW p \in Session, NEW q \in Session, p # q,
                      session'[p] \in Open, session'[q] \in Open
               PROVE  Disjoint(session'[p], session'[q])
    BY DEF Exclusive, Disjoint
  <2>1. CASE p = s
    BY <1>1, <2>1
  <2>2. CASE q = s
    BY <1>1, <2>2 DEF Disjoint
  <2>3. CASE p # s /\ q # s
    BY <1>1, <2>3 DEF Inv, Exclusive
  <2> QED
    BY <2>1, <2>2, <2>3
<1>4. ASSUME NEW q \in Session, session'[q] \in Open
      PROVE  Facts(session[q])' /\ Erasing(session[q])'
  <2> DEFINE t == session'[q]
  <2>1. Facts(t) /\ Erasing(t)
    BY <1>1, <1>4 DEF Inv, Promises, Forgetting
  <2> HIDE DEF t
  <2>2. PICK u : u = t
    OBVIOUS
  <2>3. Facts(u)' /\ Erasing(u)'
    BY <2>1, <2>2, FactsStill
  <2> QED
    BY <2>2, <2>3 DEF t, Facts, Erasing, Shape, Renames, Taken, Roomy, Pointing,
       Reminding, Spared, Remindable
<1>5. \A m \in Member : Whole(m)'
  BY FactsStill DEF Inv, Promises
<1>6. Promises'
  BY <1>4, <1>5 DEF Promises
<1>7. Forgetting'
  <2>1. forgotten' = forgotten /\ crossed' = crossed /\ apiKey' = apiKey
        /\ historyCache' = historyCache
    BY DEF Still, rows
  <2>2. ASSUME NEW k \in forgotten \ crossed.history PROVE Clean(k)'
    BY <1>1, <2>1, <2>2 DEF Inv, Forgetting, Clean
  <2> QED
    BY <1>4, <2>1, <2>2 DEF Inv, Forgetting
<1> QED
  BY <1>2, <1>3, <1>6, <1>7 DEF Inv

LEMMA SessionEnds ==
  ASSUME Inv, NEW s \in Session, End(s), Still
  PROVE  Inv'
<1>1. session' = [session EXCEPT ![s] = Idle] /\ Idle \notin Open /\ Idle.op # "history"
  BY IdleIsNotOpen DEF End, Idle
<1>2. session'[s] = Idle /\ \A q \in Session \ {s} : session'[q] = session[q]
  BY <1>1 DEF Inv, TypeOK
<1>3. TypeOK'
  BY <1>1 DEF Inv, TypeOK, Still, rows
<1>4. Exclusive'
  BY <1>1, <1>2 DEF Inv, Exclusive, Disjoint
<1>5. ASSUME NEW q \in Session, session'[q] \in Open
      PROVE  Facts(session[q])' /\ Erasing(session[q])'
  <2>1. q # s /\ Facts(session[q]) /\ Erasing(session[q])
    BY <1>1, <1>2, <1>5 DEF Inv, Promises, Forgetting
  <2>2. PICK u : u = session[q]
    OBVIOUS
  <2>3. Facts(u)' /\ Erasing(u)'
    BY <2>1, <2>2, FactsStill
  <2>4. session'[q] = u
    BY <1>2, <2>1, <2>2
  <2> QED
    BY <2>3, <2>4 DEF Facts, Erasing, Shape, Renames, Taken, Roomy, Pointing,
       Reminding, Spared, Remindable
<1>6. Promises'
  BY <1>5, FactsStill DEF Inv, Promises
<1>7. Forgetting'
  <2>1. forgotten' = forgotten /\ crossed' = crossed /\ apiKey' = apiKey
        /\ historyCache' = historyCache
    BY DEF Still, rows
  <2>2. ASSUME NEW k \in forgotten \ crossed.history PROVE Clean(k)'
    BY <1>1, <1>2, <2>1, <2>2 DEF Inv, Forgetting, Clean
  <2> QED
    BY <1>5, <2>1, <2>2 DEF Inv, Forgetting
<1> QED
  BY <1>3, <1>4, <1>6, <1>7 DEF Inv

(* A session that has just been opened holds no row. *)
LEMMA SessionBegins ==
  ASSUME Inv, NEW s \in Session, NEW r \in Open, Begin(s, r),
         r.characters = {}, r.locked = {}, Facts(r),
         r.op = "unkey" /\ r.key \in Key => "history" \in r.todo,
         r.op = "history" => r.key \notin forgotten
  PROVE  Inv'
<1>1. session' = [session EXCEPT ![s] = r] /\ Still
  BY DEF Begin, Still
<1>2. Erasing(r)
  BY DEF Erasing
<1>3. \A q \in Session \ {s} : session[q] \in Open => Disjoint(r, session[q])
  BY DEF Disjoint
<1> QED
  BY <1>1, <1>2, <1>3, SessionMoves

LEMMA ReadingFields ==
  ASSUME NEW op, NEW m
  PROVE  LET r == Reading(op, m)
         IN /\ r.op = op /\ r.m = m /\ r.want = {} /\ r.to = NoOcid /\ r.key = NoKey
            /\ r.todo = {} /\ r.characters = {} /\ r.locked = {} /\ r.dates = {}
            /\ op \in Op /\ m \in Member => r \in Open
  BY DEF Reading, Open

LEMMA Wanting ==
  ASSUME NEW op \in Op, NEW m \in Member, NEW want \in SUBSET Ocid
  PROVE  LET r == [Reading(op, m) EXCEPT !.want = want]
         IN /\ r.op = op /\ r.m = m /\ r.want = want /\ r.key = NoKey /\ r.todo = {}
            /\ r.characters = {} /\ r.locked = {} /\ r \in Open
  BY DEF Reading, Open

-----------------------------------------------------------------------------
(* The reads *)

LEMMA RegisterReads ==
  ASSUME Inv, NEW s \in Session, NEW m \in Member, NEW o \in Ocid, RegisterRead(s, m, o)
  PROVE  Inv'
<1> DEFINE r == [Reading("register", m) EXCEPT !.want = {o}]
<1>1. /\ r \in Open /\ r.op = "register" /\ r.m = m /\ r.want = {o} /\ r.key = NoKey
      /\ r.todo = {} /\ r.characters = {} /\ r.locked = {}
  BY Wanting DEF Op
<1>2. Begin(s, r)
  BY DEF RegisterRead
<1> HIDE DEF r
<1>3. Shape(r)
  BY <1>1 DEF Shape
<1>4. Roomy(r)
  <2>1. CASE o \in character[m]
    BY <1>1, <2>1 DEF Roomy
  <2>2. CASE Cardinality(character[m]) < MAX_CHARACTERS_PER_USER
    <3>1. Cardinality(character[m]) \in Nat
      BY CharactersFinite DEF Inv, TypeOK
    <3>2. Cardinality({o}) = 1
      BY FS_Singleton
    <3>3. Cardinality(character[m]) + Cardinality({o}) <= MAX_CHARACTERS_PER_USER
      BY <2>2, <3>1, <3>2, RegistrationAssumption
    <3> QED
      BY <1>1, <3>3 DEF Roomy
  <2> QED
    BY <2>1, <2>2 DEF RegisterRead
<1>5. Facts(r)
  BY <1>1, <1>3, <1>4 DEF Facts, Pointing, Reminding
<1> QED
  BY <1>1, <1>2, <1>5, SessionBegins

LEMMA ImportReads ==
  ASSUME Inv, NEW s \in Session, NEW m \in Member, NEW picks \in SUBSET Ocid,
         ImportRead(s, m, picks)
  PROVE  Inv'
<1>1. PICK chosen \in Chosen(m, picks) :
        chosen # {} /\ Begin(s, [Reading("import", m) EXCEPT !.want = chosen])
  BY DEF ImportRead
<1>2. /\ chosen \subseteq Ocid
      /\ Cardinality(chosen) <= Room(m) \/ Cardinality(chosen) = Room(m)
  BY DEF Chosen
<1> DEFINE r == [Reading("import", m) EXCEPT !.want = chosen]
<1>3. /\ r \in Open /\ r.op = "import" /\ r.m = m /\ r.want = chosen /\ r.key = NoKey
      /\ r.todo = {} /\ r.characters = {} /\ r.locked = {}
  <2>1. "import" \in Op /\ chosen \in SUBSET Ocid
    BY <1>2 DEF Op
  <2> QED
    BY <1>2, <2>1, Wanting
<1> HIDE DEF r
<1>4. Cardinality(chosen) + Cardinality(character[m]) <= MAX_CHARACTERS_PER_USER
  <2>1. /\ Cardinality(character[m]) \in Nat /\ MAX_CHARACTERS_PER_USER \in Nat
        /\ Cardinality(chosen) \in Nat
    BY <1>2, CharactersFinite, RegistrationAssumption DEF Inv, TypeOK
  <2>2. Cardinality(chosen) # 0
    BY <1>1, <1>2, CharactersFinite, FS_EmptySet
  <2> QED
    BY <1>2, <2>1, <2>2 DEF Room
<1>5. Cardinality(character[m]) + Cardinality(chosen) <= MAX_CHARACTERS_PER_USER
  BY <1>2, <1>4, CharactersFinite DEF Inv, TypeOK
<1>6. Facts(r)
  BY <1>3, <1>5 DEF Facts, Shape, Roomy, Pointing, Reminding
<1> QED
  BY <1>1, <1>3, <1>6, SessionBegins DEF r

LEMMA DeleteReads ==
  ASSUME Inv, NEW s \in Session, NEW m \in Member, NEW wanted \in SUBSET Ocid,
         DeleteRead(s, m, wanted)
  PROVE  Inv'
<1> DEFINE want == wanted \cap character[m]
           todo == {"character", "registration"} \cup
                   {t \in {"subscription"} : character[m] \subseteq wanted}
           r == [Reading("delete", m) EXCEPT !.want = want, !.todo = todo]
<1>1. Begin(s, r)
  BY DEF DeleteRead
<1>2. want \subseteq Ocid /\ todo \subseteq Table
      /\ "character" \in todo /\ "registration" \in todo
      /\ ("subscription" \in todo \/ \E x \in character[m] : x \notin want)
  BY DEF Table
<1>3. want \subseteq character[m]
  OBVIOUS
<1> HIDE DEF want, todo
<1>4. /\ r \in Open /\ r.op = "delete" /\ r.m = m /\ r.want = want /\ r.key = NoKey
      /\ r.todo = todo /\ r.characters = {} /\ r.locked = {}
  <2>1. "delete" \in Op /\ want \in SUBSET Ocid /\ todo \in SUBSET Table
    BY <1>2 DEF Op
  <2> QED
    BY <2>1 DEF Reading, Open
<1> HIDE DEF r
<1>5. Shape(r)
  <2>1. r.op = "delete" /\ r.characters = {} /\ "registration" \in r.todo
    BY <1>2, <1>4
  <2> QED
    BY <2>1 DEF Shape
<1>6. "subscription" \in todo \/ Cardinality(want) < Cardinality(character[m])
  <2>1. IsFiniteSet(character[m])
    BY CharactersFinite DEF Inv, TypeOK
  <2>2. CASE \E x \in character[m] : x \notin want
    <3>1. want # character[m]
      BY <2>2
    <3>2. /\ Cardinality(want) <= Cardinality(character[m])
          /\ Cardinality(want) # Cardinality(character[m])
      <4>1. want \in SUBSET character[m]
        BY <1>3
      <4> QED
        BY <2>1, <3>1, <4>1, FS_Subset
    <3>3. Cardinality(want) \in Nat /\ Cardinality(character[m]) \in Nat
      BY <1>2, CharactersFinite DEF Inv, TypeOK
    <3> QED
      BY <3>2, <3>3
  <2> QED
    BY <1>2, <2>2
<1>7. Facts(r)
  BY <1>2, <1>4, <1>5, <1>6 DEF Facts, Roomy, Pointing, Reminding, Spared
<1> QED
  BY <1>1, <1>4, <1>7, SessionBegins

LEMMA RefreshReads ==
  ASSUME Inv, NEW s \in Session, NEW m \in Member, NEW o \in Ocid, NEW n \in Ocid,
         RefreshRead(s, m, o, n)
  PROVE  Inv'
<1> DEFINE r == [Reading("refresh", m) EXCEPT
                  !.want = {o}, !.to = n, !.todo = {"character", "registration"}]
<1>1. Begin(s, r) /\ n # o /\ NameOf[n] = NameOf[o]
  BY DEF RefreshRead, Successor
<1>2. /\ r \in Open /\ r.op = "refresh" /\ r.m = m /\ r.want = {o} /\ r.to = n
      /\ r.todo = {"character", "registration"} /\ r.characters = {} /\ r.locked = {}
  BY DEF Reading, Open, Op, Table
<1> HIDE DEF r
<1>3. Shape(r)
  BY <1>1, <1>2 DEF Shape, Renames
<1>4. Facts(r)
  BY <1>2, <1>3 DEF Facts, Roomy, Pointing, Reminding
<1> QED
  BY <1>1, <1>2, <1>4, SessionBegins

LEMMA PinReads ==
  ASSUME Inv, NEW s \in Session, NEW m \in Member, NEW o \in Ocid,
         SetRepresentativeRead(s, m, o)
  PROVE  Inv'
<1> DEFINE r == [Reading("pin", m) EXCEPT !.want = {o}]
<1>1. /\ r \in Open /\ r.op = "pin" /\ r.m = m /\ r.want = {o} /\ r.key = NoKey
      /\ r.todo = {} /\ r.characters = {} /\ r.locked = {}
  <2>1. "pin" \in Op /\ {o} \in SUBSET Ocid
    BY DEF Op
  <2> QED
    BY <2>1, Wanting
<1>2. Begin(s, r) /\ o \in character[m]
  BY DEF SetRepresentativeRead
<1> HIDE DEF r
<1>3. Facts(r)
  BY <1>1, <1>2 DEF Facts, Shape, Roomy, Pointing, Reminding
<1> QED
  BY <1>1, <1>2, <1>3, SessionBegins

LEMMA RemoveKeyReads ==
  ASSUME Inv, NEW s \in Session, NEW m \in Member, RemoveKeyRead(s, m)
  PROVE  Inv'
<1>1. PICK r \in Open :
        /\ Begin(s, r)
        /\ r.op = "unkey" /\ r.m = m /\ r.characters = {} /\ r.locked = {}
        /\ "subscription" \in r.todo
        /\ r.key = NoKey \/ "history" \in r.todo
  <2> DEFINE R == Reading("unkey", m)
             a == [R EXCEPT !.key = apiKey[m],
                            !.todo = {"history", "registration", "subscription"}]
             b == [R EXCEPT !.todo = {"registration", "subscription"}]
             c == [R EXCEPT !.todo = {"subscription"}]
  <2>1. apiKey[m] \in Key \cup {NoKey}
    BY DEF Inv, TypeOK
  <2>2. a \in Open /\ b \in Open /\ c \in Open
    BY <2>1 DEF Reading, Open, Op, Table
  <2>3. /\ a.op = "unkey" /\ a.m = m /\ a.characters = {} /\ a.locked = {}
        /\ "subscription" \in a.todo /\ "history" \in a.todo
    BY DEF Reading
  <2>4. /\ b.op = "unkey" /\ b.m = m /\ b.characters = {} /\ b.locked = {}
        /\ "subscription" \in b.todo /\ b.key = NoKey
    BY DEF Reading
  <2>5. /\ c.op = "unkey" /\ c.m = m /\ c.characters = {} /\ c.locked = {}
        /\ "subscription" \in c.todo /\ c.key = NoKey
    BY DEF Reading
  <2>6. Begin(s, a) \/ Begin(s, b) \/ Begin(s, c)
    BY DEF RemoveKeyRead
  <2> HIDE DEF a, b, c
  <2> QED
    BY <2>2, <2>3, <2>4, <2>5, <2>6
<1>2. Facts(r)
  BY <1>1 DEF Facts, Shape, Roomy, Pointing, Reminding
<1>3. r.key \in Key => "history" \in r.todo
  BY <1>1, RegistrationAssumption
<1> QED
  BY <1>1, <1>2, <1>3, SessionBegins

LEMMA ReminderOnReads ==
  ASSUME Inv, NEW s \in Session, NEW m \in Member, ReminderOnRead(s, m)
  PROVE  Inv'
<1> DEFINE r == Reading("remind", m)
<1>1. /\ r \in Open /\ r.op = "remind" /\ r.m = m /\ r.characters = {} /\ r.locked = {}
  BY ReadingFields DEF Op
<1>2. Begin(s, r) /\ Remindable(m)
  BY DEF ReminderOnRead
<1> HIDE DEF r
<1>3. Facts(r)
  BY <1>1, <1>2 DEF Facts, Shape, Roomy, Pointing, Reminding
<1> QED
  BY <1>1, <1>2, <1>3, SessionBegins

LEMMA HistoryReads ==
  ASSUME Inv, NEW s \in Session, NEW m \in Member, HistoryRead(s, m)
  PROVE  Inv'
<1> DEFINE r == [Reading("history", m) EXCEPT !.key = apiKey[m]]
<1>1. apiKey[m] \in Key /\ Begin(s, r)
  BY DEF HistoryRead, Inv, TypeOK
<1>2. /\ r \in Open /\ r.op = "history" /\ r.m = m /\ r.characters = {} /\ r.locked = {}
      /\ r.key = apiKey[m]
  BY <1>1 DEF Reading, Open, Op
<1>3. apiKey[m] \notin forgotten
  BY DEF Inv, Forgetting
<1> HIDE DEF r
<1>4. Facts(r)
  BY <1>1, <1>2 DEF Facts, Shape, Roomy, Pointing, Reminding
<1> QED
  BY <1>1, <1>2, <1>3, <1>4, SessionBegins

LEMMA StartKeeps ==
  ASSUME Inv, NEW s \in Session, NEW m \in Member, Start(s, m)
  PROVE  Inv'
  BY RegisterReads, ImportReads, DeleteReads, RefreshReads, PinReads, RemoveKeyReads,
     ReminderOnReads, HistoryReads DEF Start

-----------------------------------------------------------------------------
(* The statements: what is locked is what was found, and nobody else has it. *)

LEMMA OthersHold ==
  ASSUME Inv, NEW s \in Session, session[s] \in Open,
         NEW q \in Session \ {s}, session[q] \in Open, session[q].m = session[s].m
  PROVE  /\ session[q].characters \subseteq LockedCharacters(session[s].m)
         /\ session[q].locked \subseteq LockedRows(session[s].m)
<1>1. q \in Of(session[s].m)
  BY OfIsOpen DEF Inv
<1> QED
  BY <1>1 DEF LockedCharacters, LockedRows

LEMMA StatementKeeps ==
  ASSUME Inv, NEW s \in Session, Statement(s)
  PROVE  Inv'
<1> DEFINE r == session[s]
<1>0. session[s] \in Open
  <2>1. session[s].op # "idle"
    BY DEF Statement, HistoryStatement, CharacterStatement, RegistrationStatement,
           SubscriptionStatement
  <2> QED
    BY <2>1, SessionOpen DEF Inv
<1>1. PICK b \in Open : b = session[s]
  BY <1>0
<1>2. /\ Facts(b) /\ Erasing(b)
      /\ b.op = "history" => b.key \notin forgotten \ crossed.history
      /\ b.m \in Member /\ Whole(b.m)
  BY <1>1, OpenFields DEF Inv, Promises, Forgetting, Clean
<1>3. \A q \in Session \ {s} : session[q] \in Open => Disjoint(b, session[q])
  BY <1>1 DEF Inv, Exclusive
<1>4. CASE HistoryStatement(s)
  <2> DEFINE found == {d \in Date : <<b.key, d>> \in historyCache}
             c == [b EXCEPT !.todo = @ \ {"history"}, !.dates = found]
  <2>1. session' = [session EXCEPT ![s] = c] /\ Still /\ b.op = "unkey"
    BY <1>1, <1>4 DEF HistoryStatement, Runs, Still
  <2>2. /\ c \in Open /\ c.op = b.op /\ c.m = b.m /\ c.key = b.key /\ c.want = b.want
        /\ c.characters = b.characters /\ c.locked = b.locked
        /\ c.todo = b.todo \ {"history"} /\ c.dates = found
    BY DEF Open
  <2>3. \A d \in Date : <<b.key, d>> \in historyCache => d \in found
    OBVIOUS
  <2> HIDE DEF c, found
  <2>4. Facts(c)
    BY <1>2, <2>1, <2>2 DEF Facts, Shape, Roomy, Pointing, Reminding
  <2>5. Erasing(c)
    BY <2>2, <2>3 DEF Erasing
  <2>6. \A q \in Session \ {s} : session[q] \in Open => Disjoint(c, session[q])
    BY <1>3, <2>2 DEF Disjoint
  <2> QED
    BY <2>1, <2>2, <2>4, <2>5, <2>6, SessionMoves
<1>5. CASE CharacterStatement(s)
  <2> DEFINE found == IF b.op = "delete" THEN b.want \cap character[b.m]
                      ELSE IF b.want \subseteq character[b.m] THEN b.want \cup {b.to} ELSE {}
             c == [b EXCEPT !.todo = @ \ {"character"}, !.characters = found]
  <2>1. /\ session' = [session EXCEPT ![s] = c] /\ Still
        /\ b.op \in {"delete", "refresh"} /\ "character" \in b.todo
        /\ found \cap LockedCharacters(b.m) = {} /\ ~ Collides(s)
    BY <1>1, <1>5 DEF CharacterStatement, Runs, Still
  <2>2. b.op = "refresh" => \E o \in Ocid : b.want = {o} /\ b.to \in Ocid
    BY <1>2 DEF Facts, Shape, Renames
  <2>3. b.want \subseteq Ocid
    BY OpenFields
  <2>4. found \in SUBSET Ocid
    BY <2>1, <2>2, <2>3
  <2>5. /\ c \in Open /\ c.op = b.op /\ c.m = b.m /\ c.key = b.key /\ c.want = b.want
        /\ c.characters = found /\ c.locked = b.locked /\ c.to = b.to
        /\ c.todo = b.todo \ {"character"} /\ c.dates = b.dates
    BY <2>4 DEF Open
  <2>6. b.op = "refresh" =>
          \/ found = {} /\ ~ b.want \subseteq character[b.m]
          \/ /\ found = b.want \cup {b.to}
             /\ b.want \subseteq character[b.m] /\ b.to \notin character[b.m]
    BY <1>1, <2>1 DEF Collides
  <2>7. b.op = "delete" => found = b.want \cap character[b.m]
    OBVIOUS
  <2> HIDE DEF c, found
  <2>8. Shape(c)
    BY <1>2, <2>1, <2>5, <2>6, <2>7 DEF Facts, Shape, Renames, Taken
  <2>9. c.m \notin crossed.representative => Pointing(c)
    <3>1. "registration" \in c.todo
      BY <1>2, <2>1, <2>5 DEF Facts, Shape
    <3>2. CASE c.op = "delete"
      BY <3>1, <3>2 DEF Pointing
    <3>3. CASE c.op = "refresh" /\ c.m \notin crossed.representative
      <4>1. representative[b.m] \in character[b.m] \cup {NoOcid}
        BY <1>2, <2>5, <3>3 DEF Whole
      <4>2. found = {} => representative[b.m] \notin b.want
        BY <2>2, <2>5, <2>6, <3>3, <4>1, RegistrationAssumption
      <4>3. Pointing(b)
        BY <1>2, <2>5, <3>3 DEF Facts
      <4> QED
        BY <2>5, <3>1, <3>3, <4>2, <4>3 DEF Pointing
    <3> QED
      BY <2>1, <2>5, <3>2, <3>3
  <2>10. c.m \notin crossed.subscription => Reminding(c)
    <3> SUFFICES ASSUME c.m \notin crossed.subscription PROVE Reminding(c)
      OBVIOUS
    <3>1. Reminding(b)
      BY <1>2, <2>5 DEF Facts
    <3>2. CASE b.op = "delete" /\ Spared(b)
      <4>1. Cardinality(b.want) < Cardinality(character[b.m])
        BY <2>1, <3>2 DEF Spared
      <4>2. character[b.m] \ found # {}
        <5>1. b.want # character[b.m]
          <6>1. Cardinality(character[b.m]) \in Nat
            BY <1>2, CharactersFinite DEF Inv, TypeOK
          <6> QED
            BY <4>1, <6>1
        <5>2. CASE character[b.m] \subseteq b.want
          <6>1. /\ IsFiniteSet(b.want) /\ Cardinality(b.want) \in Nat
                /\ Cardinality(character[b.m]) \in Nat
            BY <1>2, <2>3, CharactersFinite DEF Inv, TypeOK
          <6>2. Cardinality(character[b.m]) <= Cardinality(b.want)
            BY <5>2, <6>1, FS_Subset
          <6> QED
            BY <4>1, <6>1, <6>2
        <5>3. CASE ~ character[b.m] \subseteq b.want
          BY <2>7, <3>2, <5>3
        <5> QED
          BY <5>2, <5>3
      <4> QED
        BY <2>5, <3>2, <4>2 DEF Reminding, Spared
    <3>3. CASE "subscription" \in b.todo \cup b.locked \/ b.m \notin subscription
      BY <2>1, <2>5, <3>3 DEF Reminding
    <3>4. CASE b.op = "refresh"
      BY <2>5, <3>4 DEF Reminding
    <3> QED
      BY <2>1, <3>1, <3>2, <3>3, <3>4 DEF Reminding
  <2>11. Facts(c)
    BY <2>1, <2>5, <2>8, <2>9, <2>10 DEF Facts, Roomy
  <2>12. Erasing(c)
    BY <2>1, <2>5 DEF Erasing
  <2>13. ASSUME NEW q \in Session \ {s}, session[q] \in Open PROVE Disjoint(c, session[q])
    <3>1. session[q].m = b.m => session[q].characters \cap found = {}
      BY <1>1, <2>1, <2>13, OthersHold
    <3> QED
      BY <1>3, <2>5, <2>13, <3>1 DEF Disjoint
  <2>14. c.op # "history"
    BY <2>1, <2>5
  <2> QED
    BY <2>1, <2>5, <2>11, <2>12, <2>13, <2>14, SessionMoves
<1>6. CASE RegistrationStatement(s)
  <2> DEFINE found == {t \in {"registration"} : b.op = "unkey" \/ representative[b.m] \in b.want}
             c == [b EXCEPT !.todo = @ \ {"registration"}, !.locked = @ \cup found]
  <2>1. /\ session' = [session EXCEPT ![s] = c] /\ Still
        /\ b.op \in {"delete", "unkey", "refresh"} /\ "registration" \in b.todo
        /\ b.todo \cap {"history", "character"} = {}
        /\ found \cap LockedRows(b.m) = {}
    BY <1>1, <1>6 DEF RegistrationStatement, Runs, Still
  <2>2. found \subseteq Table /\ "subscription" \notin found
    BY DEF Table
  <2>3. b.op # "unkey" => ("registration" \in found <=> representative[b.m] \in b.want)
    OBVIOUS
  <2>4. /\ c \in Open /\ c.op = b.op /\ c.m = b.m /\ c.key = b.key /\ c.want = b.want
        /\ c.characters = b.characters /\ c.locked = b.locked \cup found /\ c.to = b.to
        /\ c.todo = b.todo \ {"registration"} /\ c.dates = b.dates
    BY <2>2 DEF Open
  <2> HIDE DEF c, found
  <2>5. Shape(c)
    BY <1>2, <2>1, <2>4 DEF Facts, Shape, Renames, Taken
  <2>6. c.m \notin crossed.representative => Pointing(c)
    <3> SUFFICES ASSUME c.m \notin crossed.representative PROVE Pointing(c)
      OBVIOUS
    <3>1. Pointing(b)
      BY <1>2, <2>4 DEF Facts
    <3>2. b.op = "delete" => b.characters \subseteq b.want
      BY <1>2 DEF Facts, Shape
    <3> QED
      BY <2>1, <2>3, <2>4, <3>1, <3>2 DEF Pointing
  <2>7. c.m \notin crossed.subscription => Reminding(c)
    BY <1>2, <2>1, <2>4 DEF Facts, Reminding, Spared
  <2>8. Facts(c)
    BY <2>1, <2>4, <2>5, <2>6, <2>7 DEF Facts, Roomy
  <2>9. Erasing(c)
    BY <1>2, <2>4 DEF Erasing
  <2>10. ASSUME NEW q \in Session \ {s}, session[q] \in Open PROVE Disjoint(c, session[q])
    <3>1. session[q].m = b.m => session[q].locked \cap found = {}
      BY <1>1, <2>1, <2>10, OthersHold
    <3> QED
      BY <1>3, <2>4, <2>10, <3>1 DEF Disjoint
  <2>11. c.op # "history"
    BY <2>1, <2>4
  <2> QED
    BY <2>1, <2>4, <2>8, <2>9, <2>10, <2>11, SessionMoves
<1>7. CASE SubscriptionStatement(s)
  <2> DEFINE found == {t \in {"subscription"} : b.m \in subscription}
             c == [b EXCEPT !.todo = {}, !.locked = @ \cup found]
  <2>1. /\ session' = [session EXCEPT ![s] = c] /\ Still
        /\ b.op \in {"delete", "unkey"} /\ b.todo = {"subscription"}
        /\ found \cap LockedRows(b.m) = {}
    BY <1>1, <1>7 DEF SubscriptionStatement, Runs, Still
  <2>2. found \subseteq Table /\ "registration" \notin found
    BY DEF Table
  <2>3. "subscription" \in found \/ b.m \notin subscription
    OBVIOUS
  <2>4. /\ c \in Open /\ c.op = b.op /\ c.m = b.m /\ c.key = b.key /\ c.want = b.want
        /\ c.characters = b.characters /\ c.locked = b.locked \cup found
        /\ c.todo = {} /\ c.dates = b.dates
    BY <2>2 DEF Open
  <2> HIDE DEF c, found
  <2>5. Shape(c)
    BY <1>2, <2>1, <2>4 DEF Facts, Shape
  <2>6. c.m \notin crossed.representative => Pointing(c)
    BY <1>2, <2>1, <2>4 DEF Facts, Pointing
  <2>7. Reminding(c)
    BY <2>1, <2>3, <2>4 DEF Reminding
  <2>8. Facts(c)
    BY <2>1, <2>4, <2>5, <2>6, <2>7 DEF Facts, Roomy
  <2>9. Erasing(c)
    BY <1>2, <2>1, <2>4 DEF Erasing
  <2>10. ASSUME NEW q \in Session \ {s}, session[q] \in Open PROVE Disjoint(c, session[q])
    <3>1. session[q].m = b.m => session[q].locked \cap found = {}
      BY <1>1, <2>1, <2>10, OthersHold
    <3> QED
      BY <1>3, <2>4, <2>10, <3>1 DEF Disjoint
  <2>11. c.op # "history"
    BY <2>1, <2>4
  <2> QED
    BY <2>1, <2>4, <2>8, <2>9, <2>10, <2>11, SessionMoves
<1> QED
  BY <1>4, <1>5, <1>6, <1>7 DEF Statement

-----------------------------------------------------------------------------
(* The commits.  What the handlers of the same member that are open beside *)
(* a commit must not be, unless it is noted.                               *)

ApartCap(a, b) ==
  /\ ~ (a.op \in {"register", "import"} /\ b.op \in {"register", "import"})
  /\ {a.op, b.op} = {"register", "refresh"} => a.want \cap b.want = {}

ApartPointer(a, b) ==
  /\ a.op = "pin" /\ b.op \in {"delete", "refresh"} => a.want \cap b.want = {}
  /\ b.op = "pin" /\ a.op \in {"delete", "refresh"} => a.want \cap b.want = {}
  /\ a.op = "refresh" /\ b.op = "refresh" => a.to \notin b.want

ApartSubscription(a, b) ==
  /\ ~ (a.op = "remind" /\ b.op \in {"delete", "unkey"})
  /\ ~ (b.op = "remind" /\ a.op \in {"delete", "unkey"})
  /\ ~ (a.op = "delete" /\ b.op = "delete")

LEMMA Noted ==
  ASSUME Inv, NEW s \in Session, session[s] \in Open, NoteCrossing(s)
  PROVE  /\ crossed.cap \subseteq crossed'.cap
         /\ crossed.representative \subseteq crossed'.representative
         /\ crossed.subscription \subseteq crossed'.subscription
         /\ crossed.history \subseteq crossed'.history
         /\ \A q \in Session \ {s} :
              session[q] \in Open /\ session[q].m = session[s].m =>
                /\ session[s].m \notin crossed'.cap => ApartCap(session[s], session[q])
                /\ session[s].m \notin crossed'.representative =>
                     ApartPointer(session[s], session[q])
                /\ session[s].m \notin crossed'.subscription =>
                     ApartSubscription(session[s], session[q])
<1>1. /\ crossed'.cap = crossed.cap \cup {m \in {session[s].m} : CapCrossed(s)}
      /\ crossed'.representative =
           crossed.representative \cup {m \in {session[s].m} : RepresentativeCrossed(s)}
      /\ crossed'.subscription =
           crossed.subscription \cup {m \in {session[s].m} : SubscriptionCrossed(s)}
      /\ crossed'.history = crossed.history \cup {k \in {session[s].key} : HistoryCrossed(s)}
  BY DEF NoteCrossing
<1>2. ASSUME NEW q \in Session \ {s}, session[q] \in Open, session[q].m = session[s].m
      PROVE  /\ ~ CapCrossed(s) => ApartCap(session[s], session[q])
             /\ ~ RepresentativeCrossed(s) => ApartPointer(session[s], session[q])
             /\ ~ SubscriptionCrossed(s) => ApartSubscription(session[s], session[q])
  <2>1. q \in Of(session[s].m) \ {s}
    BY <1>2, OfIsOpen DEF Inv
  <2>2. ASSUME ~ CapCrossed(s) PROVE ApartCap(session[s], session[q])
    BY <2>1, <2>2 DEF CapCrossed, ApartCap, Pair, SameCharacter
  <2>3. ASSUME ~ RepresentativeCrossed(s) PROVE ApartPointer(session[s], session[q])
    <3>1. /\ ~ (Pair(s, q) = {"pin", "delete"} /\ SameCharacter(s, q))
          /\ ~ (Pair(s, q) = {"pin", "refresh"} /\ SameCharacter(s, q))
          /\ ~ (Pair(s, q) = {"refresh"} /\ session[s].to \in session[q].want)
      BY <2>1, <2>3 DEF RepresentativeCrossed
    <3> QED
      BY <3>1 DEF ApartPointer, Pair, SameCharacter
  <2>4. ASSUME ~ SubscriptionCrossed(s) PROVE ApartSubscription(session[s], session[q])
    <3>1. /\ Pair(s, q) # {"remind", "delete"} /\ Pair(s, q) # {"remind", "unkey"}
          /\ Pair(s, q) # {"delete"}
      BY <2>1, <2>4 DEF SubscriptionCrossed
    <3> QED
      BY <3>1 DEF ApartSubscription, Pair
  <2> QED
    BY <2>2, <2>3, <2>4
<1> QED
  BY <1>1, <1>2

(* A step that changes the rows of one member and ends a session or none.  *)
LEMMA MemberMoves ==
  ASSUME Inv, NEW m \in Member,
         \A q \in Session : session'[q] \in Open => session'[q] = session[q],
         crossed.cap \subseteq crossed'.cap,
         crossed.representative \subseteq crossed'.representative,
         crossed.subscription \subseteq crossed'.subscription,
         \A n \in Member \ {m} :
           /\ character'[n] = character[n] /\ representative'[n] = representative[n]
           /\ apiKey'[n] = apiKey[n] /\ (n \in subscription' => n \in subscription),
         \A q \in Session : \A r \in Open :
           session'[q] = r /\ session[q] = r /\ r.m = m => Facts(r)',
         Whole(m)'
  PROVE  Exclusive' /\ Promises'
<1>1. Exclusive'
  BY DEF Inv, Exclusive, Disjoint
<1>2. ASSUME NEW q \in Session, session'[q] \in Open PROVE Facts(session[q])'
  <2>1. PICK r \in Open : r = session[q] /\ r = session'[q]
    BY <1>2
  <2>2. Facts(r) /\ r.m \in Member
    BY <2>1, OpenFields DEF Inv, Promises
  <2>3. Facts(r)'
    <3>1. CASE r.m = m
      BY <2>1, <3>1
    <3>2. CASE r.m # m
      <4>1. /\ character'[r.m] = character[r.m] /\ representative'[r.m] = representative[r.m]
            /\ apiKey'[r.m] = apiKey[r.m] /\ (r.m \in subscription' => r.m \in subscription)
        BY <2>2, <3>2
      <4>2. Shape(r)'
        BY <2>2, <4>1 DEF Facts, Shape, Renames, Taken
      <4>3. r.m \notin crossed'.cap => Roomy(r)'
        BY <2>2, <4>1 DEF Facts, Roomy
      <4>4. r.m \notin crossed'.representative => Pointing(r)'
        BY <2>2, <4>1 DEF Facts, Pointing
      <4>5. r.m \notin crossed'.subscription => Reminding(r)'
        BY <2>2, <4>1 DEF Facts, Reminding, Spared, Remindable
      <4> QED
        BY <4>2, <4>3, <4>4, <4>5 DEF Facts
    <3> QED
      BY <3>1, <3>2
  <2> QED
    BY <2>1, <2>3 DEF Facts, Shape, Renames, Taken, Roomy, Pointing,
       Reminding, Spared, Remindable
<1>3. ASSUME NEW n \in Member PROVE Whole(n)'
  <2>1. CASE n = m
    BY <2>1
  <2>2. CASE n # m
    BY <2>2 DEF Inv, Promises, Whole, Remindable
  <2> QED
    BY <2>1, <2>2
<1> QED
  BY <1>1, <1>2, <1>3 DEF Promises

(* What is known of the other sessions of the member when s commits. *)
LEMMA Beside ==
  ASSUME Inv, NEW s \in Session, NEW a \in Open, a = session[s],
         End(s), NoteCrossing(s)
  PROVE  /\ session' \in [Session -> Open \cup {Idle}]
         /\ \A q \in Session : session'[q] \in Open => q # s /\ session'[q] = session[q]
         /\ \A q \in Session : \A r \in Open :
              session'[q] = r /\ session[q] = r /\ r.m = a.m =>
                /\ Facts(r) /\ Disjoint(a, r)
                /\ r.characters \subseteq LockedCharacters(a.m)
                /\ r.locked \subseteq LockedRows(a.m)
                /\ a.m \notin crossed'.cap => ApartCap(a, r)
                /\ a.m \notin crossed'.representative => ApartPointer(a, r)
                /\ a.m \notin crossed'.subscription => ApartSubscription(a, r)
<1>1. session' = [session EXCEPT ![s] = Idle] /\ Idle \notin Open
  BY IdleIsNotOpen DEF End
<1>2. session' \in [Session -> Open \cup {Idle}]
  BY <1>1 DEF Inv, TypeOK
<1>3. session'[s] \notin Open /\ \A q \in Session \ {s} : session'[q] = session[q]
  BY <1>1 DEF Inv, TypeOK
<1>4. ASSUME NEW q \in Session, NEW r \in Open,
             session'[q] = r, session[q] = r, r.m = a.m
      PROVE  /\ Facts(r) /\ Disjoint(a, r)
             /\ r.characters \subseteq LockedCharacters(a.m)
             /\ r.locked \subseteq LockedRows(a.m)
             /\ a.m \notin crossed'.cap => ApartCap(a, r)
             /\ a.m \notin crossed'.representative => ApartPointer(a, r)
             /\ a.m \notin crossed'.subscription => ApartSubscription(a, r)
  <2>1. q \in Session \ {s} /\ session[q] \in Open /\ session[q].m = session[s].m
    BY <1>3, <1>4
  <2>2. Facts(r) /\ Disjoint(a, r)
    BY <1>4, <2>1 DEF Inv, Promises, Exclusive
  <2>3. r.characters \subseteq LockedCharacters(a.m) /\ r.locked \subseteq LockedRows(a.m)
    BY <1>4, <2>1, OthersHold
  <2>4. /\ a.m \notin crossed'.cap => ApartCap(a, r)
        /\ a.m \notin crossed'.representative => ApartPointer(a, r)
        /\ a.m \notin crossed'.subscription => ApartSubscription(a, r)
    BY <1>4, <2>1, Noted
  <2> QED
    BY <2>2, <2>3, <2>4
<1> QED
  BY <1>2, <1>3, <1>4

LEMMA NotedType ==
  ASSUME Inv, NEW s \in Session, session[s] \in Open, NoteCrossing(s)
  PROVE  crossed' \in [cap : SUBSET Member, representative : SUBSET Member,
                       subscription : SUBSET Member, history : SUBSET (Key \cup {NoKey})]
<1>1. session[s].m \in Member /\ session[s].key \in Key \cup {NoKey}
  BY OpenFields
<1>2. /\ {m \in {session[s].m} : CapCrossed(s)} \subseteq Member
      /\ {m \in {session[s].m} : RepresentativeCrossed(s)} \subseteq Member
      /\ {m \in {session[s].m} : SubscriptionCrossed(s)} \subseteq Member
      /\ {k \in {session[s].key} : HistoryCrossed(s)} \subseteq Key \cup {NoKey}
  BY <1>1
<1>3. /\ crossed.cap \subseteq Member /\ crossed.representative \subseteq Member
      /\ crossed.subscription \subseteq Member /\ crossed.history \subseteq Key \cup {NoKey}
  BY DEF Inv, TypeOK
<1> QED
  BY <1>2, <1>3 DEF NoteCrossing

(* History is left alone by the commits of the other handlers. *)
LEMMA ForgettingStays ==
  ASSUME Inv, NEW s \in Session, session[s] \in Open, End(s), NoteCrossing(s),
         UNCHANGED <<apiKey, historyCache, forgotten>>
  PROVE  Forgetting'
<1>1. session' = [session EXCEPT ![s] = Idle] /\ Idle \notin Open /\ Idle.op # "history"
  BY IdleIsNotOpen DEF End, Idle
<1>2. session'[s] = Idle /\ \A q \in Session \ {s} : session'[q] = session[q]
  BY <1>1 DEF Inv, TypeOK
<1>3. crossed.history \subseteq crossed'.history
  BY Noted
<1>4. ASSUME NEW q \in Session, session'[q] \in Open PROVE Erasing(session[q])'
  BY <1>1, <1>2, <1>3, <1>4 DEF Inv, Forgetting, Erasing
<1>5. ASSUME NEW k \in forgotten \ crossed'.history PROVE Clean(k)'
  BY <1>1, <1>2, <1>3, <1>5 DEF Inv, Forgetting, Clean
<1> QED
  BY <1>4, <1>5 DEF Inv, Forgetting

-----------------------------------------------------------------------------
(* A registration and an import add what they want to what is there. *)
LEMMA InsertKeeps ==
  ASSUME Inv, NEW s \in Session, RegisterCommit(s) \/ ImportCommit(s)
  PROVE  Inv'
<1>1. session[s].op \in {"register", "import"} /\ Insert(s)
  BY DEF RegisterCommit, ImportCommit
<1>2. PICK a \in Open : a = session[s]
  BY <1>1, SessionOpen DEF Inv
<1> DEFINE m == a.m
<1>3. /\ m \in Member /\ a.want \subseteq Ocid /\ character[m] \subseteq Ocid
      /\ a.want \cap LockedCharacters(m) = {}
      /\ character' = [character EXCEPT ![m] = @ \cup a.want]
      /\ NoteCrossing(s) /\ End(s)
      /\ UNCHANGED <<representative, apiKey, subscription, historyCache, life, forgotten>>
  BY <1>1, <1>2, OpenFields DEF Insert, Inv, TypeOK
<1> HIDE DEF m
<1>4. /\ character'[m] = character[m] \cup a.want
      /\ \A n \in Member \ {m} : character'[n] = character[n]
  BY <1>3 DEF Inv, TypeOK
<1>5. /\ IsFiniteSet(character[m]) /\ Cardinality(character[m]) \in Nat
      /\ IsFiniteSet(a.want) /\ Cardinality(a.want) \in Nat
      /\ IsFiniteSet(character'[m]) /\ Cardinality(character'[m]) \in Nat
      /\ MAX_CHARACTERS_PER_USER \in Nat
  BY <1>3, <1>4, CharactersFinite, RegistrationAssumption
<1>6. Cardinality(character[m]) <= Cardinality(character'[m])
  BY <1>4, <1>5, FS_Subset
<1>7. Cardinality(character'[m]) <= Cardinality(character[m]) + Cardinality(a.want)
  <2>1. /\ Cardinality(character'[m])
              = Cardinality(character[m]) + Cardinality(a.want)
                - Cardinality(character[m] \cap a.want)
        /\ Cardinality(character[m] \cap a.want) \in Nat
    BY <1>3, <1>4, <1>5, FS_Union, FS_Intersection, FS_CardinalityType
  <2> QED
    BY <1>5, <2>1
<1>8. TypeOK'
  <2>1. character' \in [Member -> SUBSET Ocid]
    BY <1>3 DEF Inv, TypeOK
  <2> QED
    BY <1>2, <1>3, <2>1, Beside, NotedType DEF Inv, TypeOK
<1>9. ASSUME NEW q \in Session, NEW r \in Open, session'[q] = r, session[q] = r, r.m = m
      PROVE  Facts(r)'
  <2>1. /\ Facts(r) /\ r.characters \cap a.want = {}
        /\ m \notin crossed'.cap => ApartCap(a, r)
        /\ crossed.cap \subseteq crossed'.cap
        /\ crossed.representative \subseteq crossed'.representative
        /\ crossed.subscription \subseteq crossed'.subscription
    BY <1>2, <1>3, <1>9, Beside, Noted DEF m
  <2>2. Shape(r)'
    BY <1>4, <1>9, <2>1 DEF Facts, Shape, Renames, Taken
  <2>3. m \notin crossed'.cap => Roomy(r)'
    BY <1>1, <1>2, <2>1 DEF Roomy, ApartCap
  <2>4. m \notin crossed'.representative => Pointing(r)'
    BY <1>3, <1>4, <1>9, <2>1 DEF Facts, Pointing
  <2>5. m \notin crossed'.subscription => Reminding(r)'
    <3> SUFFICES ASSUME m \notin crossed'.subscription PROVE Reminding(r)'
      OBVIOUS
    <3>1. Reminding(r)
      BY <1>9, <2>1 DEF Facts
    <3>2. Spared(r) => Spared(r)'
      <4>1. Cardinality(r.want) \in Nat
        BY OpenFields, CharactersFinite
      <4>2. Cardinality(r.want) < Cardinality(character[m]) =>
              Cardinality(r.want) < Cardinality(character'[m])
        BY <1>5, <1>6, <4>1
      <4>3. character[m] \subseteq character'[m]
        BY <1>4
      <4> QED
        BY <1>9, <4>2, <4>3 DEF Spared
    <3> QED
      BY <1>3, <1>4, <1>9, <3>1, <3>2 DEF Reminding, Remindable
  <2> QED
    BY <1>9, <2>2, <2>3, <2>4, <2>5 DEF Facts
<1>10. Whole(m)'
  <2>1. Whole(m) /\ Facts(a)
    BY <1>2, <1>3 DEF Inv, Promises
  <2>2. /\ crossed.cap \subseteq crossed'.cap
        /\ crossed.representative \subseteq crossed'.representative
        /\ crossed.subscription \subseteq crossed'.subscription
    BY <1>2, <1>3, Noted
  <2>3. m \notin crossed'.cap => Cardinality(character'[m]) <= MAX_CHARACTERS_PER_USER
    <3> SUFFICES ASSUME m \notin crossed'.cap
                 PROVE  Cardinality(character'[m]) <= MAX_CHARACTERS_PER_USER
      OBVIOUS
    <3>1. Roomy(a) /\ Cardinality(character[m]) <= MAX_CHARACTERS_PER_USER
      BY <2>1, <2>2 DEF Facts, Whole, m
    <3>2. CASE a.want \subseteq character[m]
      <4>1. character'[m] = character[m]
        BY <1>4, <3>2
      <4> QED
        BY <3>1, <4>1
    <3>3. CASE Cardinality(character[m]) + Cardinality(a.want) <= MAX_CHARACTERS_PER_USER
      BY <1>5, <1>7, <3>3
    <3> QED
      BY <1>1, <1>2, <3>1, <3>2, <3>3 DEF Roomy, m
  <2>4. m \notin crossed'.representative => representative'[m] \in character'[m] \cup {NoOcid}
    BY <1>3, <1>4, <2>1, <2>2 DEF Whole
  <2>5. m \in subscription' \ crossed'.subscription => Remindable(m)'
    BY <1>3, <1>4, <2>1, <2>2 DEF Whole, Remindable
  <2> QED
    BY <2>3, <2>4, <2>5 DEF Whole
<1>11. Exclusive' /\ Promises'
  <2>1. \A q \in Session : session'[q] \in Open => session'[q] = session[q]
    BY <1>2, <1>3, Beside
  <2>2. /\ crossed.cap \subseteq crossed'.cap
        /\ crossed.representative \subseteq crossed'.representative
        /\ crossed.subscription \subseteq crossed'.subscription
    BY <1>2, <1>3, Noted
  <2> QED
    BY <1>3, <1>4, <1>9, <1>10, <2>1, <2>2, MemberMoves
<1>12. Forgetting'
  BY <1>2, <1>3, ForgettingStays
<1> QED
  BY <1>8, <1>11, <1>12 DEF Inv

LEMMA DeleteKeeps ==
  ASSUME Inv, NEW s \in Session, DeleteCommit(s)
  PROVE  Inv'
<1>1. PICK a \in Open : a = session[s]
  BY SessionOpen DEF Inv, DeleteCommit
<1> DEFINE m == a.m
<1>2. /\ m \in Member /\ a.op = "delete" /\ a.todo = {} /\ character[m] \subseteq Ocid
      /\ character' = [character EXCEPT ![m] = @ \ a.characters]
      /\ representative' = [representative EXCEPT ![m] =
                              IF "registration" \in a.locked THEN NoOcid ELSE @]
      /\ subscription' = subscription \ {n \in {m} : "subscription" \in a.locked}
      /\ NoteCrossing(s) /\ End(s)
      /\ UNCHANGED <<apiKey, historyCache, life, forgotten>>
  BY <1>1, OpenFields DEF DeleteCommit, Inv, TypeOK
<1> HIDE DEF m
<1>3. /\ character'[m] = character[m] \ a.characters
      /\ representative'[m] = IF "registration" \in a.locked THEN NoOcid ELSE representative[m]
      /\ \A n \in Member \ {m} :
           character'[n] = character[n] /\ representative'[n] = representative[n]
  BY <1>2 DEF Inv, TypeOK
<1>4. /\ subscription' \subseteq subscription
      /\ "subscription" \in a.locked => m \notin subscription'
  BY <1>2
<1>5. /\ IsFiniteSet(character[m]) /\ Cardinality(character[m]) \in Nat
      /\ Cardinality(character'[m]) \in Nat /\ MAX_CHARACTERS_PER_USER \in Nat
      /\ Cardinality(character'[m]) <= Cardinality(character[m])
  BY <1>2, <1>3, CharactersFinite, RegistrationAssumption, FS_Subset
<1>6. /\ Whole(m) /\ Facts(a)
      /\ crossed.cap \subseteq crossed'.cap
      /\ crossed.representative \subseteq crossed'.representative
      /\ crossed.subscription \subseteq crossed'.subscription
  BY <1>1, <1>2, Noted DEF Inv, Promises
<1>7. TypeOK'
  <2>1. character' \in [Member -> SUBSET Ocid]
    BY <1>2 DEF Inv, TypeOK
  <2>2. representative' \in [Member -> Ocid \cup {NoOcid}]
    BY <1>2 DEF Inv, TypeOK
  <2> QED
    BY <1>1, <1>2, <1>4, <2>1, <2>2, Beside, NotedType DEF Inv, TypeOK
<1>8. ASSUME NEW q \in Session, NEW r \in Open, session'[q] = r, session[q] = r, r.m = m
      PROVE  Facts(r)'
  <2>1. /\ Facts(r) /\ a.characters \cap r.characters = {} /\ a.locked \cap r.locked = {}
        /\ m \notin crossed'.cap => ApartCap(a, r)
        /\ m \notin crossed'.representative => ApartPointer(a, r)
        /\ m \notin crossed'.subscription => ApartSubscription(a, r)
    BY <1>1, <1>2, <1>8, Beside DEF Disjoint, m
  <2>2. a.characters \subseteq a.want
    BY <1>2, <1>6 DEF Facts, Shape
  <2>3. Shape(r)'
    BY <1>3, <1>8, <2>1 DEF Facts, Shape, Renames, Taken
  <2>4. m \notin crossed'.cap => Roomy(r)'
    <3> SUFFICES ASSUME m \notin crossed'.cap, r.op \in {"register", "import"}
                 PROVE  Roomy(r)'
      BY DEF Roomy
    <3>1. Roomy(r) /\ Cardinality(character[m]) <= MAX_CHARACTERS_PER_USER
      BY <1>6, <1>8, <2>1 DEF Facts, Whole
    <3>2. Cardinality(r.want) \in Nat
      BY OpenFields, CharactersFinite
    <3>3. CASE Cardinality(character[m]) + Cardinality(r.want) <= MAX_CHARACTERS_PER_USER
      BY <1>5, <1>8, <3>2, <3>3 DEF Roomy
    <3>4. CASE r.op = "register" /\ r.want \subseteq character[m]
      <4>1. CASE r.want \subseteq character'[m]
        BY <1>8, <3>4, <4>1 DEF Roomy
      <4>2. CASE ~ r.want \subseteq character'[m]
        <5>1. character'[m] # character[m]
          BY <3>4, <4>2
        <5>2. character'[m] \in SUBSET character[m]
          BY <1>3
        <5>3. Cardinality(character'[m]) # Cardinality(character[m])
          BY <1>5, <5>1, <5>2, FS_Subset
        <5>4. PICK o \in Ocid : r.want = {o}
          BY <2>1, <3>4 DEF Facts, Shape
        <5>5. Cardinality(r.want) = 1
          BY <5>4, FS_Singleton
        <5>6. Cardinality(character'[m]) + Cardinality(r.want) <= MAX_CHARACTERS_PER_USER
          BY <1>5, <3>1, <5>3, <5>5
        <5> QED
          BY <1>8, <5>6 DEF Roomy
      <4> QED
        BY <4>1, <4>2
    <3> QED
      BY <1>8, <3>1, <3>3, <3>4 DEF Roomy
  <2>5. m \notin crossed'.representative => Pointing(r)'
    <3> SUFFICES ASSUME m \notin crossed'.representative PROVE Pointing(r)'
      OBVIOUS
    <3>1. Pointing(r) /\ ApartPointer(a, r)
      BY <1>6, <1>8, <2>1 DEF Facts
    <3>2. NoOcid \notin r.want /\ NoOcid \notin r.characters
      BY OpenFields, RegistrationAssumption
    <3>3. representative'[m] = NoOcid \/ representative'[m] = representative[m]
      BY <1>3
    <3>4. CASE r.op = "pin"
      BY <1>2, <1>3, <1>8, <2>2, <3>1, <3>4 DEF Pointing, ApartPointer
    <3>5. CASE r.op = "delete"
      BY <1>3, <1>8, <3>1, <3>2, <3>3, <3>5 DEF Pointing
    <3>6. CASE r.op = "refresh"
      <4>1. "registration" \in r.locked => representative'[m] = representative[m]
        BY <1>3, <2>1
      <4> QED
        BY <1>8, <3>1, <3>2, <3>3, <3>6, <4>1 DEF Pointing
    <3> QED
      BY <3>4, <3>5, <3>6 DEF Pointing
  <2>6. m \notin crossed'.subscription => Reminding(r)'
    <3> SUFFICES ASSUME m \notin crossed'.subscription PROVE Reminding(r)'
      OBVIOUS
    <3>1. Reminding(r) /\ r.op \notin {"remind", "delete"}
      BY <1>2, <1>6, <1>8, <2>1 DEF Facts, ApartSubscription
    <3> QED
      BY <1>4, <1>8, <3>1 DEF Reminding
  <2> QED
    BY <1>8, <2>3, <2>4, <2>5, <2>6 DEF Facts
<1>9. Whole(m)'
  <2>1. m \notin crossed'.cap => Cardinality(character'[m]) <= MAX_CHARACTERS_PER_USER
    BY <1>5, <1>6 DEF Whole
  <2>2. m \notin crossed'.representative => representative'[m] \in character'[m] \cup {NoOcid}
    BY <1>2, <1>3, <1>6 DEF Whole, Facts, Pointing, m
  <2>3. m \in subscription' \ crossed'.subscription => Remindable(m)'
    BY <1>2, <1>3, <1>4, <1>6 DEF Whole, Facts, Reminding, Spared, Remindable, m
  <2> QED
    BY <2>1, <2>2, <2>3 DEF Whole
<1>10. Exclusive' /\ Promises'
  <2>1. \A q \in Session : session'[q] \in Open => session'[q] = session[q]
    BY <1>1, <1>2, Beside
  <2> QED
    BY <1>2, <1>3, <1>4, <1>6, <1>8, <1>9, <2>1, MemberMoves
<1>11. Forgetting'
  BY <1>1, <1>2, ForgettingStays
<1> QED
  BY <1>7, <1>10, <1>11 DEF Inv

LEMMA PinKeeps ==
  ASSUME Inv, NEW s \in Session, SetRepresentativeCommit(s)
  PROVE  Inv'
<1>1. PICK a \in Open : a = session[s]
  BY SessionOpen DEF Inv, SetRepresentativeCommit
<1> DEFINE m == a.m
<1>2. PICK o \in a.want :
      /\ m \in Member /\ a.op = "pin" /\ o \in Ocid
      /\ "registration" \notin LockedRows(m)
      /\ representative' = [representative EXCEPT ![m] = o]
      /\ NoteCrossing(s) /\ End(s)
      /\ UNCHANGED <<character, apiKey, subscription, historyCache, life, forgotten>>
  BY <1>1, OpenFields DEF SetRepresentativeCommit
<1> HIDE DEF m
<1>3. /\ representative'[m] = o
      /\ \A n \in Member \ {m} : representative'[n] = representative[n]
  BY <1>2 DEF Inv, TypeOK
<1>4. /\ Whole(m) /\ Facts(a)
      /\ crossed.cap \subseteq crossed'.cap
      /\ crossed.representative \subseteq crossed'.representative
      /\ crossed.subscription \subseteq crossed'.subscription
  BY <1>1, <1>2, Noted DEF Inv, Promises
<1>5. TypeOK'
  <2>1. representative' \in [Member -> Ocid \cup {NoOcid}]
    BY <1>2 DEF Inv, TypeOK
  <2> QED
    BY <1>1, <1>2, <2>1, Beside, NotedType DEF Inv, TypeOK
<1>6. ASSUME NEW q \in Session, NEW r \in Open, session'[q] = r, session[q] = r, r.m = m
      PROVE  Facts(r)'
  <2>1. /\ Facts(r) /\ "registration" \notin r.locked
        /\ m \notin crossed'.representative => ApartPointer(a, r)
    BY <1>1, <1>2, <1>6, Beside DEF m
  <2>2. Shape(r)'
    BY <1>2, <2>1 DEF Facts, Shape, Renames, Taken
  <2>3. m \notin crossed'.cap => Roomy(r)'
    BY <1>2, <1>4, <1>6, <2>1 DEF Facts, Roomy
  <2>4. m \notin crossed'.representative => Pointing(r)'
    <3> SUFFICES ASSUME m \notin crossed'.representative PROVE Pointing(r)'
      OBVIOUS
    <3>1. Pointing(r) /\ ApartPointer(a, r)
      BY <1>4, <1>6, <2>1 DEF Facts
    <3>2. r.op \in {"delete", "refresh"} => o \notin r.want
      BY <1>2, <3>1 DEF ApartPointer
    <3>3. r.op = "delete" => r.characters \subseteq r.want
      BY <2>1 DEF Facts, Shape
    <3> QED
      BY <1>2, <1>3, <1>6, <2>1, <3>1, <3>2, <3>3 DEF Pointing
  <2>5. m \notin crossed'.subscription => Reminding(r)'
    BY <1>2, <1>4, <1>6, <2>1 DEF Facts, Reminding, Spared, Remindable
  <2> QED
    BY <1>6, <2>2, <2>3, <2>4, <2>5 DEF Facts
<1>7. Whole(m)'
  <2>1. m \notin crossed'.representative => representative'[m] \in character'[m] \cup {NoOcid}
    BY <1>2, <1>3, <1>4 DEF Facts, Pointing, m
  <2> QED
    BY <1>2, <1>4, <2>1 DEF Whole, Remindable
<1>8. Exclusive' /\ Promises'
  <2>1. \A q \in Session : session'[q] \in Open => session'[q] = session[q]
    BY <1>1, <1>2, Beside
  <2> QED
    BY <1>2, <1>3, <1>4, <1>6, <1>7, <2>1, MemberMoves
<1>9. Forgetting'
  BY <1>1, <1>2, ForgettingStays
<1> QED
  BY <1>5, <1>8, <1>9 DEF Inv

LEMMA ReminderOnKeeps ==
  ASSUME Inv, NEW s \in Session, ReminderOnCommit(s)
  PROVE  Inv'
<1>1. PICK a \in Open : a = session[s]
  BY SessionOpen DEF Inv, ReminderOnCommit
<1> DEFINE m == a.m
<1>2. /\ m \in Member /\ a.op = "remind"
      /\ subscription' = subscription \cup {m}
      /\ NoteCrossing(s) /\ End(s)
      /\ UNCHANGED <<character, representative, apiKey, historyCache, life, forgotten>>
  BY <1>1, OpenFields DEF ReminderOnCommit
<1> HIDE DEF m
<1>3. /\ Whole(m) /\ Facts(a)
      /\ crossed.cap \subseteq crossed'.cap
      /\ crossed.representative \subseteq crossed'.representative
      /\ crossed.subscription \subseteq crossed'.subscription
  BY <1>1, <1>2, Noted DEF Inv, Promises
<1>4. TypeOK'
  <2>1. subscription' \subseteq Member
    BY <1>2 DEF Inv, TypeOK
  <2> QED
    BY <1>1, <1>2, <2>1, Beside, NotedType DEF Inv, TypeOK
<1>5. ASSUME NEW q \in Session, NEW r \in Open, session'[q] = r, session[q] = r, r.m = m
      PROVE  Facts(r)'
  <2>1. /\ Facts(r)
        /\ m \notin crossed'.subscription => ApartSubscription(a, r)
    BY <1>1, <1>2, <1>5, Beside DEF m
  <2>2. Shape(r)'
    BY <1>2, <2>1 DEF Facts, Shape, Renames, Taken
  <2>3. m \notin crossed'.cap => Roomy(r)'
    BY <1>2, <1>3, <1>5, <2>1 DEF Facts, Roomy
  <2>4. m \notin crossed'.representative => Pointing(r)'
    BY <1>2, <1>3, <1>5, <2>1 DEF Facts, Pointing
  <2>5. m \notin crossed'.subscription => Reminding(r)'
    BY <1>2, <1>3, <1>5, <2>1 DEF Facts, Reminding, Remindable, ApartSubscription
  <2> QED
    BY <1>5, <2>2, <2>3, <2>4, <2>5 DEF Facts
<1>6. Whole(m)'
  BY <1>2, <1>3 DEF Whole, Facts, Reminding, Remindable, m
<1>7. Exclusive' /\ Promises'
  <2>1. \A q \in Session : session'[q] \in Open => session'[q] = session[q]
    BY <1>1, <1>2, Beside
  <2>2. \A n \in Member \ {m} : n \in subscription' => n \in subscription
    BY <1>2
  <2> QED
    BY <1>2, <1>3, <1>5, <1>6, <2>1, <2>2, MemberMoves
<1>8. Forgetting'
  BY <1>1, <1>2, ForgettingStays
<1> QED
  BY <1>4, <1>7, <1>8 DEF Inv

(* The row under the old ocid becomes the row under the new one. *)
LEMMA RenamedSet ==
  ASSUME NEW S \in SUBSET Ocid, NEW o \in S, NEW n \in Ocid, n \notin S
  PROVE  Cardinality((S \ {o}) \cup {n}) = Cardinality(S)
<1>1. IsFiniteSet(S) /\ IsFiniteSet(S \ {o}) /\ Cardinality(S) \in Nat
  BY CharactersFinite
<1>2. Cardinality(S \ {o}) = Cardinality(S) - 1
  BY <1>1, FS_RemoveElement
<1>3. Cardinality((S \ {o}) \cup {n}) = Cardinality(S \ {o}) + 1
  BY <1>1, FS_AddElement
<1> QED
  BY <1>1, <1>2, <1>3

(* What the commit of a refresh does to the characters. *)
LEMMA RefreshCommitRenames ==
  ASSUME Inv, NEW s \in Session, NEW a \in Open, a = session[s], RefreshCommit(s)
  PROVE  /\ a.op = "refresh" /\ a.todo = {} /\ a.m \in Member
         /\ representative'[a.m] =
              IF "registration" \in a.locked THEN a.to ELSE representative[a.m]
         /\ \A n \in Member \ {a.m} :
              character'[n] = character[n] /\ representative'[n] = representative[n]
         /\ \/ a.characters = {} /\ character'[a.m] = character[a.m]
            \/ \E o \in character[a.m] :
                 /\ a.want = {o} /\ a.characters = {o, a.to}
                 /\ a.to \in Ocid \ character[a.m] /\ NameOf[a.to] = NameOf[o]
                 /\ character'[a.m] = (character[a.m] \ {o}) \cup {a.to}
         /\ character' \in [Member -> SUBSET Ocid]
         /\ representative' \in [Member -> Ocid \cup {NoOcid}]
         /\ Cardinality(character'[a.m]) = Cardinality(character[a.m])
<1>1. /\ a.op = "refresh" /\ a.todo = {} /\ a.m \in Member
      /\ character' = [character EXCEPT ![a.m] =
                         IF a.characters = {} THEN @ ELSE (@ \ a.want) \cup {a.to}]
      /\ representative' = [representative EXCEPT ![a.m] =
                              IF "registration" \in a.locked THEN a.to ELSE @]
  BY OpenFields DEF RefreshCommit, Rename
<1>2. Shape(a)
  BY DEF Inv, Promises, Facts
<1>3. character[a.m] \in SUBSET Ocid
  BY <1>1 DEF Inv, TypeOK
<1>4. PICK o \in Ocid : a.want = {o} /\ a.to \in Ocid \ {o} /\ NameOf[a.to] = NameOf[o]
  BY <1>1, <1>2 DEF Shape, Renames
<1>5. a.characters = {} \/ Taken(a)
  BY <1>1, <1>2 DEF Shape
<1>6. character' \in [Member -> SUBSET Ocid]
  BY <1>1, <1>3, <1>4 DEF Inv, TypeOK
<1>7. representative' \in [Member -> Ocid \cup {NoOcid}]
  BY <1>1, <1>4 DEF Inv, TypeOK
<1>8. \A n \in Member \ {a.m} :
        character'[n] = character[n] /\ representative'[n] = representative[n]
  BY <1>1 DEF Inv, TypeOK
<1>9. representative'[a.m] = IF "registration" \in a.locked THEN a.to ELSE representative[a.m]
  BY <1>1 DEF Inv, TypeOK
<1>10. character'[a.m] = IF a.characters = {} THEN character[a.m]
                         ELSE (character[a.m] \ a.want) \cup {a.to}
  BY <1>1 DEF Inv, TypeOK
<1>11. CASE a.characters = {}
  BY <1>1, <1>6, <1>7, <1>8, <1>9, <1>10, <1>11
<1>12. CASE Taken(a)
  <2>1. /\ o \in character[a.m] /\ a.to \in Ocid \ character[a.m]
        /\ a.characters = {o, a.to}
        /\ character'[a.m] = (character[a.m] \ {o}) \cup {a.to}
    BY <1>4, <1>10, <1>12 DEF Taken
  <2>2. Cardinality(character'[a.m]) = Cardinality(character[a.m])
    BY <1>3, <2>1, RenamedSet
  <2> QED
    BY <1>1, <1>4, <1>6, <1>7, <1>8, <1>9, <2>1, <2>2
<1> QED
  BY <1>5, <1>11, <1>12

LEMMA RefreshKeeps ==
  ASSUME Inv, NEW s \in Session, RefreshCommit(s)
  PROVE  Inv'
<1>1. PICK a \in Open : a = session[s]
  BY SessionOpen DEF Inv, RefreshCommit
<1> DEFINE m == a.m
<1>2. /\ m \in Member /\ a.op = "refresh" /\ a.todo = {}
      /\ representative'[m] = IF "registration" \in a.locked THEN a.to ELSE representative[m]
      /\ \A n \in Member \ {m} :
           character'[n] = character[n] /\ representative'[n] = representative[n]
      /\ \/ a.characters = {} /\ character'[m] = character[m]
         \/ \E o \in character[m] :
              /\ a.want = {o} /\ a.characters = {o, a.to}
              /\ a.to \in Ocid \ character[m]
              /\ character'[m] = (character[m] \ {o}) \cup {a.to}
      /\ character' \in [Member -> SUBSET Ocid]
      /\ representative' \in [Member -> Ocid \cup {NoOcid}]
      /\ Cardinality(character'[m]) = Cardinality(character[m])
  BY <1>1, RefreshCommitRenames
<1>3. /\ NoteCrossing(s) /\ End(s)
      /\ UNCHANGED <<apiKey, subscription, historyCache, life, forgotten>>
  BY DEF RefreshCommit
<1> HIDE DEF m
<1>4. /\ Whole(m) /\ Facts(a)
      /\ crossed.cap \subseteq crossed'.cap
      /\ crossed.representative \subseteq crossed'.representative
      /\ crossed.subscription \subseteq crossed'.subscription
  BY <1>1, <1>2, <1>3, Noted DEF Inv, Promises
<1>5. TypeOK'
  BY <1>1, <1>2, <1>3, Beside, NotedType DEF Inv, TypeOK
<1>6. m \notin crossed'.representative /\ "registration" \in a.locked =>
        a.characters # {} /\ representative[m] \in a.want
  BY <1>2, <1>4 DEF Facts, Pointing, m
<1>7. ASSUME NEW q \in Session, NEW r \in Open, session'[q] = r, session[q] = r, r.m = m
      PROVE  Facts(r)'
  <2>1. /\ Facts(r) /\ a.characters \cap r.characters = {} /\ a.locked \cap r.locked = {}
        /\ m \notin crossed'.cap => ApartCap(a, r)
        /\ m \notin crossed'.representative => ApartPointer(a, r)
    BY <1>1, <1>3, <1>7, Beside DEF Disjoint, m
  <2>2. Shape(r)'
    BY <1>2, <1>7, <2>1 DEF Facts, Shape, Renames, Taken
  <2>3. m \notin crossed'.cap => Roomy(r)'
    <3>1. r.op = "register" /\ m \notin crossed'.cap => a.want \cap r.want = {}
      <4>1. r.op = "register" => {a.op, r.op} = {"register", "refresh"}
        BY <1>2
      <4> QED
        BY <2>1, <4>1 DEF ApartCap
    <3> QED
      BY <1>2, <1>4, <1>7, <2>1, <3>1 DEF Facts, Roomy
  <2>4. m \notin crossed'.representative => Pointing(r)'
    <3> SUFFICES ASSUME m \notin crossed'.representative PROVE Pointing(r)'
      OBVIOUS
    <3>1. Pointing(r) /\ ApartPointer(a, r)
      BY <1>4, <1>7, <2>1 DEF Facts
    <3>2. CASE r.op = "pin"
      <4>1. r.want \cap a.want = {} /\ r.want \subseteq character[m]
        BY <1>2, <1>7, <3>1, <3>2 DEF Pointing, ApartPointer
      <4>2. r.want \subseteq character'[m]
        BY <1>2, <4>1
      <4> QED
        BY <1>7, <3>2, <4>2 DEF Pointing
    <3>3. CASE r.op = "delete"
      <4>1. representative'[m] \in r.characters => representative'[m] = representative[m]
        BY <1>2, <1>6, <2>1
      <4> QED
        BY <1>7, <3>1, <3>3, <4>1 DEF Pointing
    <3>4. CASE r.op = "refresh"
      <4>1. /\ representative'[m] \in r.want => representative'[m] = representative[m]
            /\ "registration" \in r.locked => representative'[m] = representative[m]
        BY <1>2, <2>1, <3>1, <3>4 DEF ApartPointer
      <4> QED
        BY <1>7, <3>1, <3>4, <4>1 DEF Pointing
    <3> QED
      BY <3>2, <3>3, <3>4 DEF Pointing
  <2>5. m \notin crossed'.subscription => Reminding(r)'
    <3> SUFFICES ASSUME m \notin crossed'.subscription PROVE Reminding(r)'
      OBVIOUS
    <3>1. Reminding(r)
      BY <1>4, <1>7, <2>1 DEF Facts
    <3>2. character[m] # {} => character'[m] # {}
      BY <1>2
    <3>3. Spared(r) => Spared(r)'
      BY <1>2, <1>7, <2>1 DEF Spared
    <3> QED
      BY <1>3, <1>7, <3>1, <3>2, <3>3 DEF Reminding, Remindable
  <2> QED
    BY <1>7, <2>2, <2>3, <2>4, <2>5 DEF Facts
<1>8. Whole(m)'
  <2>1. m \notin crossed'.cap => Cardinality(character'[m]) <= MAX_CHARACTERS_PER_USER
    BY <1>2, <1>4 DEF Whole
  <2>2. m \notin crossed'.representative => representative'[m] \in character'[m] \cup {NoOcid}
    <3> SUFFICES ASSUME m \notin crossed'.representative
                 PROVE  representative'[m] \in character'[m] \cup {NoOcid}
      OBVIOUS
    <3>1. CASE "registration" \in a.locked
      BY <1>2, <1>6, <3>1
    <3>2. CASE "registration" \notin a.locked
      <4>1. representative[m] \notin a.want
        BY <1>2, <1>4, <3>2 DEF Facts, Pointing, m
      <4>2. representative[m] \in character[m] \cup {NoOcid}
        BY <1>4 DEF Whole
      <4> QED
        BY <1>2, <3>2, <4>1, <4>2
    <3> QED
      BY <3>1, <3>2
  <2>3. m \in subscription' \ crossed'.subscription => Remindable(m)'
    BY <1>2, <1>3, <1>4 DEF Whole, Remindable
  <2> QED
    BY <2>1, <2>2, <2>3 DEF Whole
<1>9. Exclusive' /\ Promises'
  <2>1. \A q \in Session : session'[q] \in Open => session'[q] = session[q]
    BY <1>1, <1>3, Beside
  <2> QED
    BY <1>2, <1>3, <1>4, <1>7, <1>8, <2>1, MemberMoves
<1>10. Forgetting'
  BY <1>1, <1>3, ForgettingStays
<1> QED
  BY <1>5, <1>9, <1>10 DEF Inv

-----------------------------------------------------------------------------
(* The removal of a key and the queries that store under it *)

LEMMA RemoveKeyKeeps ==
  ASSUME Inv, NEW s \in Session, RemoveKeyCommit(s)
  PROVE  Inv'
<1>1. PICK a \in Open : a = session[s]
  BY SessionOpen DEF Inv, RemoveKeyCommit
<1> DEFINE m == a.m
           keys == IF "registration" \in a.locked THEN [apiKey EXCEPT ![m] = NoKey] ELSE apiKey
<1>2. /\ m \in Member /\ a.op = "unkey" /\ a.todo = {} /\ a.key \in Key \cup {NoKey}
      /\ apiKey' = keys
      /\ historyCache' = {h \in historyCache : h[1] # a.key \/ h[2] \notin a.dates}
      /\ forgotten' = forgotten \cup
                        {k \in {a.key} : k # NoKey /\ \A n \in Member : keys[n] # k}
      /\ subscription' = subscription \ {n \in {m} : "subscription" \in a.locked}
      /\ NoteCrossing(s) /\ End(s)
      /\ UNCHANGED <<character, representative, life>>
  BY <1>1, OpenFields DEF RemoveKeyCommit, EraseHistory
<1>3. /\ apiKey' \in [Member -> Key \cup {NoKey}]
      /\ \A n \in Member : apiKey'[n] = apiKey[n] \/ apiKey'[n] = NoKey
      /\ \A n \in Member \ {m} : apiKey'[n] = apiKey[n]
  BY <1>2 DEF Inv, TypeOK
<1>4. \A k \in forgotten' : k \in forgotten \/ (k = a.key /\ k # NoKey)
  BY <1>2
<1>5. \A k \in forgotten' \ forgotten : \A n \in Member : apiKey'[n] # k
  BY <1>2
<1> HIDE DEF m, keys
<1>6. /\ Whole(m) /\ Facts(a) /\ Erasing(a)
      /\ crossed.cap \subseteq crossed'.cap
      /\ crossed.representative \subseteq crossed'.representative
      /\ crossed.subscription \subseteq crossed'.subscription
      /\ crossed.history \subseteq crossed'.history
  BY <1>1, <1>2, Noted DEF Inv, Promises, Forgetting
<1>7. TypeOK'
  <2>1. historyCache' \subseteq Key \X Date /\ subscription' \subseteq Member
    BY <1>2 DEF Inv, TypeOK
  <2>2. forgotten' \subseteq Key
    BY <1>2, <1>4 DEF Inv, TypeOK
  <2> QED
    BY <1>1, <1>2, <1>3, <2>1, <2>2, Beside, NotedType DEF Inv, TypeOK
<1>8. ASSUME NEW q \in Session, NEW r \in Open, session'[q] = r, session[q] = r, r.m = m
      PROVE  Facts(r)'
  <2>1. /\ Facts(r)
        /\ m \notin crossed'.subscription => ApartSubscription(a, r)
    BY <1>1, <1>2, <1>8, Beside DEF m
  <2>2. Shape(r)'
    BY <1>2, <2>1 DEF Facts, Shape, Renames, Taken
  <2>3. m \notin crossed'.cap => Roomy(r)'
    BY <1>2, <1>6, <1>8, <2>1 DEF Facts, Roomy
  <2>4. m \notin crossed'.representative => Pointing(r)'
    BY <1>2, <1>6, <1>8, <2>1 DEF Facts, Pointing
  <2>5. m \notin crossed'.subscription => Reminding(r)'
    <3> SUFFICES ASSUME m \notin crossed'.subscription PROVE Reminding(r)'
      OBVIOUS
    <3>1. Reminding(r) /\ r.op # "remind"
      BY <1>2, <1>6, <1>8, <2>1 DEF Facts, ApartSubscription
    <3>2. subscription' \subseteq subscription /\ character' = character
      BY <1>2
    <3> QED
      BY <3>1, <3>2 DEF Reminding, Spared
  <2> QED
    BY <1>8, <2>2, <2>3, <2>4, <2>5 DEF Facts
<1>9. Whole(m)'
  <2>1. m \in subscription' => m \in subscription /\ "subscription" \notin a.locked
    BY <1>2
  <2>2. m \in subscription => m \in crossed'.subscription \/ "subscription" \in a.locked
    BY <1>2, <1>6 DEF Facts, Reminding, m
  <2> QED
    BY <1>2, <1>6, <2>1, <2>2 DEF Whole
<1>10. Exclusive' /\ Promises'
  <2>1. \A q \in Session : session'[q] \in Open => session'[q] = session[q]
    BY <1>1, <1>2, Beside
  <2>2. subscription' \subseteq subscription
    BY <1>2
  <2> QED
    BY <1>2, <1>3, <1>6, <1>8, <1>9, <2>1, <2>2, MemberMoves
<1>11. Forgetting'
  <2>1. session' = [session EXCEPT ![s] = Idle] /\ Idle \notin Open /\ Idle.op # "history"
    BY <1>2, IdleIsNotOpen DEF End, Idle
  <2>2. session'[s] = Idle /\ \A q \in Session \ {s} : session'[q] = session[q]
    BY <2>1 DEF Inv, TypeOK
  <2>3. historyCache' \subseteq historyCache
    BY <1>2
  <2>4. ASSUME NEW q \in Session, session'[q] \in Open PROVE Erasing(session[q])'
    BY <1>6, <2>1, <2>2, <2>3, <2>4 DEF Inv, Forgetting, Erasing
  <2>5. ASSUME NEW k \in forgotten', NEW n \in Member PROVE apiKey'[n] # k
    <3>1. k \in Key
      BY <1>7 DEF TypeOK
    <3>2. CASE k \in forgotten
      <4>1. apiKey[n] # k
        BY <3>2 DEF Inv, Forgetting
      <4> QED
        BY <1>3, <3>1, <4>1, RegistrationAssumption
    <3> QED
      BY <1>5, <3>2
  <2>6. ASSUME NEW k \in forgotten' \ crossed'.history PROVE Clean(k)'
    <3>1. CASE k \in forgotten
      <4>1. Clean(k)
        BY <1>6, <2>6, <3>1 DEF Inv, Forgetting
      <4> QED
        BY <2>1, <2>2, <2>3, <4>1 DEF Clean
    <3>2. CASE k = a.key /\ k # NoKey
      <4>1. \A d \in Date : <<k, d>> \in historyCache => d \in a.dates
        BY <1>2, <1>6, <2>6, <3>2 DEF Erasing
      <4>2. \A d \in Date : <<k, d>> \notin historyCache'
        BY <1>2, <3>2, <4>1
      <4>3. ASSUME NEW q \in Session, session[q].op = "history" PROVE session[q].key # k
        <5> SUFFICES ASSUME session[q].key = k PROVE FALSE
          OBVIOUS
        <5>1. q \in OfKey(session[s].key) /\ Pair(s, q) = {"unkey", "history"}
          BY <1>1, <1>2, <3>2, <4>3 DEF OfKey, Pair
        <5>2. a.key \in crossed'.history
          BY <1>1, <1>2, <5>1 DEF NoteCrossing, HistoryCrossed
        <5> QED
          BY <2>6, <3>2, <5>2
      <4> QED
        BY <2>1, <2>2, <4>2, <4>3 DEF Clean
    <3> QED
      BY <1>4, <3>1, <3>2
  <2> QED
    BY <2>4, <2>5, <2>6 DEF Forgetting
<1> QED
  BY <1>7, <1>10, <1>11 DEF Inv

LEMMA HistoryStoreKeeps ==
  ASSUME Inv, NEW s \in Session, NEW d \in Date, HistoryStore(s, d)
  PROVE  Inv'
<1>1. PICK a \in Open : a = session[s]
  BY SessionOpen DEF Inv, HistoryStore
<1>2. /\ a.m \in Member /\ a.op = "history"
      /\ historyCache' = historyCache \cup {<<a.key, d>>}
      /\ NoteCrossing(s)
      /\ UNCHANGED <<character, representative, apiKey, subscription, life, session,
                     forgotten>>
  BY <1>1, OpenFields DEF HistoryStore
<1>3. /\ Whole(a.m) /\ a.key \in Key
      /\ crossed.cap \subseteq crossed'.cap
      /\ crossed.representative \subseteq crossed'.representative
      /\ crossed.subscription \subseteq crossed'.subscription
      /\ crossed.history \subseteq crossed'.history
  BY <1>1, <1>2, Noted DEF Inv, Promises, Facts, Shape
<1>4. TypeOK'
  <2>1. historyCache' \subseteq Key \X Date
    BY <1>2, <1>3 DEF Inv, TypeOK
  <2> QED
    BY <1>1, <1>2, <2>1, NotedType DEF Inv, TypeOK
<1>5. ASSUME NEW q \in Session, NEW r \in Open, session[q] = r PROVE Facts(r)'
  <2>1. Facts(r)
    BY <1>5 DEF Inv, Promises
  <2>2. Shape(r)'
    BY <1>2, <2>1 DEF Facts, Shape, Renames, Taken
  <2>3. r.m \notin crossed'.cap => Roomy(r)'
    BY <1>2, <1>3, <2>1 DEF Facts, Roomy
  <2>4. r.m \notin crossed'.representative => Pointing(r)'
    BY <1>2, <1>3, <2>1 DEF Facts, Pointing
  <2>5. r.m \notin crossed'.subscription => Reminding(r)'
    BY <1>2, <1>3, <2>1 DEF Facts, Reminding, Spared, Remindable
  <2> QED
    BY <2>2, <2>3, <2>4, <2>5 DEF Facts
<1>6. Whole(a.m)'
  BY <1>2, <1>3 DEF Whole, Remindable
<1>7. Exclusive' /\ Promises'
  BY <1>2, <1>3, <1>5, <1>6, MemberMoves
<1>8. Forgetting'
  <2>1. ASSUME NEW q \in Session, NEW r \in Open, session[q] = r PROVE Erasing(r)'
    <3>1. Erasing(r)
      BY <2>1 DEF Inv, Forgetting
    <3>2. CASE r.op = "unkey" /\ r.key = a.key
      <4>1. q \in OfKey(session[s].key) /\ Pair(s, q) = {"unkey", "history"}
        BY <1>1, <1>2, <2>1, <3>2 DEF OfKey, Pair
      <4>2. a.key \in crossed'.history
        BY <1>1, <1>2, <4>1 DEF NoteCrossing, HistoryCrossed
      <4> QED
        BY <3>2, <4>2 DEF Erasing
    <3>3. CASE r.op # "unkey" \/ r.key # a.key
      BY <1>2, <1>3, <3>1, <3>3 DEF Erasing
    <3> QED
      BY <3>2, <3>3
  <2>2. ASSUME NEW k \in forgotten \ crossed'.history PROVE Clean(k)'
    <3>1. Clean(k)
      BY <1>3, <2>2 DEF Inv, Forgetting
    <3>2. a.key # k
      BY <1>1, <1>2, <3>1 DEF Clean
    <3> QED
      BY <1>2, <3>1, <3>2 DEF Clean
  <2>3. ASSUME NEW q \in Session, session'[q] \in Open PROVE Erasing(session[q])'
    <3>1. PICK r \in Open : session[q] = r
      BY <1>2, <2>3
    <3>2. Erasing(r)'
      BY <2>1, <3>1
    <3> QED
      BY <1>2, <3>1, <3>2 DEF Erasing
  <2> QED
    BY <1>2, <2>2, <2>3 DEF Inv, Forgetting
<1> QED
  BY <1>4, <1>7, <1>8 DEF Inv

LEMMA CommitKeeps ==
  ASSUME Inv, NEW s \in Session, Commit(s)
  PROVE  Inv'
<1>1. RefreshCollides(s) \/ HistoryEnd(s) => Inv'
  BY SessionEnds DEF RefreshCollides, HistoryEnd, Still
<1> QED
  BY <1>1, InsertKeeps, DeleteKeeps, PinKeeps, RemoveKeyKeeps, ReminderOnKeeps,
     RefreshKeeps, HistoryStoreKeeps DEF Commit

LEMMA RollbackKeeps ==
  ASSUME Inv, NEW s \in Session, Rollback(s)
  PROVE  Inv'
  BY SessionEnds DEF Rollback, Still

-----------------------------------------------------------------------------
(* The handlers that read nothing first, and Nexon *)

LEMMA FreeOf ==
  ASSUME Inv, NEW t, NEW m, t \notin LockedRows(m),
         NEW q \in Session, NEW r \in Open, session[q] = r, r.m = m
  PROVE  t \notin r.locked
<1>1. q \in Of(m)
  BY OfIsOpen DEF Inv
<1> QED
  BY <1>1 DEF LockedRows

LEMMA ElsewhereKeeps ==
  ASSUME Inv, Elsewhere
  PROVE  Inv'
<1>1. ASSUME NEW m \in Member, ResetRepresentative(m) PROVE Inv'
  <2>1. /\ "registration" \notin LockedRows(m)
        /\ representative' = [representative EXCEPT ![m] = NoOcid]
        /\ UNCHANGED <<character, apiKey, subscription, historyCache, life, session,
                       crossed, forgotten>>
    BY <1>1 DEF ResetRepresentative
  <2>2. representative'[m] = NoOcid
        /\ \A n \in Member \ {m} : representative'[n] = representative[n]
    BY <2>1 DEF Inv, TypeOK
  <2>3. ASSUME NEW q \in Session, NEW r \in Open, session[q] = r, r.m = m PROVE Facts(r)'
    <3>1. Facts(r) /\ "registration" \notin r.locked
      BY <2>1, <2>3, FreeOf DEF Inv, Promises
    <3>2. NoOcid \notin r.want /\ NoOcid \notin r.characters
      BY OpenFields, RegistrationAssumption
    <3>3. Pointing(r) => Pointing(r)'
      BY <2>1, <2>2, <2>3, <3>1, <3>2 DEF Pointing
    <3>4. Shape(r)' /\ (Roomy(r) => Roomy(r)') /\ (Reminding(r) => Reminding(r)')
      BY <2>1, <3>1 DEF Facts, Shape, Renames, Taken, Roomy, Reminding, Spared, Remindable
    <3> QED
      BY <2>1, <3>1, <3>3, <3>4 DEF Facts
  <2>4. Whole(m)'
    BY <2>1, <2>2 DEF Inv, Promises, Whole, Remindable
  <2>5. Exclusive' /\ Promises'
    BY <2>1, <2>2, <2>3, <2>4, MemberMoves
  <2>6. TypeOK' /\ Forgetting'
    BY <2>1 DEF Inv, TypeOK, Forgetting, Erasing, Clean
  <2> QED
    BY <2>5, <2>6 DEF Inv
<1>2. ASSUME NEW m \in Member, ReminderOff(m) PROVE Inv'
  <2>1. /\ subscription' \subseteq subscription
        /\ UNCHANGED <<character, representative, apiKey, historyCache, life, session,
                       crossed, forgotten>>
    BY <1>2 DEF ReminderOff
  <2>2. ASSUME NEW q \in Session, NEW r \in Open, session[q] = r, r.m = m PROVE Facts(r)'
    <3>1. Facts(r)
      BY <2>2 DEF Inv, Promises
    <3>2. /\ Shape(r)' /\ (Roomy(r) => Roomy(r)') /\ (Pointing(r) => Pointing(r)')
          /\ (Reminding(r) => Reminding(r)')
      BY <2>1, <3>1 DEF Facts, Shape, Renames, Taken, Roomy, Pointing, Reminding, Spared,
         Remindable
    <3> QED
      BY <2>1, <3>1, <3>2 DEF Facts
  <2>3. Whole(m)'
    BY <2>1 DEF Inv, Promises, Whole, Remindable
  <2>4. Exclusive' /\ Promises'
    BY <2>1, <2>2, <2>3, MemberMoves
  <2>5. TypeOK' /\ Forgetting'
    BY <2>1 DEF Inv, TypeOK, Forgetting, Erasing, Clean
  <2> QED
    BY <2>4, <2>5 DEF Inv
<1>3. ASSUME NEW m \in Member, NEW k \in Key, RegisterKey(m, k) PROVE Inv'
  <2>1. /\ apiKey' = [apiKey EXCEPT ![m] = k] /\ forgotten' = forgotten \ {k}
        /\ UNCHANGED <<character, representative, subscription, historyCache, life,
                       session, crossed>>
    BY <1>3 DEF RegisterKey
  <2>2. /\ apiKey' \in [Member -> Key \cup {NoKey}] /\ apiKey'[m] = k /\ k # NoKey
        /\ \A n \in Member \ {m} : apiKey'[n] = apiKey[n]
    BY <2>1, RegistrationAssumption DEF Inv, TypeOK
  <2>3. ASSUME NEW q \in Session, NEW r \in Open, session[q] = r, r.m = m PROVE Facts(r)'
    <3>1. Facts(r)
      BY <2>3 DEF Inv, Promises
    <3>2. /\ Shape(r)' /\ (Roomy(r) => Roomy(r)') /\ (Pointing(r) => Pointing(r)')
      BY <2>1, <3>1 DEF Facts, Shape, Renames, Taken, Roomy, Pointing
    <3>3. Reminding(r) => Reminding(r)'
      BY <2>1, <2>2, <2>3 DEF Reminding, Spared, Remindable
    <3> QED
      BY <2>1, <3>1, <3>2, <3>3 DEF Facts
  <2>4. Whole(m)'
    BY <2>1, <2>2 DEF Inv, Promises, Whole, Remindable
  <2>5. Exclusive' /\ Promises'
    BY <2>1, <2>2, <2>3, <2>4, MemberMoves
  <2>6. TypeOK'
    BY <2>1, <2>2 DEF Inv, TypeOK
  <2>7. Forgetting'
    <3>1. \A c \in forgotten' : \A n \in Member : apiKey'[n] # c
      BY <2>1, <2>2 DEF Inv, Forgetting
    <3>2. \A c \in forgotten' \ crossed'.history : Clean(c)'
      BY <2>1 DEF Inv, Forgetting, Clean
    <3>3. \A q \in Session : session'[q] \in Open => Erasing(session[q])'
      BY <2>1 DEF Inv, Forgetting, Erasing
    <3> QED
      BY <3>1, <3>2, <3>3 DEF Forgetting
  <2> QED
    BY <2>5, <2>6, <2>7 DEF Inv
<1>4. ASSUME NEW o \in Ocid, NEW n \in Ocid, Reissue(o, n) PROVE Inv'
  <2>1. /\ life' = [life EXCEPT ![o] = "retired", ![n] = "valid"]
        /\ UNCHANGED <<character, representative, apiKey, subscription, historyCache,
                       session, crossed, forgotten>>
    BY <1>4 DEF Reissue, rows
  <2>2. TypeOK'
    BY <2>1 DEF Inv, TypeOK
  <2>3. Exclusive' /\ Forgetting'
    BY <2>1 DEF Inv, Exclusive, Disjoint, Forgetting, Erasing, Clean
  <2>4. Promises'
    BY <2>1 DEF Inv, Promises, Facts, Shape, Renames, Taken, Roomy, Pointing, Reminding,
       Spared, Remindable, Whole
  <2> QED
    BY <2>2, <2>3, <2>4 DEF Inv
<1> QED
  BY <1>1, <1>2, <1>3, <1>4 DEF Elsewhere

LEMMA NextInv ==
  ASSUME Inv, [Next]_vars
  PROVE  Inv'
<1>1. CASE Next
  BY <1>1, StartKeeps, StatementKeeps, CommitKeeps, RollbackKeeps, ElsewhereKeeps
     DEF Next, Handler
<1>2. CASE UNCHANGED vars
  <2>1. UNCHANGED <<character, representative, apiKey, subscription, historyCache, life,
                    session, crossed, forgotten>>
    BY <1>2 DEF vars, rows
  <2> QED
    BY <2>1 DEF Inv, TypeOK, Exclusive, Disjoint, Forgetting, Erasing, Clean, Promises,
       Facts, Shape, Renames, Taken, Roomy, Pointing, Reminding, Spared, Remindable, Whole
<1> QED
  BY <1>1, <1>2

-----------------------------------------------------------------------------
(* The invariant holds in every reachable state. *)
THEOREM Invariance == Spec => []Inv
<1>1. Inv /\ [Next]_vars => Inv'
  BY NextInv
<1> QED
  BY <1>1, InitInv, PTL DEF Spec

(* Every reachable state is well typed. *)
THEOREM TypeCorrect == Spec => []TypeOK
<1>1. Inv => TypeOK
  BY DEF Inv
<1> QED
  BY <1>1, Invariance, PTL

(* No order of registrations, imports, deletions and ocid refreshes takes a *)
(* member over the cap unless two registrations or imports of it, or the   *)
(* registration and the refresh of one character, have been open together. *)
THEOREM CapHolds == Spec => []CapKept
<1>1. Inv => CapKept
  BY DEF Inv, Promises, Whole, CapKept
<1> QED
  BY <1>1, Invariance, PTL

(* The representative of a member is one of its characters, though a       *)
(* deletion and a refresh write the rows and the pointer by two statements *)
(* between which others commit; a pin of the same character is the         *)
(* exception, and a refresh to what another refresh leaves.                *)
THEOREM PointerOwned == Spec => []RepresentativeOwned
<1>1. Inv => RepresentativeOwned
  BY DEF Inv, Promises, Whole, RepresentativeOwned
<1> QED
  BY <1>1, Invariance, PTL

(* A subscribed member has a key and a character, although a removal that  *)
(* finds no subscription locks none, unless the member subscribes while    *)
(* its key or characters are removed or two deletions of it overlap.       *)
THEOREM NobodyReminded == Spec => []SubscriptionAlive
<1>1. Inv => SubscriptionAlive
  BY DEF Inv, Promises, Whole, Remindable, SubscriptionAlive, TypeOK
<1> QED
  BY <1>1, Invariance, PTL

(* The history of an account whose key was removed stays erased until the  *)
(* key is registered again, although the removal finds the rows by its     *)
(* first statement and erases them only by its commit, unless a query of   *)
(* that account and a removal of its key have been open together.          *)
THEOREM HistoryErased == Spec => []RemovedKeyForgotten
<1>1. ASSUME Inv, NEW h \in historyCache PROVE h[1] \notin forgotten \ crossed.history
  <2>1. PICK k \in Key, d \in Date : h = <<k, d>>
    BY <1>1 DEF Inv, TypeOK
  <2> QED
    BY <1>1, <2>1 DEF Inv, Forgetting, Clean
<1>2. Inv => RemovedKeyForgotten
  BY <1>1 DEF RemovedKeyForgotten
<1> QED
  BY <1>2, Invariance, PTL

(* Only the commits of registrations, imports and deletions change which   *)
(* characters a member has: what a refresh does to the rows it has locked  *)
(* keeps their number and their names.                                     *)
THEOREM RefreshRenames == Spec => RefreshKeepsCharacters
<1> DEFINE Ends(m) == \E s \in Of(m) : /\ session[s].op \in {"register", "import", "delete"}
                                       /\ session'[s] = Idle
           Kept(m) == /\ Cardinality(character'[m]) = Cardinality(character[m])
                      /\ {NameOf[o] : o \in character'[m]} = {NameOf[o] : o \in character[m]}
<1>1. ASSUME Inv, Next, NEW m \in Member PROVE Ends(m) \/ Kept(m)
  <2>1. CASE character' = character
    BY <2>1
  <2>2. ASSUME NEW s \in Session, RegisterCommit(s) \/ ImportCommit(s) \/ DeleteCommit(s)
        PROVE  Ends(m) \/ Kept(m)
    <3>1. /\ session[s].op \in {"register", "import", "delete"} /\ End(s)
          /\ \E S : character' = [character EXCEPT ![session[s].m] = S]
      BY <2>2 DEF RegisterCommit, ImportCommit, Insert, DeleteCommit
    <3>2. session'[s] = Idle /\ session[s] \in Open
      BY <1>1, <3>1, SessionOpen DEF End, Inv, TypeOK
    <3>3. CASE session[s].m = m
      BY <1>1, <3>1, <3>2, <3>3, OfIsOpen DEF Inv
    <3>4. CASE session[s].m # m
      BY <1>1, <3>1, <3>4 DEF Inv, TypeOK
    <3> QED
      BY <3>3, <3>4
  <2>3. ASSUME NEW s \in Session, RefreshCommit(s) PROVE Kept(m)
    <3>1. PICK a \in Open : a = session[s]
      BY <1>1, <2>3, SessionOpen DEF Inv, RefreshCommit
    <3>2. /\ \A n \in Member \ {a.m} : character'[n] = character[n]
          /\ \/ character'[a.m] = character[a.m]
             \/ \E o \in character[a.m] :
                  /\ NameOf[a.to] = NameOf[o]
                  /\ character'[a.m] = (character[a.m] \ {o}) \cup {a.to}
          /\ Cardinality(character'[a.m]) = Cardinality(character[a.m])
      BY <1>1, <2>3, <3>1, RefreshCommitRenames
    <3>3. CASE m # a.m \/ character'[a.m] = character[a.m]
      BY <3>2, <3>3
    <3>4. CASE m = a.m /\ character'[a.m] # character[a.m]
      <4>1. PICK o \in character[m] :
              NameOf[a.to] = NameOf[o] /\ character'[m] = (character[m] \ {o}) \cup {a.to}
        BY <3>2, <3>4
      <4>2. {NameOf[c] : c \in character'[m]} = {NameOf[c] : c \in character[m]}
        BY <4>1
      <4> QED
        BY <3>2, <3>4, <4>2
    <3> QED
      BY <3>3, <3>4
  <2> HIDE DEF Ends, Kept
  <2>4. ASSUME NEW s \in Session, Commit(s) PROVE Ends(m) \/ Kept(m) \/ character' = character
    BY <2>2, <2>3, <2>4 DEF Commit, SetRepresentativeCommit, RemoveKeyCommit, ReminderOnCommit,
       RefreshCollides, HistoryStore, HistoryEnd, rows
  <2>5. ASSUME NEW s \in Session, Statement(s) \/ Rollback(s) PROVE character' = character
    BY <2>5 DEF Statement, HistoryStatement, CharacterStatement, RegistrationStatement,
       SubscriptionStatement, Runs, Rollback, rows
  <2>6. ASSUME NEW s \in Session, NEW n \in Member, Start(s, n) PROVE character' = character
    BY <2>6 DEF Start, RegisterRead, SetRepresentativeRead, RefreshRead, ImportRead, DeleteRead,
       RemoveKeyRead, ReminderOnRead, HistoryRead, Begin, rows
  <2>7. Elsewhere => character' = character
    BY DEF Elsewhere, ResetRepresentative, ReminderOff, RegisterKey, Reissue, rows
  <2> QED
    BY <1>1, <2>1, <2>4, <2>5, <2>6, <2>7 DEF Next, Handler
<1>2. Inv /\ [Next]_vars =>
        [\A m \in Member :
           \/ \E s \in Of(m) : /\ session[s].op \in {"register", "import", "delete"}
                               /\ session'[s] = Idle
           \/ /\ Cardinality(character'[m]) = Cardinality(character[m])
              /\ {NameOf[o] : o \in character'[m]} = {NameOf[o] : o \in character[m]}]_vars
  BY <1>1
<1> QED
  BY <1>2, Invariance, PTL DEF Spec, RefreshKeepsCharacters

=============================================================================
