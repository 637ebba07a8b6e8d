---------------------------- MODULE Registration ----------------------------
(***************************************************************************)
(* The registration rows of the bot and every handler that writes them.    *)
(*                                                                         *)
(* A handler is a coroutine: it opens a database session, reads, awaits    *)
(* (Nexon, Discord or the database), writes and commits, while the         *)
(* handlers of other commands and button presses run in between.  No       *)
(* handler takes a lock of its own and the sessions are READ COMMITTED:    *)
(* every statement finds the rows that are committed when it runs, and     *)
(* locks the rows it has found, and nothing else, until its transaction    *)
(* ends.  A statement that finds no row holds nobody up.                   *)
(*                                                                         *)
(* So a handler is a ...Read, that opens its session with what it saw, one *)
(* step for each statement of a transaction that has several, and a        *)
(* ...Commit, that applies them to the rows they locked.  A transaction    *)
(* with a single write runs and commits it in one step, once nobody else   *)
(* holds the row.  A statement finds and locks its rows in one step; a     *)
(* transaction the database gives up on ends in Rollback.                  *)
(*                                                                         *)
(* A member is a (guild_id, discord_user_id) pair; an absent registration  *)
(* row reads as a row with two NULLs, as it does in the code.              *)
(***************************************************************************)
EXTENDS Naturals, FiniteSets

CONSTANTS
  Member,    \* (guild_id, discord_user_id) pairs
  Ocid,      \* character identifiers Nexon may issue
  Nickname,  \* character names
  NameOf,    \* the name of the character an identifier was issued for
  FirstOcid, \* the identifiers valid at the start
  Key,       \* personal API keys, one per Nexon account
  Date,      \* query dates of the history cache
  Session,   \* handlers that may be in flight together
  MAX_CHARACTERS_PER_USER,
  NoKey,     \* api_key_encrypted IS NULL
  NoOcid     \* representative_ocid IS NULL

ASSUME RegistrationAssumption ==
  /\ IsFiniteSet(Ocid)
  /\ NameOf \in [Ocid -> Nickname]
  /\ FirstOcid \subseteq Ocid
  /\ MAX_CHARACTERS_PER_USER \in Nat
  /\ NoKey \notin Key
  /\ NoOcid \notin Ocid

VARIABLES
  character,      \* character rows: the ocids of each member
  representative, \* registration.representative_ocid
  apiKey,         \* registration.api_key_encrypted, decrypted
  subscription,   \* members with a scheduler_subscription row
  historyCache,   \* history_cache rows: account (by key) and date
  life,           \* what Nexon answers for an ocid: not yet issued, valid, retired
  session,        \* the open session of each handler in flight
  crossed,        \* ghost: of each promise, for whom two handlers it does not
                  \* survive have been open together
  forgotten       \* ghost: accounts whose last holder removed the key

rows == <<character, representative, apiKey, subscription, historyCache>>
vars == <<rows, life, session, crossed, forgotten>>

Op == {"register", "import", "delete", "pin", "unkey", "remind", "refresh", "history"}

Table == {"history", "character", "registration", "subscription"}

Open == [op         : Op,
         m          : Member,
         want       : SUBSET Ocid,         \* the characters the handler is about
         to         : Ocid \cup {NoOcid},  \* the ocid it moves a row to
         key        : Key \cup {NoKey},    \* the key it read
         todo       : SUBSET Table,        \* tables its transaction has still to write
         characters : SUBSET Ocid,         \* the rows it has locked: of its member's
         locked     : SUBSET Table,        \* characters, of its member in other tables,
         dates      : SUBSET Date]         \* of its key's history

Idle == [op |-> "idle"]

TypeOK ==
  /\ character \in [Member -> SUBSET Ocid]
  /\ representative \in [Member -> Ocid \cup {NoOcid}]
  /\ apiKey \in [Member -> Key \cup {NoKey}]
  /\ subscription \subseteq Member
  /\ historyCache \subseteq Key \X Date
  /\ life \in [Ocid -> {"unissued", "valid", "retired"}]
  /\ session \in [Session -> Open \cup {Idle}]
  /\ crossed \in [cap : SUBSET Member, representative : SUBSET Member,
                  subscription : SUBSET Member, history : SUBSET (Key \cup {NoKey})]
  /\ forgotten \subseteq Key

Init ==
  /\ character = [m \in Member |-> {}]
  /\ representative = [m \in Member |-> NoOcid]
  /\ apiKey = [m \in Member |-> NoKey]
  /\ subscription = {}
  /\ historyCache = {}
  /\ life = [o \in Ocid |-> IF o \in FirstOcid THEN "valid" ELSE "unissued"]
  /\ session = [s \in Session |-> Idle]
  /\ crossed = [cap |-> {}, representative |-> {}, subscription |-> {}, history |-> {}]
  /\ forgotten = {}

-----------------------------------------------------------------------------
(* Sessions *)

Reading(op, m) ==
  [op |-> op, m |-> m, want |-> {}, to |-> NoOcid, key |-> NoKey, todo |-> {},
   characters |-> {}, locked |-> {}, dates |-> {}]

Begin(s, r) ==
  /\ session' = [session EXCEPT ![s] = r]
  /\ UNCHANGED <<rows, life, crossed, forgotten>>

End(s) == session' = [session EXCEPT ![s] = Idle]

Of(m) == {q \in Session : session[q].op # "idle" /\ session[q].m = m}

OfKey(k) == {q \in Session : session[q].op \in {"unkey", "history"} /\ session[q].key = k}

(* The rows no other transaction may write now. *)
LockedCharacters(m) == UNION {session[q].characters : q \in Of(m)}
LockedRows(m) == UNION {session[q].locked : q \in Of(m)}
LockedDates(k) == UNION {session[q].dates : q \in OfKey(k)}

(* Ghost bookkeeping: s commits while the session of a handler is open with *)
(* which it does not go together.                                          *)
Pair(s, q) == {session[s].op, session[q].op}
SameCharacter(s, q) == session[s].want \cap session[q].want # {}

CapCrossed(s) ==
  \E q \in Of(session[s].m) \ {s} :
    \/ Pair(s, q) \subseteq {"register", "import"}
    \/ Pair(s, q) = {"register", "refresh"} /\ SameCharacter(s, q)

RepresentativeCrossed(s) ==
  \E q \in Of(session[s].m) \ {s} :
    \/ Pair(s, q) \in {{"pin", "delete"}, {"pin", "refresh"}} /\ SameCharacter(s, q)
    \/ Pair(s, q) = {"refresh"} /\ session[s].to \in session[q].want

SubscriptionCrossed(s) ==
  \E q \in Of(session[s].m) \ {s} :
    Pair(s, q) \in {{"remind", "delete"}, {"remind", "unkey"}, {"delete"}}

HistoryCrossed(s) == \E q \in OfKey(session[s].key) : Pair(s, q) = {"unkey", "history"}

NoteCrossing(s) ==
  LET r == session[s]
  IN crossed' =
       [cap |-> crossed.cap \cup {m \in {r.m} : CapCrossed(s)},
        representative |-> crossed.representative \cup {m \in {r.m} : RepresentativeCrossed(s)},
        subscription |-> crossed.subscription \cup {m \in {r.m} : SubscriptionCrossed(s)},
        history |-> crossed.history \cup {k \in {r.key} : HistoryCrossed(s)}]

(* The handler ends and nothing of its transaction remains: the database   *)
(* was lost or chose it as the victim of a deadlock.                       *)
Rollback(s) ==
  /\ session[s].op \notin {"idle", "history"}
  /\ End(s)
  /\ UNCHANGED <<rows, life, crossed, forgotten>>

-----------------------------------------------------------------------------
(* The statements of a transaction that has several, in the order in which *)
(* they run: history or character, registration, subscription.  Each locks *)
(* the rows it finds.                                                      *)

Runs(s, r) ==
  /\ session' = [session EXCEPT ![s] = r]
  /\ UNCHANGED <<rows, life, crossed, forgotten>>

HistoryStatement(s) ==
  LET r == session[s]
      found == {d \in Date : <<r.key, d>> \in historyCache}
  IN /\ r.op = "unkey" /\ "history" \in r.todo
     /\ found \cap LockedDates(r.key) = {}
     /\ Runs(s, [r EXCEPT !.todo = @ \ {"history"}, !.dates = found])

(* A refresh locks its row under the old ocid and under the new one.  When  *)
(* its member has a row for the new one too, the update violates the       *)
(* primary key.                                                            *)
Collides(s) ==
  LET r == session[s]
  IN /\ r.op = "refresh" /\ "character" \in r.todo
     /\ r.want \cup {r.to} \subseteq character[r.m]

CharacterStatement(s) ==
  LET r == session[s]
      found == IF r.op = "delete" THEN r.want \cap character[r.m]
               ELSE IF r.want \subseteq character[r.m] THEN r.want \cup {r.to} ELSE {}
  IN /\ r.op \in {"delete", "refresh"} /\ "character" \in r.todo
     /\ found \cap LockedCharacters(r.m) = {}
     /\ ~ Collides(s)
     /\ Runs(s, [r EXCEPT !.todo = @ \ {"character"}, !.characters = found])

(* IntegrityError: nothing is written. *)
RefreshCollides(s) ==
  /\ Collides(s)
  /\ (session[s].want \cup {session[s].to}) \cap LockedCharacters(session[s].m) = {}
  /\ End(s)
  /\ UNCHANGED <<rows, life, crossed, forgotten>>

RegistrationStatement(s) ==
  LET r == session[s]
      found == {t \in {"registration"} : r.op = "unkey" \/ representative[r.m] \in r.want}
  IN /\ r.op \in {"delete", "unkey", "refresh"} /\ "registration" \in r.todo
     /\ r.todo \cap {"history", "character"} = {}
     /\ found \cap LockedRows(r.m) = {}
     /\ Runs(s, [r EXCEPT !.todo = @ \ {"registration"}, !.locked = @ \cup found])

SubscriptionStatement(s) ==
  LET r == session[s]
      found == {t \in {"subscription"} : r.m \in subscription}
  IN /\ r.op \in {"delete", "unkey"} /\ r.todo = {"subscription"}
     /\ found \cap LockedRows(r.m) = {}
     /\ Runs(s, [r EXCEPT !.todo = {}, !.locked = @ \cup found])

-----------------------------------------------------------------------------
(* /캐릭터등록: Nexon resolves the name and gives the level, then the cap is  *)
(* tested on the rows read; a character already registered is only         *)
(* updated.  Its insert of the registration row changes none that is there. *)

RegisterReadOneTooMany(s, m, o) ==
  /\ life[o] # "unissued"
  /\ o \in character[m] \/ Cardinality(character[m]) <= MAX_CHARACTERS_PER_USER
  /\ Begin(s, [Reading("register", m) EXCEPT !.want = {o}])

RegisterRead(s, m, o) ==
  /\ life[o] # "unissued"                   \* it may have been retired since
  /\ o \in character[m] \/ Cardinality(character[m]) < MAX_CHARACTERS_PER_USER
  /\ Begin(s, [Reading("register", m) EXCEPT !.want = {o}])

(* The commit of a registration and of an import: one insert. *)
Insert(s) ==
  LET r == session[s]
  IN /\ r.want \cap LockedCharacters(r.m) = {}
     /\ character' = [character EXCEPT ![r.m] = @ \cup r.want]
     /\ NoteCrossing(s)
     /\ End(s)
     /\ UNCHANGED <<representative, apiKey, subscription, historyCache, life, forgotten>>

RegisterCommit(s) == session[s].op = "register" /\ Insert(s)

(* 가져오기: of the characters picked in the account list, those not yet    *)
(* registered, as many as there is room for among the rows read.           *)

Room(m) == IF Cardinality(character[m]) >= MAX_CHARACTERS_PER_USER
           THEN 0 ELSE MAX_CHARACTERS_PER_USER - Cardinality(character[m])

Chosen(m, picks) ==
  LET fresh == picks \ character[m]
  IN {c \in SUBSET fresh : \/ c = fresh /\ Cardinality(c) <= Room(m)
                           \/ Cardinality(c) = Room(m)}

ImportRead(s, m, picks) ==
  /\ \A o \in picks : life[o] # "unissued"   \* the list may be an old one
  /\ \A o, n \in picks : NameOf[o] = NameOf[n] => o = n
  /\ \E chosen \in Chosen(m, picks) :
       /\ chosen # {}
       /\ Begin(s, [Reading("import", m) EXCEPT !.want = chosen])

ImportCommit(s) == session[s].op = "import" /\ Insert(s)

(* 삭제: the rows asked for and present; the pointer of a deleted character is *)
(* cleared, and when every row read is a target the subscription goes too.  *)

DeleteRead(s, m, wanted) ==
  /\ wanted \cap character[m] # {}
  /\ Begin(s, [Reading("delete", m) EXCEPT
       !.want = wanted \cap character[m],
       !.todo = {"character", "registration"} \cup
                {t \in {"subscription"} : character[m] \subseteq wanted}])

DeleteCommit(s) ==
  LET r == session[s]
  IN /\ r.op = "delete" /\ r.todo = {}
     /\ character' = [character EXCEPT ![r.m] = @ \ r.characters]
     /\ representative' = [representative EXCEPT ![r.m] =
                             IF "registration" \in r.locked THEN NoOcid ELSE @]
     /\ subscription' = subscription \ {m \in {r.m} : "subscription" \in r.locked}
     /\ NoteCrossing(s)
     /\ End(s)
     /\ UNCHANGED <<apiKey, historyCache, life, forgotten>>

-----------------------------------------------------------------------------
(* /대표지정 and its reset *)

SetRepresentativeRead(s, m, o) ==
  /\ o \in character[m]
  /\ Begin(s, [Reading("pin", m) EXCEPT !.want = {o}])

SetRepresentativeCommit(s) ==
  LET r == session[s]
  IN /\ r.op = "pin"
     /\ "registration" \notin LockedRows(r.m)
     /\ \E o \in r.want : representative' = [representative EXCEPT ![r.m] = o]
     /\ NoteCrossing(s)
     /\ End(s)
     /\ UNCHANGED <<character, apiKey, subscription, historyCache, life, forgotten>>

ResetRepresentative(m) ==
  /\ "registration" \notin LockedRows(m)
  /\ representative' = [representative EXCEPT ![m] = NoOcid]
  /\ UNCHANGED <<character, apiKey, subscription, historyCache, life, session,
                 crossed, forgotten>>

-----------------------------------------------------------------------------
(* /키등록 reads nothing before its upsert; the removal reads the key to find  *)
(* the account whose history goes with it.  An undecryptable key is removed *)
(* without its history.                                                    *)

RegisterKey(m, k) ==
  /\ "registration" \notin LockedRows(m)
  /\ apiKey' = [apiKey EXCEPT ![m] = k]
  /\ forgotten' = forgotten \ {k}
  /\ UNCHANGED <<character, representative, subscription, historyCache, life,
                 session, crossed>>

RemoveKeyRead(s, m) ==
  LET r == Reading("unkey", m)
  IN \/ /\ apiKey[m] # NoKey
        /\ Begin(s, [r EXCEPT !.key = apiKey[m],
                              !.todo = {"history", "registration", "subscription"}])
     \/ /\ apiKey[m] # NoKey                 \* InvalidToken
        /\ Begin(s, [r EXCEPT !.todo = {"registration", "subscription"}])
     \/ /\ apiKey[m] = NoKey
        /\ Begin(s, [r EXCEPT !.todo = {"subscription"}])

NothingErased(r) == UNCHANGED historyCache

EraseHistory(r) == historyCache' = {h \in historyCache : h[1] # r.key \/ h[2] \notin r.dates}

RemoveKeyCommit(s) ==
  LET r == session[s]
      keys == IF "registration" \in r.locked THEN [apiKey EXCEPT ![r.m] = NoKey] ELSE apiKey
  IN /\ r.op = "unkey" /\ r.todo = {}
     /\ apiKey' = keys
     /\ EraseHistory(r)
     /\ forgotten' = forgotten \cup {k \in {r.key} : k # NoKey /\ \A n \in Member : keys[n] # k}
     /\ subscription' = subscription \ {m \in {r.m} : "subscription" \in r.locked}
     /\ NoteCrossing(s)
     /\ End(s)
     /\ UNCHANGED <<character, representative, life>>

-----------------------------------------------------------------------------
(* /스케줄러알림: turned on only for a member with a key and a character. *)

Remindable(m) == apiKey[m] # NoKey /\ character[m] # {}

ReminderOnReadKeyless(s, m) == character[m] # {} /\ Begin(s, Reading("remind", m))

ReminderOnRead(s, m) == Remindable(m) /\ Begin(s, Reading("remind", m))

ReminderOnCommit(s) ==
  LET m == session[s].m
  IN /\ session[s].op = "remind"
     /\ "subscription" \notin LockedRows(m)
     /\ subscription' = subscription \cup {m}
     /\ NoteCrossing(s)
     /\ End(s)
     /\ UNCHANGED <<character, representative, apiKey, historyCache, life, forgotten>>

ReminderOff(m) ==
  /\ "subscription" \notin LockedRows(m)
  /\ subscription' = subscription \ {m}
  /\ UNCHANGED <<character, representative, apiKey, historyCache, life, session,
                 crossed, forgotten>>

-----------------------------------------------------------------------------
(* A lookup by an ocid read some time ago, which Nexon no longer knows,    *)
(* resolves the name again and moves the rows that still hold the old ocid *)
(* to the new one.                                                         *)

Successor(o) == {n \in Ocid : NameOf[n] = NameOf[o] /\ life[n] = "valid"}

RefreshRead(s, m, o, n) ==
  /\ life[o] # "unissued"
  /\ n \in Successor(o) \ {o}
  /\ Begin(s, [Reading("refresh", m) EXCEPT
       !.want = {o}, !.to = n, !.todo = {"character", "registration"}])

RenameWithoutPointer(r) ==
  /\ character' = [character EXCEPT ![r.m] =
                     IF r.characters = {} THEN @ ELSE (@ \ r.want) \cup {r.to}]
  /\ UNCHANGED representative

RenameByUpsert(r) ==
  /\ character' = [character EXCEPT ![r.m] = (@ \ r.want) \cup {r.to}]
  /\ representative' = [representative EXCEPT ![r.m] =
                          IF "registration" \in r.locked THEN r.to ELSE @]

Rename(r) ==
  /\ character' = [character EXCEPT ![r.m] =
                     IF r.characters = {} THEN @ ELSE (@ \ r.want) \cup {r.to}]
  /\ representative' = [representative EXCEPT ![r.m] =
                          IF "registration" \in r.locked THEN r.to ELSE @]

RefreshCommit(s) ==
  /\ session[s].op = "refresh" /\ session[s].todo = {}
  /\ Rename(session[s])
  /\ NoteCrossing(s)
  /\ End(s)
  /\ UNCHANGED <<apiKey, subscription, historyCache, life, forgotten>>

(* Nexon retires the ocid of a character and issues another: external. *)
Reissue(o, n) ==
  /\ life[o] = "valid" /\ life[n] = "unissued" /\ NameOf[o] = NameOf[n]
  /\ life' = [life EXCEPT ![o] = "retired", ![n] = "valid"]
  /\ UNCHANGED <<rows, session, crossed, forgotten>>

-----------------------------------------------------------------------------
(* /스타포스 and /잠재: the key is read once, then every missing date is fetched *)
(* and stored by a transaction of its own under the account of that key.   *)

HistoryRead(s, m) ==
  /\ apiKey[m] # NoKey
  /\ Begin(s, [Reading("history", m) EXCEPT !.key = apiKey[m]])

HistoryStore(s, d) ==
  LET k == session[s].key
  IN /\ session[s].op = "history"
     /\ d \notin LockedDates(k)
     /\ historyCache' = historyCache \cup {<<k, d>>}
     /\ NoteCrossing(s)
     /\ UNCHANGED <<character, representative, apiKey, subscription, life, session,
                    forgotten>>

HistoryEnd(s) ==
  /\ session[s].op = "history"
  /\ End(s)
  /\ UNCHANGED <<rows, life, crossed, forgotten>>

-----------------------------------------------------------------------------
Statement(s) ==
  \/ HistoryStatement(s) \/ CharacterStatement(s)
  \/ RegistrationStatement(s) \/ SubscriptionStatement(s)

Commit(s) ==
  \/ RegisterCommit(s) \/ ImportCommit(s) \/ DeleteCommit(s)
  \/ SetRepresentativeCommit(s) \/ RemoveKeyCommit(s) \/ ReminderOnCommit(s)
  \/ RefreshCommit(s) \/ RefreshCollides(s)
  \/ (\E d \in Date : HistoryStore(s, d)) \/ HistoryEnd(s)

Start(s, m) ==
  /\ session[s] = Idle
  /\ \/ \E o \in Ocid : RegisterRead(s, m, o) \/ SetRepresentativeRead(s, m, o)
     \/ \E o, n \in Ocid : RefreshRead(s, m, o, n)
     \/ \E picks \in SUBSET Ocid : ImportRead(s, m, picks) \/ DeleteRead(s, m, picks)
     \/ RemoveKeyRead(s, m) \/ ReminderOnRead(s, m) \/ HistoryRead(s, m)

Handler(s) == Statement(s) \/ Commit(s) \/ Rollback(s) \/ \E m \in Member : Start(s, m)

Elsewhere ==
  \/ \E m \in Member : \/ ResetRepresentative(m) \/ ReminderOff(m)
                       \/ \E k \in Key : RegisterKey(m, k)
  \/ \E o, n \in Ocid : Reissue(o, n)

Next == (\E s \in Session : Handler(s)) \/ Elsewhere

Spec == Init /\ [][Next]_vars

-----------------------------------------------------------------------------
(* Properties.  Each of the first four is promised without condition and   *)
(* holds as long as the handlers it names have not been open together.     *)

(* A member never has more characters than the cap, whatever the order of  *)
(* registrations, imports, deletions and ocid refreshes, unless two of its *)
(* registrations or imports overlap, or the registration of a character    *)
(* and its refresh.                                                        *)
CapKept ==
  \A m \in Member \ crossed.cap : Cardinality(character[m]) <= MAX_CHARACTERS_PER_USER

(* A manually set representative is one of the member's characters: deleting *)
(* or refreshing the character takes the pointer along, though rows and    *)
(* pointer are written by two statements between which others commit.  Not *)
(* so when the character is pinned while it is deleted or refreshed, or    *)
(* when two refreshes overlap of which one moves to what the other moves.  *)
RepresentativeOwned ==
  \A m \in Member \ crossed.representative :
    representative[m] \in character[m] \cup {NoOcid}

(* No dead subscription: a subscribed member has a key and a character,    *)
(* unless the subscription was set while the key or characters went, or    *)
(* two deletions overlapped, each of which saw what the other would leave. *)
SubscriptionAlive ==
  \A m \in subscription \ crossed.subscription : apiKey[m] # NoKey /\ character[m] # {}

(* Once a removal of the key has left it without a holder, no history of   *)
(* that account is stored until somebody registers the key again, unless a *)
(* query and a removal of it overlapped.                                   *)
RemovedKeyForgotten ==
  \A h \in historyCache : h[1] \notin forgotten \ crossed.history

(* Only a registration, an import or a deletion changes which characters a *)
(* member has: the refresh of an ocid renames a row, it neither merges two *)
(* rows nor brings back one deleted between its request and its commit.    *)
RefreshKeepsCharacters ==
  [][\A m \in Member :
       \/ \E s \in Of(m) : /\ session[s].op \in {"register", "import", "delete"}
                           /\ session'[s] = Idle
       \/ /\ Cardinality(character'[m]) = Cardinality(character[m])
          /\ {NameOf[o] : o \in character'[m]} = {NameOf[o] : o \in character[m]}]_vars

=============================================================================
