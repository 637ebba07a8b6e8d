----------------------------- MODULE Comparison -----------------------------
(***************************************************************************)
(* fetch_each: a comparison command asks Nexon for each of its targets in  *)
(* turn while the other handlers of Registration keep changing the rows    *)
(* the targets were read from.  Its own refresh of an ocid is Registration's *)
(* refresh, in the database session of the command.                        *)
(***************************************************************************)
EXTENDS Registration

CONSTANTS
  Command, \* comparison commands in flight: handlers of Session
  Guest,   \* discord_user_id of a target named by nickname and not registered
  None     \* no target is being looked up

ASSUME ComparisonAssumption ==
  /\ Command \subseteq Session
  /\ Guest \notin Member
  /\ None \notin [m : Member \cup {Guest}, o : Ocid]

Target == [m : Member \cup {Guest}, o : Ocid]

VARIABLE
  comparison   \* of each command: its stage, the targets with no outcome yet
               \* (todo), the target being looked up (at), by which ocid, and
               \* whether its name was resolved again

comparisonVars == <<vars, comparison>>

Waiting == [stage |-> "idle", todo |-> {}, at |-> None, ocid |-> NoOcid, refreshed |-> FALSE]

ComparisonInit == Init /\ comparison = [c \in Command |-> Waiting]

-----------------------------------------------------------------------------
(* The targets: registered characters of some members, chosen by mention,  *)
(* by nickname or as the representatives, and guests resolved just now.    *)

Registered == {t \in Target : t.m \in Member /\ t.o \in character[t.m]}
Resolvable == {t \in Target : t.m = Guest /\ life[t.o] = "valid"}

StartComparison(c, targets) ==
  /\ comparison[c].stage = "idle"
  /\ targets # {}
  /\ targets \subseteq Registered \cup Resolvable
  /\ comparison' = [comparison EXCEPT ![c] =
       [Waiting EXCEPT !.stage = "fetch", !.todo = targets]]
  /\ UNCHANGED vars

NextTarget(c, t) ==
  /\ comparison[c].stage = "fetch"
  /\ comparison[c].at = None
  /\ t \in comparison[c].todo
  /\ comparison' = [comparison EXCEPT ![c] =
       [@ EXCEPT !.at = t, !.ocid = t.o, !.refreshed = FALSE]]
  /\ UNCHANGED vars

(* The target under way gets its outcome, figures or an error: a row of    *)
(* the answer, of which nothing later depends.                             *)
Settled(c) ==
  LET r == comparison[c]
  IN comparison' = [comparison EXCEPT ![c] =
       [r EXCEPT !.stage = "fetch", !.todo = r.todo \ {r.at}, !.at = None,
                 !.ocid = NoOcid, !.refreshed = FALSE]]

Asking(c) == comparison[c].stage = "fetch" /\ comparison[c].at # None

(* Figures, a failure that says nothing of the ocid, or one the handler     *)
(* gives up on: a guest is never refreshed, another target only once.      *)
FetchSettles(c) ==
  /\ Asking(c)
  /\ Settled(c)
  /\ UNCHANGED vars

FetchStaleAgain(c) ==
  /\ Asking(c)
  /\ comparison[c].at.m # Guest
  /\ comparison' = [comparison EXCEPT ![c] = [@ EXCEPT !.stage = "resolve"]]
  /\ UNCHANGED vars

(* Nexon does not know the ocid.  It answers the same of a wrong parameter, *)
(* so a valid ocid may be refused too.                                     *)
FetchStale(c) ==
  /\ Asking(c)
  /\ comparison[c].at.m # Guest
  /\ ~ comparison[c].refreshed
  /\ comparison' = [comparison EXCEPT ![c] =
       [@ EXCEPT !.stage = "resolve", !.refreshed = TRUE]]
  /\ UNCHANGED vars

(* refresh_ocid: get_ocid names no ocid, the one that was refused, or       *)
(* another, to which the rows are moved before the retry.                  *)
ResolveFails(c) ==
  /\ comparison[c].stage = "resolve"
  /\ Settled(c)
  /\ UNCHANGED vars

ResolveSame(c) ==
  /\ comparison[c].stage = "resolve"
  /\ comparison[c].at.o \in Successor(comparison[c].at.o)
  /\ comparison' = [comparison EXCEPT ![c] = [@ EXCEPT !.stage = "fetch"]]
  /\ UNCHANGED vars

ResolveMoved(c) ==
  /\ comparison[c].stage = "resolve"
  /\ \E n \in Ocid : RefreshRead(c, comparison[c].at.m, comparison[c].at.o, n)
  /\ comparison' = [comparison EXCEPT ![c] = [@ EXCEPT !.stage = "refresh"]]

RefreshWrites(c) ==
  /\ comparison[c].stage = "refresh"
  /\ Statement(c)
  /\ UNCHANGED comparison

RefreshDone(c) ==
  /\ comparison[c].stage = "refresh"
  /\ RefreshCommit(c)
  /\ comparison' = [comparison EXCEPT ![c] =
       [@ EXCEPT !.stage = "fetch", !.ocid = session[c].to]]

(* Nothing between refresh_ocid and the command catches what the database  *)
(* raises: the IntegrityError of a collision, or that it was lost.         *)
Broken(c, stage) ==
  comparison' = [comparison EXCEPT ![c] =
    [Waiting EXCEPT !.stage = stage, !.todo = comparison[c].todo]]

RefreshAborts(c) ==
  comparison[c].stage = "refresh" /\ RefreshCollides(c) /\ Broken(c, "aborted")

RefreshLost(c) ==
  comparison[c].stage = "refresh" /\ Rollback(c) /\ Broken(c, "lost")

(* The command answers with one row for each outcome, or with an error. *)
FinishComparison(c) ==
  /\ \/ comparison[c].stage = "fetch" /\ comparison[c].todo = {}
     \/ comparison[c].stage \in {"aborted", "lost"}
  /\ comparison' = [comparison EXCEPT ![c] = Waiting]
  /\ UNCHANGED vars

-----------------------------------------------------------------------------
FetchEach(c) ==
  \/ \E t \in Target : NextTarget(c, t)
  \/ FetchSettles(c) \/ FetchStale(c)
  \/ ResolveFails(c) \/ ResolveSame(c) \/ ResolveMoved(c)
  \/ RefreshWrites(c) \/ RefreshDone(c) \/ RefreshAborts(c)
  \/ FinishComparison(c)

Other == Session \ Command

ComparisonNext ==
  \/ UNCHANGED comparison /\ (Elsewhere \/ \E s \in Other : Handler(s))
  \/ \E c \in Command :
       \/ FetchEach(c) \/ RefreshLost(c)
       \/ \E targets \in SUBSET Target : StartComparison(c, targets)

(* The event loop runs a ready coroutine; Nexon is asked under a timeout,   *)
(* and a transaction goes on to its end, which releases its rows.  The     *)
(* rows a statement waits for are given to those who wait in their order,  *)
(* so a command is not overtaken for ever.  Nobody is required to fail.    *)
ComparisonSpec ==
  /\ ComparisonInit /\ [][ComparisonNext]_comparisonVars
  /\ \A s \in Other : WF_vars(Statement(s) \/ Commit(s))
  /\ \A c \in Command : SF_comparisonVars(FetchEach(c))

-----------------------------------------------------------------------------
(* Every comparison comes to an end: however Nexon answers, each target    *)
(* settles after one refresh at most, and the refresh gets the rows that   *)
(* other handlers have locked.                                             *)
ComparisonEnds ==
  \A c \in Command : comparison[c].stage # "idle" ~> comparison[c].stage = "idle"

(* Partial success: the command gives every target an outcome, the failure *)
(* of one does not take the others with it.                                *)
EveryTargetAnswered == \A c \in Command : comparison[c].stage # "aborted"

=============================================================================
