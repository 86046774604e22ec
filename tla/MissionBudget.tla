--------------------------- MODULE MissionBudget ---------------------------
(***************************************************************************)
(* The token budget of one Mission of agent_orchestrator: the accounts and *)
(* reservations of BudgetLedger, the grants of ProviderBudgetGuard, the    *)
(* import of usage from the SDK's Provider ledger, and the ways a turn's   *)
(* reservation is settled.                                                 *)
(*                                                                         *)
(* A subject is a dispatched turn: an Attempt or a service turn (a planner *)
(* or a reviewer).  Its intent is SUBMITTED while the turn may call, and   *)
(* names an executor (Agent); a re-handoff names a second one.  STOPPED is *)
(* a SUBMITTED intent whose Attempt or Mission has ended, VERIFYING and    *)
(* CLOSED are settled intents, the first with its verdict still to come.   *)
(* Every call has one handoff, the key of its grant with its invocation,   *)
(* and the same bound on its usage.  The deployment is unpriced and has    *)
(* one pool, in the orchestrator's process; the lanes TaskGraph and        *)
(* Assurance are left out.  A handler without an await is one action; what *)
(* a crash may cut off it, transaction by transaction, is its parameter.   *)
(***************************************************************************)
EXTENDS Naturals, FiniteSets, Functions

CONSTANTS Subjects, Attempts,  \* the turns, and those that are Attempts
          ReadOnly,            \* the Attempts of a read-only leaf
          Calls, SubjectOf,    \* the Provider calls and their turns
          ExecutorOf,          \* 0, or 1 for a call of the second executor
          Before,              \* the earlier calls of the same executor
          Accounts, Chain,     \* the accounts, and those each turn is charged to
          Limit,               \* max_tokens of an account
          Initial,             \* tokens reserved with an intent
          Upper,               \* total_upper of a grant
          Costs,               \* what the Provider may charge for a call
          MaxSlots,            \* max_slots of the guard
          Lanes,               \* the kinds of Mission
          Workloads            \* the sets of turns a Mission may come to

ASSUME BudgetConstants ==
    /\ IsFiniteSet(Subjects) /\ IsFiniteSet(Calls)
    /\ Attempts \subseteq Subjects /\ ReadOnly \subseteq Attempts
    /\ SubjectOf \in [Calls -> Subjects] /\ ExecutorOf \in [Calls -> {0, 1}]
    /\ Before \in [Calls -> SUBSET Calls]
    /\ Chain \in [Subjects -> SUBSET Accounts] /\ Limit \in [Accounts -> Nat]
    /\ Initial \in Nat /\ Upper \in Nat /\ MaxSlots \in Nat
    /\ Costs \subseteq Nat \ {0}
    /\ Lanes \subseteq {"legacy", "hierarchical"} /\ Workloads \subseteq SUBSET Subjects

VARIABLES lane,        \* the kind of this Mission
          mission,     \* "open" or "ended"
          account,     \* budget_accounts
          reservation, \* budget_reservations, by subject
          intent,      \* dispatch_intents, by subject
          grant,       \* provider_token_grants, wire: its wire-terminal mark
          invocation,  \* the SDK's row, "ended" if succeeded or failed; usage is {} or
                       \* the set of the reported number
          leaseGone,   \* the runtime lease named by the grant is not current
          calling,     \* how far _invoke_physical is in the live process
          imported,    \* imported_usage
          cost,        \* external: what the Provider has charged
          writtenOff   \* history: calls whose charge the code lets go of

budgetVars == <<lane, mission, account, reservation, intent, grant, invocation, leaseGone,
                calling, imported, cost, writtenOff>>

Held == {"RESERVED", "HANDED_OFF", "UNKNOWN"}

CallsOf(s) == {c \in Calls : SubjectOf[c] = s}

BudgetInit ==
    /\ lane \in Lanes /\ mission = "open"
    /\ account = [a \in Accounts |-> [reserved |-> 0, settled |-> 0]]
    /\ reservation = [s \in Subjects |-> [state |-> "none", tokens |-> 0]]
    /\ \E W \in Workloads :
           intent = [s \in Subjects |->
                        [state |-> IF s \in W THEN "none" ELSE "never", executor |-> 0]]
    /\ grant = [c \in Calls |-> [state |-> "none", actual |-> 0, wire |-> FALSE]]
    /\ invocation = [c \in Calls |-> [state |-> "claimed", usage |-> {}]]
    /\ leaseGone = [c \in Calls |-> FALSE]
    /\ calling = [c \in Calls |-> "no"]
    /\ imported = [c \in Calls |-> [row |-> "none", tokens |-> 0]]
    /\ cost = [c \in Calls |-> 0]
    /\ writtenOff = {}

-----------------------------------------------------------------------------
(* BudgetLedger.                                                           *)

\* What is left of every account that s is charged to; a negative rest refuses all.
Fits(s, n) ==
    \A a \in Chain[s] : account[a].reserved + account[a].settled + n <= Limit[a]

\* _apply on the chain of s: n more tokens are reserved.
Reserve(s, n) ==
    /\ account' = [a \in Accounts |->
           IF a \in Chain[s] THEN [account[a] EXCEPT !.reserved = @ + n] ELSE account[a]]
    /\ reservation' = [reservation EXCEPT ![s] = [state |-> "RESERVED", tokens |-> @.tokens + n]]

\* Faulty: a grant that is still held is not asked for.
HasUnknownRow(s, rows) == \E c \in CallsOf(s) : rows[c].row = "unknown"

HeldOf(s) == {c \in CallsOf(s) : grant[c].state \in Held}

\* has_unknown_usage, with the imported rows `rows`.
HasUnknown(s, rows) == HeldOf(s) # {} \/ \E c \in CallsOf(s) : rows[c].row = "unknown"

\* usage_for and known_usage_for: an unknown row has no tokens.
UsageFor(s, rows) == SumFunctionOnSet([c \in Calls |-> rows[c].tokens], CallsOf(s))

\* settle and settle_known: on the whole chain, what was reserved for the turns S
\* is replaced by what the rows say was used.  A settled reservation is left alone.
Settle(S, rows) ==
    LET open == {s \in S : reservation[s].state = "RESERVED"}
        Of(a) == {s \in open : a \in Chain[s]}
        tokens == [s \in Subjects |-> reservation[s].tokens]
        usage  == [s \in Subjects |-> UsageFor(s, rows)]
    IN  /\ account' = [a \in Accounts |->
               [reserved |-> account[a].reserved - SumFunctionOnSet(tokens, Of(a)),
                settled  |-> account[a].settled + SumFunctionOnSet(usage, Of(a))]]
        /\ reservation' = [s \in Subjects |->
               IF s \in open THEN [reservation[s] EXCEPT !.state = "SETTLED"] ELSE reservation[s]]

\* create_attempt and create_service_intent, and the dispatch of the intent.
CreateIntent(s) ==
    /\ mission = "open" /\ intent[s].state = "none"
    /\ Fits(s, Initial)
    /\ Reserve(s, Initial)
    /\ intent' = [intent EXCEPT ![s].state = "SUBMITTED"]
    /\ UNCHANGED <<lane, mission, grant, invocation, leaseGone, calling, imported, cost, writtenOff>>

-----------------------------------------------------------------------------
(* ProviderBudgetGuard.                                                    *)

\* adapter.authority.
Authority(c) ==
    LET s == SubjectOf[c]
    IN  /\ mission = "open"
        /\ intent[s] = [state |-> "SUBMITTED", executor |-> ExecutorOf[c]]
        /\ reservation[s].state = "RESERVED"

\* held_grant_rows.
Occupies(c) == grant[c].state \in Held /\ ~(grant[c].state = "UNKNOWN" /\ grant[c].wire)

SlotFree == Cardinality({c \in Calls : Occupies(c)}) < MaxSlots

\* What the grants of s count against its reservation.
Spent(s) ==
    SumFunctionOnSet([c \in Calls |-> IF grant[c].actual > 0 THEN grant[c].actual ELSE Upper],
                     {c \in CallsOf(s) : grant[c].state \notin {"none", "RELEASED"}})

\* A round of acquire's loop that ends it: a slot is free, and the reservation covers
\* this call with all the earlier ones, or grows so that it does.
Acquire(c) ==
    LET s == SubjectOf[c]
        required == Spent(s) + Upper
        delta == IF required > reservation[s].tokens THEN required - reservation[s].tokens ELSE 0
    IN  /\ calling[c] = "asking"
        /\ Authority(c)
        /\ grant[c].state \in {"none", "RELEASED"}
        /\ \A d \in Calls : grant[d].state # "OVERRUN"
        /\ SlotFree
        /\ Fits(s, delta)
        /\ Reserve(s, delta)
        /\ grant' = [grant EXCEPT ![c].state = "RESERVED"]
        /\ leaseGone' = [leaseGone EXCEPT ![c] = FALSE]
        /\ calling' = [calling EXCEPT ![c] = "admitted"]
        /\ UNCHANGED <<lane, mission, intent, invocation, imported, cost, writtenOff>>

\* handoff: the SDK's transaction inside that of the orchestrator.  When the
\* process dies between the two commits the grant stays reserved.
Handoff(c, torn) ==
    /\ calling[c] = "admitted"
    /\ grant[c].state = "RESERVED" /\ Authority(c) /\ ~leaseGone[c]
    /\ invocation' = [invocation EXCEPT ![c].state = "handed_off"]
    /\ IF torn
       THEN calling' = [d \in Calls |-> "no"] /\ UNCHANGED grant
       ELSE /\ calling' = [calling EXCEPT ![c] = "sent"]
            /\ grant' = [grant EXCEPT ![c].state = "HANDED_OFF"]
    /\ UNCHANGED <<lane, mission, account, reservation, intent, leaseGone, imported, cost, writtenOff>>

\* acquire refuses or runs into the turn's deadline; or the handoff is refused or
\* cancelled, and observe finds a call that was never handed off.  It may come again.
Refused(c) ==
    /\ calling[c] \in {"asking", "admitted"}
    /\ calling' = [calling EXCEPT ![c] = "no"]
    /\ grant' = IF calling[c] = "admitted" /\ grant[c].state = "RESERVED"
                THEN [grant EXCEPT ![c].state = "RELEASED"] ELSE grant
    /\ UNCHANGED <<lane, mission, account, reservation, intent, invocation, leaseGone, imported,
                   cost, writtenOff>>

\* _observe_in_transaction for a call that ended: a usable report settles the
\* grant; otherwise its slot is free and its allowance stays.
Observed(c) ==
    LET g == grant[c]
        usage == invocation[c].usage \ {0}
    IN  IF g.state \in {"none", "SETTLED", "OVERRUN"} THEN g
        ELSE IF invocation[c].state = "ended" /\ usage # {}
             THEN LET n == CHOOSE n \in usage : TRUE
                  IN  [g EXCEPT !.state = IF n > Upper THEN "OVERRUN" ELSE "SETTLED", !.actual = n]
        ELSE [g EXCEPT !.wire = TRUE, !.state = IF @ \in Held THEN "UNKNOWN" ELSE @]

\* observe, in the finally of _invoke_physical.
Observe(c) ==
    /\ calling[c] = "answered"
    /\ calling' = [calling EXCEPT ![c] = "no"]
    /\ grant' = [grant EXCEPT ![c] = Observed(c)]
    /\ UNCHANGED <<lane, mission, account, reservation, intent, invocation, leaseGone, imported,
                   cost, writtenOff>>

\* The intent of c's turn names another executor.
Rehanded(c) == intent[SubjectOf[c]].executor # ExecutorOf[c]

\* Faulty: asked only when the grant is first found to be of unknown outcome.
EndedOnWireOnce(c) ==
    grant[c].state # "UNKNOWN" /\ (invocation[c].state = "unknown" \/ leaseGone[c])

\* recover takes a call of unknown outcome for ended on the wire: the SDK has settled it
\* as unknown, or _owner_gone.
EndedOnWire(c) == invocation[c].state = "unknown" \/ leaseGone[c]

\* What recover makes of the grant of c.
Recovered(c) ==
    LET g == grant[c]
        v == invocation[c].state
        Released(r) == IF r.state \in Held THEN [r EXCEPT !.state = "RELEASED"] ELSE r
    IN  IF g.state \notin Held \cup {"RELEASED"} THEN g
        ELSE IF Rehanded(c) THEN Released(IF v = "ended" THEN Observed(c) ELSE g)
        ELSE IF v = "ended" THEN Observed(c)
        ELSE IF v = "not_started" THEN Released(g)
        ELSE IF v \in {"handed_off", "unknown"}
             THEN [g EXCEPT !.state = IF @ \in Held THEN "UNKNOWN" ELSE @,
                            !.wire = @ \/ EndedOnWire(c)]
        ELSE IF g.state = "RESERVED" /\ (mission = "ended" \/ leaseGone[c]
                                          \/ intent[SubjectOf[c]].state # "SUBMITTED")
             THEN Released(g)
        ELSE g

\* The calls among C that were handed off and of which no charge is on the books.
Uncharged(C, rows) == {c \in C : invocation[c].state # "claimed" /\ rows[c].tokens = 0}

\* recover.
RecoverGrants ==
    /\ grant' = [c \in Calls |-> Recovered(c)]
    /\ writtenOff' = writtenOff \cup
           Uncharged({c \in Calls : Rehanded(c) /\ grant[c].state \in Held
                                     /\ grant'[c].state = "RELEASED"}, imported)
    /\ UNCHANGED <<lane, mission, account, reservation, intent, invocation, leaseGone, imported, cost>>

\* At a start, after a reconciliation and with every pass of the late accounting.
Recover == RecoverGrants /\ UNCHANGED calling

\* An Agent makes one call after the other, and waits for a call of unknown outcome.
AgentIsFree(c) ==
    /\ calling[c] = "no"
    /\ \A d \in Before[c] : calling[d] = "no" /\ invocation[d].state = "ended"

\* Faulty: acquire takes the grants as they are.
AskUnrecovered(c) ==
    /\ invocation[c].state = "claimed" /\ AgentIsFree(c)
    /\ Authority(c)
    /\ calling' = [calling EXCEPT ![c] = "asking"]
    /\ UNCHANGED <<lane, mission, account, reservation, intent, grant, invocation, leaseGone, imported,
                   cost, writtenOff>>

\* acquire begins with recover and then waits for its turn.
Ask(c) ==
    /\ invocation[c].state = "claimed" /\ AgentIsFree(c)
    /\ Authority(c)
    /\ RecoverGrants
    /\ calling' = [calling EXCEPT ![c] = "asking"]

-----------------------------------------------------------------------------
(* The SDK and the Provider, as far as the budget sees them.               *)

\* external: the Provider works on a call it may have got, and charges for it.
Serve(c) ==
    /\ invocation[c].state \in {"handed_off", "unknown"} /\ cost[c] = 0
    /\ cost' \in {[cost EXCEPT ![c] = n] : n \in Costs}
    /\ UNCHANGED <<lane, mission, account, reservation, intent, grant, invocation, leaseGone,
                   calling, imported, writtenOff>>

\* What a record may hold of the usage: nothing, the number, or a relay's zeros.
Reports(c) == {{}, {0}} \cup {{n} : n \in {cost[c]} \ {0}}

\* The transport returns to _invoke_physical, which settles the invocation.
Answer(c) ==
    /\ calling[c] = "sent"
    /\ calling' = [calling EXCEPT ![c] = "answered"]
    /\ \/ invocation' = [invocation EXCEPT ![c].state = "unknown"]
       \/ \E u \in Reports(c) :
              invocation' = [invocation EXCEPT ![c] = [state |-> "ended", usage |-> u]]
    /\ UNCHANGED <<lane, mission, account, reservation, intent, grant, leaseGone, imported, cost,
                   writtenOff>>

\* The process dies with all its calls, and a new one starts.
ProcessDies ==
    /\ \E c \in Calls : calling[c] # "no"
    /\ calling' = [c \in Calls |-> "no"]
    /\ UNCHANGED <<lane, mission, account, reservation, intent, grant, invocation, leaseGone,
                   imported, cost, writtenOff>>

\* _owner_gone becomes true for a grant that is held, while it makes a difference.
LeaseLapses(c) ==
    /\ grant[c].state \in Held /\ ~leaseGone[c]
    /\ invocation[c].state \in {"claimed", "handed_off"}
    /\ leaseGone' = [leaseGone EXCEPT ![c] = TRUE]
    /\ UNCHANGED <<lane, mission, account, reservation, intent, grant, invocation, calling,
                   imported, cost, writtenOff>>

\* The SDK gives up a handoff of a process that is gone, a reconciliation finds
\* out what became of a call, and a late receipt says what one has cost.
SdkResolves(c) ==
    /\ calling[c] = "no"
    /\ \/ /\ invocation[c].state = "handed_off" /\ leaseGone[c]
          /\ invocation' = [invocation EXCEPT ![c].state = "unknown"]
       \/ /\ invocation[c].state = "unknown"
          /\ \E u \in Reports(c) :
                 invocation' = [invocation EXCEPT ![c] = [state |-> "ended", usage |-> u]]
       \/ /\ invocation[c].state = "unknown" /\ cost[c] = 0
          /\ invocation' = [invocation EXCEPT ![c].state = "not_started"]
       \/ /\ invocation[c] = [state |-> "ended", usage |-> {}] /\ cost[c] > 0
          /\ invocation' = [invocation EXCEPT ![c].usage = {cost[c]}]
    /\ UNCHANGED <<lane, mission, account, reservation, intent, grant, leaseGone, calling, imported,
                   cost, writtenOff>>

-----------------------------------------------------------------------------
(* The orchestrator: how a turn ends and its reservation is settled.       *)

Known(c) == [row |-> "known", tokens |-> CHOOSE n \in invocation[c].usage : TRUE]

\* import_usage: a known row stays as it is.
Import(facts) ==
    [c \in Calls |-> IF c \in DOMAIN facts /\ imported[c].row # "known" THEN facts[c]
                     ELSE imported[c]]

\* _import_usage: usage_facts of every executor the turn had.  A hierarchical
\* Mission notes the calls of unknown usage as well.
ImportUsage(S) ==
    LET all     == {c \in Calls : SubjectOf[c] \in S}
        known   == {c \in all : invocation[c].state = "ended" /\ invocation[c].usage \ {0} # {}}
        unknown == {c \in all \ known : /\ lane = "hierarchical"
                                       /\ invocation[c].state \in {"ended", "unknown"}}
    IN  Import([c \in known \cup unknown |->
                   IF c \in known THEN Known(c) ELSE [row |-> "unknown", tokens |-> 0]])

\* _settle_if_known and _settle_service_if_known: a hierarchical service turn is
\* settled with what is known.
MaySettle(s, rows) ==
    \/ ~HasUnknown(s, rows)
    \/ lane = "hierarchical" /\ s \notin Attempts /\ \E c \in CallsOf(s) : rows[c].row = "unknown"

\* The reservation of s is settled if d holds.
SettleIf(d, s, rows) == IF d THEN Settle({s}, rows) ELSE UNCHANGED <<account, reservation>>

\* When a handler is cut off the process is gone.
CutOff(d) == calling' = IF d THEN [c \in Calls |-> "no"] ELSE calling

Executing(s) == {c \in CallsOf(s) : ExecutorOf[c] = intent[s].executor}

\* The turn of s has ended: none of its calls is in the air.
TurnOver(s) ==
    \A c \in Executing(s) : calling[c] = "no" /\ invocation[c].state \in {"ended", "claimed"}

\* The turn waits for a call of unknown outcome.
Blocked(s) ==
    \E c \in Executing(s) : invocation[c].state = "unknown" /\ calling[c] = "no"

\* _collect_plan and _collect_attempt of a turn that failed or was stopped, and
\* _collect_after_stop: import, then close and settle in either order.
Collect(s, closed, settled) ==
    LET rows == ImportUsage({s})
        due  == settled /\ MaySettle(s, rows)
    IN  /\ intent[s].state \in {"SUBMITTED", "STOPPED"} /\ TurnOver(s)
        /\ imported' = rows
        /\ SettleIf(due, s, rows)
        /\ intent' = IF closed THEN [intent EXCEPT ![s].state = "CLOSED"] ELSE intent
        /\ CutOff(~closed \/ ~settled)
        /\ writtenOff' = IF due /\ HasUnknown(s, rows)
                         THEN writtenOff \cup Uncharged(HeldOf(s), rows) ELSE writtenOff
        /\ UNCHANGED <<lane, mission, grant, invocation, leaseGone, cost>>

\* _collect_attempt of a turn with a result, which is then verified.
CollectResult(s) ==
    /\ s \in Attempts /\ intent[s].state = "SUBMITTED" /\ TurnOver(s)
    /\ imported' = ImportUsage({s})
    /\ intent' = [intent EXCEPT ![s].state = "VERIFYING"]
    /\ UNCHANGED <<lane, mission, account, reservation, grant, invocation, leaseGone, calling, cost,
                   writtenOff>>

\* accept_result: what was imported with the result is settled.
Verdict(s) ==
    LET due == ~HasUnknown(s, imported)
    IN  /\ intent[s].state = "VERIFYING"
        /\ intent' = [intent EXCEPT ![s].state = "CLOSED"]
        /\ SettleIf(due, s, imported)
        /\ writtenOff' = IF due THEN writtenOff \cup Uncharged(CallsOf(s), imported) ELSE writtenOff
        /\ UNCHANGED <<lane, mission, grant, invocation, leaseGone, calling, imported, cost>>

\* _observe_liveness of a turn that makes no progress: mark_attempt_timed_out.  Without
\* a shared capacity only an unknown outcome and the wait for a slot are blockers.
StallOut(s, closed) ==
    LET rows == ImportUsage({s})
    IN  /\ s \in Attempts /\ intent[s].state = "SUBMITTED" /\ mission = "open"
        /\ ~Blocked(s) /\ \A c \in Executing(s) : calling[c] # "asking"
        /\ imported' = rows
        /\ SettleIf(~HasUnknown(s, rows), s, rows)
        /\ intent' = [intent EXCEPT ![s].state = IF closed THEN "CLOSED" ELSE "STOPPED"]
        /\ CutOff(~closed)
        /\ UNCHANGED <<lane, mission, grant, invocation, leaseGone, cost, writtenOff>>

\* _stop_read_only_leaf_kept_writing, after a tool call was refused: mark_attempt_lost
\* with no import before it.
StopReadOnly(s, closed) ==
    LET due == ~HasUnknown(s, imported)
    IN  /\ lane = "hierarchical" /\ s \in ReadOnly /\ intent[s].state = "SUBMITTED"
        /\ \E c \in CallsOf(s) : invocation[c].state = "ended" /\ calling[c] = "no"
        /\ SettleIf(due, s, imported)
        /\ intent' = [intent EXCEPT ![s].state = IF closed THEN "CLOSED" ELSE "STOPPED"]
        /\ CutOff(~closed)
        /\ writtenOff' = IF due THEN writtenOff \cup Uncharged(CallsOf(s), imported) ELSE writtenOff
        /\ UNCHANGED <<lane, mission, grant, invocation, leaseGone, imported, cost>>

\* release_held_grants of the turns S.
Release(S) ==
    grant' = [c \in Calls |-> IF SubjectOf[c] \in S /\ grant[c].state \in Held
                              THEN [grant[c] EXCEPT !.state = "RELEASED"] ELSE grant[c]]

\* _resolve_provider_blocked_service, the first time: the grants are released
\* and the turn goes to a second executor.  (The await of an advisory cancel before
\* them is left out.)
Rehandoff(s, cut) ==
    /\ lane = "hierarchical" /\ mission = "open" /\ s \notin Attempts
    /\ intent[s] = [state |-> "SUBMITTED", executor |-> 0] /\ Blocked(s)
    /\ Release({s})
    /\ writtenOff' = writtenOff \cup Uncharged(HeldOf(s), imported)
    /\ intent' = IF cut THEN intent ELSE [intent EXCEPT ![s].executor = 1]
    /\ CutOff(cut)
    /\ UNCHANGED <<lane, mission, account, reservation, invocation, leaseGone, imported, cost>>

\* _give_up_blocked_plan_intent and _give_up_blocked_attempt, as far as the n-th of
\* their transactions: release, import, close, settle.
GiveUp(s, n) ==
    LET rows == ImportUsage({s})
    IN  /\ lane = "hierarchical" /\ mission = "open"
        /\ intent[s].state = "SUBMITTED" /\ Blocked(s)
        /\ Release({s})
        /\ writtenOff' = writtenOff \cup Uncharged(HeldOf(s), rows)
        /\ imported' = IF n >= 2 THEN rows ELSE imported
        /\ intent' = IF n >= 3 THEN [intent EXCEPT ![s].state = "CLOSED"] ELSE intent
        /\ SettleIf(n = 4, s, rows)
        /\ CutOff(n < 4)
        /\ UNCHANGED <<lane, mission, invocation, leaseGone, cost>>

Started == {s \in Subjects : intent[s].state \notin {"none", "never"}}

\* cancel_mission and fail_mission of a legacy Mission: _cascade_stop closes the
\* Attempts, and waits for the turns that run.
EndMission ==
    LET due == {s \in Started : intent[s].state = "VERIFYING" /\ ~HasUnknown(s, imported)}
    IN  /\ lane = "legacy" /\ mission = "open"
        /\ mission' = "ended"
        /\ Settle(due, imported)
        /\ writtenOff' = writtenOff \cup
               Uncharged({c \in Calls : SubjectOf[c] \in due
                                        /\ reservation[SubjectOf[c]].state = "RESERVED"}, imported)
        /\ intent' = [s \in Subjects |-> [intent[s] EXCEPT
               !.state = CASE @ \in {"SUBMITTED", "STOPPED"} -> "STOPPED"
                           [] @ = "VERIFYING" -> "CLOSED"
                           [] OTHER -> @]]
        /\ UNCHANGED <<lane, grant, invocation, leaseGone, calling, imported, cost>>

\* The same of a hierarchical one after _prepare_terminal_ledger, as far as the n-th
\* of these: import, release, settle what is known, close, end the Mission.
EndHierarchical(n) ==
    LET rows == ImportUsage(Subjects)
        paid == IF n >= 3 THEN {s \in Started : reservation[s].state = "RESERVED"} ELSE {}
    IN  /\ lane = "hierarchical" /\ mission = "open" /\ Started # {}
        /\ imported' = rows
        /\ IF n >= 2 THEN Release(Subjects) ELSE UNCHANGED grant
        /\ Settle(paid, rows)
        /\ writtenOff' = writtenOff \cup
               Uncharged({c \in Calls : \/ n >= 2 /\ grant[c].state \in Held
                                        \/ SubjectOf[c] \in paid}, rows)
        /\ intent' = [s \in Subjects |->
               IF n >= 4 /\ s \in Started THEN [intent[s] EXCEPT !.state = "CLOSED"] ELSE intent[s]]
        /\ mission' = IF n = 5 THEN "ended" ELSE mission
        /\ CutOff(n < 5)
        /\ UNCHANGED <<lane, invocation, leaseGone, cost>>

\* _import_hold of a closed intent with an open reservation: what the SDK now knows
\* of every call is imported, and settled when it is complete.
LateImport(s) ==
    LET sent == {c \in Executing(s) : invocation[c].state # "claimed"}
        told == {c \in sent : invocation[c].state = "ended" /\ invocation[c].usage # {}}
        rows == Import([c \in told |-> Known(c)])
    IN  /\ intent[s].state \in {"VERIFYING", "CLOSED"} /\ reservation[s].state = "RESERVED"
        /\ \A c \in CallsOf(s) : grant[c].state # "none" => c \in Executing(s)
        /\ imported' = rows
        /\ SettleIf(TurnOver(s) /\ told = sent /\ ~HasUnknown(s, rows), s, rows)
        /\ UNCHANGED <<lane, mission, intent, grant, invocation, leaseGone, calling, cost,
                       writtenOff>>

-----------------------------------------------------------------------------
CallStep(c) ==
    \/ Ask(c) \/ Acquire(c) \/ Handoff(c, FALSE) \/ Handoff(c, TRUE) \/ Refused(c)
    \/ Answer(c) \/ Observe(c)

WorldStep == ProcessDies \/ \E c \in Calls : Serve(c) \/ LeaseLapses(c) \/ SdkResolves(c)

TurnStep(s) ==
    \/ CreateIntent(s) \/ CollectResult(s) \/ Verdict(s) \/ LateImport(s)
    \/ \E closed, settled \in BOOLEAN : Collect(s, closed, settled)
    \/ \E done \in BOOLEAN :
           StallOut(s, done) \/ StopReadOnly(s, done) \/ Rehandoff(s, done)
    \/ \E n \in 1..4 : GiveUp(s, n)

BudgetNext ==
    \/ Recover \/ WorldStep \/ EndMission
    \/ \E n \in 1..5 : EndHierarchical(n)
    \/ \E c \in Calls : CallStep(c)
    \/ \E s \in Subjects : TurnStep(s)

BudgetSpec == BudgetInit /\ [][BudgetNext]_budgetVars

\* A call that was let in goes on and its transport returns; the lease of a process
\* that died lapses; the late accounting runs recover in every cycle.
BudgetFairness ==
    /\ WF_budgetVars(Recover)
    /\ \A c \in Calls :
           /\ WF_budgetVars(Acquire(c) \/ Handoff(c, FALSE) \/ Refused(c) \/ Answer(c) \/ Observe(c))
           /\ WF_budgetVars(calling[c] \in {"no", "asking"} /\ LeaseLapses(c))

FairBudgetSpec == BudgetSpec /\ BudgetFairness

-----------------------------------------------------------------------------
(* Properties.                                                             *)

LeastOf(m, n) == IF m < n THEN m ELSE n

\* "May overcount, never undercount" (provider_budget_guard.py, acquire): what the
\* Provider has charged for the turns of an account, each call up to its bound, is
\* reserved or settled on that account, whatever order calls, reports, crashes and
\* settlements come in.  Left out are the calls the code lets go of: those whose
\* grants a hierarchical Mission releases or settles as of unknown outcome, and
\* those a verdict or the stop of a read-only leaf settles without importing them.
NeverUndercounted ==
    \A a \in Accounts :
        SumFunctionOnSet([c \in Calls |-> LeastOf(cost[c], Upper)],
                         {c \in Calls \ writtenOff : a \in Chain[SubjectOf[c]]})
            <= account[a].reserved + account[a].settled

\* Type correctness of the accounts, the grants and the records of the calls.
BudgetTypeOK ==
    /\ lane \in Lanes /\ mission \in {"open", "ended"}
    /\ account \in [Accounts -> [reserved : Int, settled : Int]]
    /\ reservation \in [Subjects -> [state : {"none", "RESERVED", "SETTLED"}, tokens : Nat]]
    /\ intent \in [Subjects ->
          [state : {"never", "none", "SUBMITTED", "STOPPED", "VERIFYING", "CLOSED"},
           executor : {0, 1}]]
    /\ grant \in [Calls -> [state : {"none", "RELEASED", "SETTLED", "OVERRUN"} \cup Held,
                            actual : Nat, wire : BOOLEAN]]
    /\ invocation \in [Calls ->
          [state : {"claimed", "handed_off", "unknown", "ended", "not_started"},
           usage : SUBSET Nat]]
    /\ leaseGone \in [Calls -> BOOLEAN]
    /\ calling \in [Calls -> {"no", "asking", "admitted", "sent", "answered"}]
    /\ imported \in [Calls -> [row : {"none", "known", "unknown"}, tokens : Nat]]
    /\ cost \in [Calls -> Nat]
    /\ writtenOff \subseteq Calls

\* The Provider may have got the call, and a usable report of its usage is there.
Sent(c) == invocation[c].state \in {"handed_off", "unknown", "ended"}
Reported(c) == invocation[c].state = "ended" /\ invocation[c].usage \ {0} # {}

\* The records of a call agree: it costs nothing before it is sent, a report and an
\* imported row give its cost or nothing, and a call under way is sent only by its
\* handoff.
RecordsAgree ==
    \A c \in Calls :
        /\ ~Sent(c) => cost[c] = 0
        /\ invocation[c].usage \in Reports(c)
        /\ invocation[c].usage # {} => invocation[c].state = "ended"
        /\ IF imported[c].row = "known"
           THEN invocation[c] = [state |-> "ended", usage |-> {imported[c].tokens}]
           ELSE imported[c].tokens = 0
        /\ calling[c] \in {"asking", "admitted"} => invocation[c].state = "claimed"
        /\ calling[c] = "sent" => invocation[c].state = "handed_off"

\* A call that was sent and of which no cost was reported holds its grant, unless it
\* is written off, and while it may still be charged its reservation is open.  A grant
\* is settled with the reported cost.
UnreportedIsHeld ==
    \A c \in Calls :
        /\ Sent(c) => grant[c].state # "none"
        /\ Sent(c) /\ ~Reported(c) /\ c \notin writtenOff => grant[c].state \in Held
        /\ invocation[c].state \in {"handed_off", "unknown"} /\ c \notin writtenOff =>
              reservation[SubjectOf[c]].state = "RESERVED"
        /\ grant[c].state \in Held \cup {"none", "RELEASED"} => grant[c].actual = 0
        /\ grant[c].state \in {"SETTLED", "OVERRUN"} => Reported(c) /\ grant[c].actual = cost[c]

\* What acquire is about to add up is complete: while a call of the turn's executor
\* asks for its grant, no reported call of the turn is released, and the executor of
\* a turn is never an earlier one.
AskersSeeAll ==
    \A c \in Calls : calling[c] = "asking" =>
        LET s == SubjectOf[c]
        IN  /\ intent[s].state # "none" /\ ExecutorOf[c] <= intent[s].executor
            /\ mission = "open" /\ intent[s] = [state |-> "SUBMITTED", executor |-> ExecutorOf[c]] =>
                  \A d \in CallsOf(s) : grant[d].state = "RELEASED" /\ Reported(d) => d \in writtenOff

\* A turn that has not begun has nothing reserved, and its calls have no grants.
FreshTurns ==
    \A s \in Subjects :
        /\ intent[s].state = "none" => reservation[s].state = "none"
        /\ reservation[s].state = "none" =>
              reservation[s].tokens = 0 /\ \A c \in CallsOf(s) : grant[c].state = "none"

\* What a call may still come to, by its grant.
Claim(c) ==
    IF c \in writtenOff \/ grant[c].state = "none" THEN 0
    ELSE IF grant[c].state \in Held THEN Upper
    ELSE LeastOf(cost[c], Upper)

Claims == [c \in Calls |-> Claim(c)]

\* What the calls of a turn have cost, each up to its bound.
Charges == [c \in Calls |-> IF c \in writtenOff THEN 0 ELSE LeastOf(cost[c], Upper)]

\* An open reservation covers its calls.
ReservationsCover ==
    \A s \in Subjects : reservation[s].state = "RESERVED" =>
        SumFunctionOnSet(Claims, CallsOf(s)) <= reservation[s].tokens

\* What an account must have on its books for each turn.
Booked ==
    [s \in Subjects |-> IF reservation[s].state = "RESERVED" THEN reservation[s].tokens
                        ELSE SumFunctionOnSet(Charges, CallsOf(s))]

AccountsCover ==
    \A a \in Accounts :
        SumFunctionOnSet(Booked, {s \in Subjects : a \in Chain[s]})
            <= account[a].reserved + account[a].settled

\* The invariant of the budget.
BudgetInv ==
    /\ BudgetTypeOK
    /\ RecordsAgree
    /\ UnreportedIsHeld
    /\ AskersSeeAll
    /\ FreshTurns
    /\ ReservationsCover
    /\ AccountsCover

\* Whenever the calls hold every slot of the pool, one is given back, although the
\* process may die at any point and outcomes stay unknown (_mark_wire_terminal, and the
\* comments at its callers: a call of unknown outcome "must not hold the pool's slot
\* forever").
SlotComesBack == []<>SlotFree

\* "An uncertain request keeps both its allowance and slot until actual SDK
\* reconciliation, never a TTL guess" (provider_budget_guard.py:7-8): a call that was
\* handed off and whose outcome the SDK does not know has its slot.
UncertainKeepsSlot ==
    \A c \in Calls : invocation[c].state \in {"handed_off", "unknown"} => Occupies(c)

=============================================================================
