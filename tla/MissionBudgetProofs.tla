------------------------ MODULE MissionBudgetProofs ------------------------
(***************************************************************************)
(* Proof that the accounts of a Mission never undercount: BudgetInv is     *)
(* inductive and implies NeverUndercounted.  What a step may do is put     *)
(* into three frames, one for the grants, one for the records of the calls *)
(* and one for the books, and each action is shown to keep to them.        *)
(***************************************************************************)
EXTENDS MissionBudget, SumTheorems

ReservationRows == [state : {"none", "RESERVED", "SETTLED"}, tokens : Nat]
IntentRows == [state : {"never", "none", "SUBMITTED", "STOPPED", "VERIFYING", "CLOSED"},
               executor : {0, 1}]
GrantRows == [state : {"none", "RELEASED", "SETTLED", "OVERRUN"} \cup Held,
              actual : Nat, wire : BOOLEAN]
InvocationRows == [state : {"claimed", "handed_off", "unknown", "ended", "not_started"},
                   usage : SUBSET Nat]
ImportRows == [row : {"none", "known", "unknown"}, tokens : Nat]

-----------------------------------------------------------------------------
(* The operators.                                                          *)

LEMMA LeastFacts ==
    ASSUME NEW m \in Nat, NEW n \in Nat
    PROVE  /\ LeastOf(m, n) \in Nat /\ LeastOf(m, n) <= m /\ LeastOf(m, n) <= n
           /\ m = 0 => LeastOf(m, n) = 0
BY DEF LeastOf

\* The sums are sums of natural numbers.
AmountsOK ==
    /\ \A c \in Calls : /\ Claims[c] = Claim(c) /\ Claim(c) \in Nat
                        /\ Charges[c] \in Nat
    /\ \A s \in Subjects : IsFiniteSet(CallsOf(s)) /\ CallsOf(s) \subseteq Calls
    /\ \A s \in Subjects : Booked[s] \in Nat

LEMMA Amounts ==
    ASSUME BudgetTypeOK
    PROVE  AmountsOK
<1>1. \A c \in Calls : cost[c] \in Nat /\ grant[c].actual \in Nat /\ Upper \in Nat
  BY BudgetConstants DEF BudgetTypeOK
<1>2. \A c \in Calls : Claims[c] = Claim(c) /\ Claim(c) \in Nat /\ Charges[c] \in Nat
  BY <1>1, LeastFacts DEF Claims, Claim, Charges
<1>3. \A s \in Subjects : IsFiniteSet(CallsOf(s)) /\ CallsOf(s) \subseteq Calls
  <2>1. \A s \in Subjects : CallsOf(s) \subseteq Calls
    BY DEF CallsOf
  <2> QED BY <2>1, BudgetConstants, FS_Subset
<1>4. \A s \in Subjects : SumFunctionOnSet(Charges, CallsOf(s)) \in Nat
  BY <1>2, <1>3, SumRemove
<1>5. \A s \in Subjects : reservation[s].tokens \in Nat
  BY DEF BudgetTypeOK
<1> QED BY <1>2, <1>3, <1>4, <1>5 DEF Booked, AmountsOK

LEMMA AmountsThen == BudgetTypeOK' => AmountsOK'
<1>1. BudgetTypeOK => AmountsOK
  BY Amounts
<1> QED BY <1>1, PTL

\* A usable report gives the cost.
LEMMA ReportedCost ==
    ASSUME BudgetTypeOK, RecordsAgree, NEW c \in Calls
    PROVE  /\ Reported(c) => /\ invocation[c].usage = {cost[c]} /\ cost[c] # 0 /\ Sent(c)
                             /\ invocation[c].state = "ended"
           /\ ~Reported(c) => imported[c].tokens = 0
           /\ imported[c].tokens # 0 => Reported(c) /\ imported[c].tokens = cost[c]
           /\ cost[c] # 0 => Sent(c)
<1>1. /\ invocation[c].usage \in {{}, {0}} \cup {{n} : n \in {cost[c]} \ {0}}
      /\ invocation[c].usage # {} => invocation[c].state = "ended"
      /\ ~Sent(c) => cost[c] = 0
  BY DEF RecordsAgree, Reports
<1>2. ASSUME Reported(c)
      PROVE  invocation[c].usage = {cost[c]} /\ cost[c] # 0 /\ Sent(c) /\ invocation[c].state = "ended"
  BY <1>1, <1>2 DEF Reported, Sent
<1>3. ASSUME imported[c].tokens # 0 PROVE Reported(c) /\ imported[c].tokens = cost[c]
  <2>1. invocation[c] = [state |-> "ended", usage |-> {imported[c].tokens}]
    BY <1>3 DEF RecordsAgree
  <2>2. Reported(c)
    BY <1>3, <2>1 DEF Reported
  <2> QED BY <1>2, <2>1, <2>2
<1> QED BY <1>1, <1>2, <1>3

\* What a step may make of the grant of c, the calls of W being written off after it.
Becomes(c, h, W) ==
    LET g == grant[c]
    IN  \/ h.state = g.state /\ h.actual = g.actual
        \/ g.state \in Held /\ h.state \in Held /\ h.actual = 0
        \/ /\ g.state \in Held /\ h.state = "RELEASED" /\ h.actual = 0
           /\ ~Sent(c) \/ Reported(c) \/ c \in W
        \/ /\ g.state \in Held \cup {"RELEASED"} /\ h.state \in {"SETTLED", "OVERRUN"}
           /\ h.actual = cost[c] /\ Reported(c)

\* _observe_in_transaction.
LEMMA ObservedGrant ==
    ASSUME BudgetInv, NEW c \in Calls, NEW W
    PROVE  /\ Observed(c) \in GrantRows /\ Becomes(c, Observed(c), W)
           /\ Observed(c).state = "RELEASED" => grant[c].state = "RELEASED" /\ ~Reported(c)
           /\ grant[c].state \in Held => Observed(c).state \in Held \cup {"SETTLED", "OVERRUN"}
           /\ grant[c].state \in Held /\ Reported(c) => Observed(c).state \in {"SETTLED", "OVERRUN"}
<1>t. grant[c] \in GrantRows /\ BudgetTypeOK /\ RecordsAgree /\ cost[c] \in Nat /\ Upper \in Nat
  BY BudgetConstants DEF BudgetInv, BudgetTypeOK, GrantRows
<1>a. grant[c].state \in Held => grant[c].actual = 0
  BY DEF BudgetInv, UnreportedIsHeld
<1>1. CASE grant[c].state \in {"none", "SETTLED", "OVERRUN"}
  BY <1>1, <1>t DEF Observed, Becomes, Held
<1>2. CASE grant[c].state \in Held \cup {"RELEASED"} /\ Reported(c)
  <2>1. invocation[c].usage \ {0} = {cost[c]} /\ invocation[c].state = "ended"
    BY <1>2, <1>t, ReportedCost
  <2>2. (CHOOSE n \in {cost[c]} : TRUE) = cost[c]
    OBVIOUS
  <2>3. Observed(c) = [grant[c] EXCEPT !.state = IF cost[c] > Upper THEN "OVERRUN" ELSE "SETTLED",
                                       !.actual = cost[c]]
    BY <1>2, <2>1, <2>2 DEF Observed, Held
  <2>4. \A s \in {"OVERRUN", "SETTLED"} :
            LET h == [grant[c] EXCEPT !.state = s, !.actual = cost[c]]
            IN  h \in GrantRows /\ h.state = s /\ h.actual = cost[c]
    BY <1>t DEF GrantRows
  <2> QED BY <1>2, <2>3, <2>4 DEF Becomes
<1>3. CASE grant[c].state \in Held \cup {"RELEASED"} /\ ~Reported(c)
  <2>1. Observed(c) = [grant[c] EXCEPT !.wire = TRUE,
                           !.state = IF grant[c].state \in Held THEN "UNKNOWN" ELSE grant[c].state]
    BY <1>3 DEF Observed, Reported, Held
  <2>2. LET h == Observed(c)
        IN  /\ h \in GrantRows /\ h.actual = grant[c].actual
            /\ h.state = IF grant[c].state \in Held THEN "UNKNOWN" ELSE grant[c].state
    BY <1>t, <2>1 DEF GrantRows, Held
  <2> QED BY <1>3, <1>a, <2>2 DEF Becomes, Held
<1> QED BY <1>t, <1>1, <1>2, <1>3 DEF GrantRows

\* recover: a grant is released of a call that was not sent, or that is written off.
LEMMA RecoveredGrant ==
    ASSUME BudgetInv, NEW c \in Calls, NEW W,
           Rehanded(c) /\ grant[c].state \in Held /\ Recovered(c).state = "RELEASED"
               /\ invocation[c].state # "claimed" /\ imported[c].tokens = 0 => c \in W
    PROVE  /\ Recovered(c) \in GrantRows /\ Becomes(c, Recovered(c), W)
           /\ Recovered(c).state = "RELEASED" /\ Reported(c) => FALSE
<1>t. /\ grant[c] \in GrantRows /\ BudgetTypeOK /\ RecordsAgree
      /\ invocation[c].state \in {"claimed", "handed_off", "unknown", "ended", "not_started"}
  BY DEF BudgetInv, BudgetTypeOK, GrantRows
<1>a. grant[c].state \in Held => grant[c].actual = 0
  BY DEF BudgetInv, UnreportedIsHeld
<1>o. /\ Observed(c) \in GrantRows /\ Becomes(c, Observed(c), W)
      /\ Observed(c).state = "RELEASED" => grant[c].state = "RELEASED" /\ ~Reported(c)
      /\ grant[c].state \in Held => Observed(c).state \in Held \cup {"SETTLED", "OVERRUN"}
      /\ grant[c].state \in Held /\ Reported(c) => Observed(c).state \in {"SETTLED", "OVERRUN"}
  BY ObservedGrant
<1>e. \A r \in GrantRows : /\ [r EXCEPT !.state = "RELEASED"] \in GrantRows
                           /\ [r EXCEPT !.state = "RELEASED"].state = "RELEASED"
                           /\ [r EXCEPT !.state = "RELEASED"].actual = r.actual
  BY DEF GrantRows
<1> DEFINE Released(r) == IF r.state \in Held THEN [r EXCEPT !.state = "RELEASED"] ELSE r
<1>r. ~Reported(c) => imported[c].tokens = 0
  BY <1>t, ReportedCost
<1>1. CASE grant[c].state \notin Held \cup {"RELEASED"}
  <2>1. Recovered(c) = grant[c]
    BY <1>1 DEF Recovered
  <2> QED BY <1>1, <1>t, <2>1 DEF Becomes
<1>2. CASE grant[c].state \in Held \cup {"RELEASED"} /\ Rehanded(c)
  <2>1. CASE invocation[c].state = "ended"
    <3>1. Recovered(c) = Released(Observed(c))
      BY <1>2, <2>1 DEF Recovered
    <3>2. CASE Observed(c).state \notin Held
      BY <1>o, <3>1, <3>2
    <3>3. CASE Observed(c).state \in Held
      <4>1. grant[c].state \in Held /\ ~Reported(c) /\ Observed(c).actual = 0
        BY <1>2, <1>o, <1>a, <3>3 DEF Becomes, Held
      <4>2. /\ Recovered(c) \in GrantRows /\ Recovered(c).state = "RELEASED"
            /\ Recovered(c).actual = 0
        BY <1>o, <1>e, <3>1, <3>3, <4>1
      <4>3. c \in W
        BY <1>2, <1>r, <2>1, <4>1, <4>2
      <4> QED BY <4>1, <4>2, <4>3 DEF Becomes
    <3> QED BY <3>2, <3>3
  <2>2. CASE invocation[c].state # "ended"
    <3>0. ~Reported(c)
      BY <2>2 DEF Reported
    <3>1. Recovered(c) = Released(grant[c])
      BY <1>2, <2>2 DEF Recovered
    <3>2. CASE grant[c].state = "RELEASED"
      BY <1>t, <3>0, <3>1, <3>2 DEF Becomes, Held
    <3>3. CASE grant[c].state \in Held
      <4>1. /\ Recovered(c) \in GrantRows /\ Recovered(c).state = "RELEASED"
            /\ Recovered(c).actual = 0
        BY <1>t, <1>a, <1>e, <3>1, <3>3
      <4>2. ~Sent(c) \/ c \in W
        BY <1>2, <1>r, <3>0, <3>3, <4>1 DEF Sent
      <4> QED BY <3>0, <3>3, <4>1, <4>2 DEF Becomes
    <3> QED BY <1>2, <3>2, <3>3
  <2> QED BY <2>1, <2>2
<1>3. CASE grant[c].state \in Held \cup {"RELEASED"} /\ ~Rehanded(c) /\ invocation[c].state = "ended"
  <2>1. Recovered(c) = Observed(c)
    BY <1>3 DEF Recovered
  <2> QED BY <1>o, <2>1
<1>4. CASE /\ grant[c].state \in Held \cup {"RELEASED"} /\ ~Rehanded(c)
           /\ invocation[c].state \in {"handed_off", "unknown"}
  <2> DEFINE w == grant[c].wire \/ EndedOnWire(c)
             z == IF grant[c].state \in Held THEN "UNKNOWN" ELSE grant[c].state
  <2>1. Recovered(c) = [grant[c] EXCEPT !.state = z, !.wire = w]
    BY <1>4 DEF Recovered
  <2>2. w \in BOOLEAN /\ z \in {"UNKNOWN", "RELEASED"}
    BY <1>4 DEF EndedOnWire
  <2>3. \A x \in BOOLEAN, y \in {"UNKNOWN", "RELEASED"} :
            LET h == [grant[c] EXCEPT !.state = y, !.wire = x]
            IN  h \in GrantRows /\ h.state = y /\ h.actual = grant[c].actual
    BY <1>t DEF GrantRows, Held
  <2> HIDE DEF w
  <2>4. Recovered(c) \in GrantRows /\ Recovered(c).state = z /\ Recovered(c).actual = grant[c].actual
    BY <2>1, <2>2, <2>3
  <2>5. ~Reported(c)
    BY <1>4 DEF Reported
  <2> QED BY <1>4, <1>a, <2>4, <2>5 DEF Becomes, Held
<1>5. CASE /\ grant[c].state \in Held \cup {"RELEASED"} /\ ~Rehanded(c)
           /\ invocation[c].state \in {"claimed", "not_started"}
  <2>0. ~Reported(c) /\ ~Sent(c)
    BY <1>5 DEF Reported, Sent
  <2>1. Recovered(c) = grant[c] \/ Recovered(c) = Released(grant[c])
    BY <1>5 DEF Recovered
  <2>2. CASE grant[c].state \in Held /\ Recovered(c) = Released(grant[c])
    <3>1. Recovered(c) \in GrantRows /\ Recovered(c).state = "RELEASED" /\ Recovered(c).actual = 0
      BY <1>t, <1>a, <1>e, <2>2
    <3> QED BY <2>0, <2>2, <3>1 DEF Becomes
  <2>3. CASE Recovered(c) = grant[c]
    BY <1>t, <2>0, <2>3 DEF Becomes
  <2> QED BY <1>5, <2>1, <2>2, <2>3
<1> QED BY <1>t, <1>1, <1>2, <1>3, <1>4, <1>5

-----------------------------------------------------------------------------
(* The books.                                                              *)

\* Turns are settled with what is charged for their calls at least; no other charge
\* and no claim grows.
LEMMA SettlementCovers ==
    ASSUME BudgetInv, BudgetTypeOK', NEW S \in SUBSET Subjects, NEW rows \in [Calls -> ImportRows],
           Settle(S, rows) \/ (S = {} /\ UNCHANGED <<account, reservation>>),
           \A c \in Calls : Claim(c)' <= Claim(c),
           \A c \in Calls : reservation[SubjectOf[c]].state # "RESERVED" => Charges'[c] <= Charges[c],
           \A s \in S : reservation[s].state = "RESERVED" =>
               \A c \in CallsOf(s) : Charges'[c] <= rows[c].tokens
    PROVE  ReservationsCover' /\ AccountsCover'
<1> DEFINE open == {s \in S : reservation[s].state = "RESERVED"}
           tokens == [s \in Subjects |-> reservation[s].tokens]
           usage == [s \in Subjects |-> UsageFor(s, rows)]
<1>t. BudgetTypeOK /\ ReservationsCover /\ AccountsCover
  BY DEF BudgetInv
<1>n. /\ \A c \in Calls : /\ Claims[c] \in Nat /\ Claims'[c] \in Nat /\ Claims'[c] <= Claims[c]
                          /\ Charges[c] \in Nat /\ Charges'[c] \in Nat
      /\ \A s \in Subjects : IsFiniteSet(CallsOf(s)) /\ CallsOf(s) \subseteq Calls
      /\ \A s \in Subjects : Booked[s] \in Nat /\ Booked'[s] \in Nat /\ reservation[s].tokens \in Nat
  <2>1. AmountsOK /\ AmountsOK'
    BY <1>t, Amounts, AmountsThen
  <2>3. \A s \in Subjects : reservation[s].tokens \in Nat
    BY <1>t DEF BudgetTypeOK
  <2> QED BY <2>1, <2>3 DEF AmountsOK, CallsOf
<1>o. open \in SUBSET Subjects
  OBVIOUS
<1>1. \A s \in Subjects : /\ reservation'[s].state = IF s \in open THEN "SETTLED" ELSE reservation[s].state
                          /\ reservation'[s].tokens = reservation[s].tokens
  BY <1>t DEF Settle, BudgetTypeOK
<1>2. ReservationsCover'
  <2>1. ASSUME NEW s \in Subjects, reservation'[s].state = "RESERVED"
        PROVE  SumFunctionOnSet(Claims', CallsOf(s)) <= reservation'[s].tokens
    <3>1. SumFunctionOnSet(Claims, CallsOf(s)) <= reservation[s].tokens
      BY <1>t, <1>1, <2>1 DEF ReservationsCover
    <3>2. SumFunctionOnSet(Claims', CallsOf(s)) <= SumFunctionOnSet(Claims, CallsOf(s))
      BY <1>n, SumMonotonic
    <3>3. /\ SumFunctionOnSet(Claims', CallsOf(s)) \in Nat
          /\ SumFunctionOnSet(Claims, CallsOf(s)) \in Nat
      BY <1>n, SumRemove
    <3> QED BY <1>n, <1>1, <3>1, <3>2, <3>3
  <2> QED BY <2>1 DEF ReservationsCover, CallsOf
<1>3. ASSUME NEW s \in Subjects
      PROVE  /\ usage[s] \in Nat
             /\ s \in open => Booked[s] = tokens[s] /\ Booked'[s] <= usage[s]
             /\ s \notin open => Booked'[s] <= Booked[s]
  <2>1. /\ \A c \in CallsOf(s) : [c2 \in Calls |-> rows[c2].tokens][c] = rows[c].tokens
        /\ \A c \in Calls : rows[c].tokens \in Nat
    BY <1>n DEF ImportRows
  <2>2. usage[s] = SumFunctionOnSet([c \in Calls |-> rows[c].tokens], CallsOf(s))
    BY DEF UsageFor
  <2>3. usage[s] \in Nat
    BY <1>n, <2>1, <2>2, SumRemove
  <2>4. ASSUME s \in open PROVE Booked[s] = tokens[s] /\ Booked'[s] <= usage[s]
    <3>1. Booked'[s] = SumFunctionOnSet(Charges', CallsOf(s))
      BY <1>1, <2>4 DEF Booked, CallsOf
    <3>2. \A c \in CallsOf(s) : Charges'[c] <= rows[c].tokens
      BY <2>4
    <3>3. SumFunctionOnSet(Charges', CallsOf(s))
              <= SumFunctionOnSet([c \in Calls |-> rows[c].tokens], CallsOf(s))
      BY <1>n, <2>1, <3>2, SumMonotonic
    <3> QED BY <2>2, <2>4, <3>1, <3>3 DEF Booked
  <2>5. ASSUME s \notin open PROVE Booked'[s] <= Booked[s]
    <3>1. CASE reservation[s].state = "RESERVED"
      BY <1>n, <1>1, <2>5, <3>1 DEF Booked
    <3>2. CASE reservation[s].state # "RESERVED"
      <4>1. \A c \in CallsOf(s) : Charges'[c] <= Charges[c]
        BY <3>2 DEF CallsOf
      <4>2. SumFunctionOnSet(Charges', CallsOf(s)) <= SumFunctionOnSet(Charges, CallsOf(s))
        BY <1>n, <4>1, SumMonotonic
      <4> QED BY <1>1, <2>5, <3>2, <4>2 DEF Booked, CallsOf
    <3> QED BY <3>1, <3>2
  <2> QED BY <2>3, <2>4, <2>5
<1>4. ASSUME NEW a \in Accounts
      PROVE  SumFunctionOnSet(Booked', {s \in Subjects : a \in Chain[s]})
                 <= account'[a].reserved + account'[a].settled
  <2> DEFINE D == {s \in Subjects : a \in Chain[s]}
             T == {s \in open : a \in Chain[s]}
  <2>1. T \in SUBSET D /\ D \in SUBSET Subjects /\ D \ T \in SUBSET D
    BY <1>o
  <2>2. IsFiniteSet(D) /\ IsFiniteSet(T) /\ IsFiniteSet(D \ T)
    BY <2>1, BudgetConstants, FS_Subset
  <2>3. account[a].reserved \in Int /\ account[a].settled \in Int
    BY <1>t DEF BudgetTypeOK
  <2>4. SumFunctionOnSet(Booked, D) <= account[a].reserved + account[a].settled
    BY <1>t DEF AccountsCover
  <2>5. /\ account'[a].reserved = account[a].reserved - SumFunctionOnSet(tokens, T)
        /\ account'[a].settled = account[a].settled + SumFunctionOnSet(usage, T)
    <3>1. CASE Settle(S, rows)
      BY <3>1 DEF Settle
    <3>2. CASE S = {} /\ UNCHANGED <<account, reservation>>
      <4>1. T = {}
        BY <3>2
      <4> QED BY <2>3, <3>2, <4>1, SumEmpty
    <3> QED BY <3>1, <3>2
  <2>6. (\A s \in T : s \in open /\ s \in Subjects) /\ (\A s \in D \ T : s \notin open /\ s \in Subjects)
    BY <1>o
  <2>n. \A s \in D : Booked[s] \in Nat /\ Booked'[s] \in Nat
    BY <1>n
  <2> HIDE DEF D, T, open, usage, tokens
  <2>7. SumFunctionOnSet(Booked, T) = SumFunctionOnSet(tokens, T)
    <3>1. \A s \in T : Booked[s] \in Nat /\ tokens[s] = Booked[s]
      BY <1>n, <1>3, <2>6
    <3> QED BY <2>2, <3>1, SumSame
  <2>8. SumFunctionOnSet(Booked', T) <= SumFunctionOnSet(usage, T)
    <3>1. \A s \in T : Booked'[s] \in Nat /\ usage[s] \in Nat /\ Booked'[s] <= usage[s]
      BY <1>n, <1>3, <2>6
    <3> QED BY <2>2, <3>1, SumMonotonic
  <2>9. SumFunctionOnSet(Booked', D \ T) <= SumFunctionOnSet(Booked, D \ T)
    <3>1. \A s \in D \ T : Booked'[s] \in Nat /\ Booked[s] \in Nat /\ Booked'[s] <= Booked[s]
      BY <1>n, <1>3, <2>6
    <3> QED BY <2>2, <3>1, SumMonotonic
  <2>10. /\ SumFunctionOnSet(Booked, D) = SumFunctionOnSet(Booked, T) + SumFunctionOnSet(Booked, D \ T)
         /\ SumFunctionOnSet(Booked, T) \in Nat /\ SumFunctionOnSet(Booked, D \ T) \in Nat
    BY <2>1, <2>2, <2>n, SumSplit
  <2>11. /\ SumFunctionOnSet(Booked', D) = SumFunctionOnSet(Booked', T) + SumFunctionOnSet(Booked', D \ T)
         /\ SumFunctionOnSet(Booked', T) \in Nat /\ SumFunctionOnSet(Booked', D \ T) \in Nat
    BY <2>1, <2>2, <2>n, SumSplit
  <2>12. SumFunctionOnSet(usage, T) \in Nat
    <3>1. \A s \in T : usage[s] \in Nat
      BY <1>3, <2>6
    <3> QED BY <2>2, <3>1, SumRemove
  <2>13. SumFunctionOnSet(Booked', D) <= account'[a].reserved + account'[a].settled
    BY <2>3, <2>4, <2>5, <2>7, <2>8, <2>9, <2>10, <2>11, <2>12
  <2> QED BY <2>13 DEF D
<1> QED BY <1>2, <1>4 DEF AccountsCover

\* More is reserved for the turn s, and the claims of its calls fit.
LEMMA ReserveCovers ==
    ASSUME BudgetInv, BudgetTypeOK', NEW s \in Subjects, NEW n \in Nat, Reserve(s, n),
           reservation[s].state \in {"none", "RESERVED"}, UNCHANGED <<cost, writtenOff>>,
           SumFunctionOnSet(Claims', CallsOf(s)) <= reservation[s].tokens + n,
           \A c \in Calls : SubjectOf[c] # s => grant'[c] = grant[c]
    PROVE  ReservationsCover' /\ AccountsCover'
<1>t. BudgetTypeOK /\ ReservationsCover /\ AccountsCover /\ FreshTurns
  BY DEF BudgetInv
<1>n. AmountsOK /\ AmountsOK'
  BY <1>t, Amounts, AmountsThen
<1>1. /\ \A r \in Subjects : r # s => reservation'[r] = reservation[r]
      /\ reservation'[s].tokens = reservation[s].tokens + n /\ reservation'[s].state = "RESERVED"
      /\ reservation[s].tokens \in Nat
  BY <1>t DEF Reserve, BudgetTypeOK
<1>2. Charges' = Charges
  BY DEF Charges, LeastOf
<1>3. ReservationsCover'
  <2>1. ASSUME NEW r \in Subjects, r # s, reservation'[r].state = "RESERVED"
        PROVE  SumFunctionOnSet(Claims', CallsOf(r)) <= reservation'[r].tokens
    <3>1. \A c \in CallsOf(r) : Claims'[c] = Claims[c]
      BY <1>n, <2>1 DEF CallsOf, AmountsOK, Claim
    <3>2. SumFunctionOnSet(Claims, CallsOf(r)) = SumFunctionOnSet(Claims', CallsOf(r))
      <4>1. IsFiniteSet(CallsOf(r)) /\ \A c \in CallsOf(r) : Claims[c] \in Nat
        BY <1>n DEF AmountsOK
      <4> QED BY <3>1, <4>1, SumSame
    <3> QED BY <1>t, <1>1, <2>1, <3>2 DEF ReservationsCover
  <2> QED BY <1>1, <2>1 DEF ReservationsCover, CallsOf
<1>4. /\ \A r \in Subjects : r # s => Booked'[r] = Booked[r]
      /\ Booked'[s] <= Booked[s] + n
  <2>1. \A r \in Subjects : r # s => Booked'[r] = Booked[r]
    BY <1>1, <1>2 DEF Booked, CallsOf
  <2>2. Booked'[s] = reservation[s].tokens + n
    BY <1>1 DEF Booked
  <2>3. reservation[s].tokens <= Booked[s]
    <3>1. CASE reservation[s].state = "RESERVED"
      BY <1>1, <3>1 DEF Booked
    <3>2. CASE reservation[s].state = "none"
      BY <1>t, <1>n, <3>2 DEF FreshTurns, AmountsOK
    <3> QED BY <3>1, <3>2
  <2> QED BY <1>n, <1>1, <2>1, <2>2, <2>3 DEF AmountsOK
<1>5. ASSUME NEW a \in Accounts
      PROVE  SumFunctionOnSet(Booked', {r \in Subjects : a \in Chain[r]})
                 <= account'[a].reserved + account'[a].settled
  <2> DEFINE D == {r \in Subjects : a \in Chain[r]}
  <2>1. IsFiniteSet(D)
    BY BudgetConstants, FS_Subset
  <2>2. /\ account[a].reserved \in Int /\ account[a].settled \in Int
        /\ account'[a].settled = account[a].settled
        /\ account'[a].reserved = IF a \in Chain[s] THEN account[a].reserved + n ELSE account[a].reserved
    BY <1>t DEF Reserve, BudgetTypeOK
  <2>3. SumFunctionOnSet(Booked, D) <= account[a].reserved + account[a].settled
    BY <1>t DEF AccountsCover
  <2>4. /\ \A r \in D : Booked[r] \in Nat /\ Booked'[r] \in Nat
        /\ \A r \in D : r # s => Booked'[r] = Booked[r]
        /\ s \in D <=> a \in Chain[s]
    BY <1>n, <1>4 DEF AmountsOK
  <2> HIDE DEF D
  <2>5. SumFunctionOnSet(Booked, D) \in Nat /\ SumFunctionOnSet(Booked', D) \in Nat
    BY <2>1, <2>4, SumRemove
  <2>6. CASE s \in D
    <3>1. SumFunctionOnSet(Booked', D) + Booked[s] = SumFunctionOnSet(Booked, D) + Booked'[s]
      BY <2>1, <2>4, <2>6, SumUpdate
    <3>2. SumFunctionOnSet(Booked', D) <= account'[a].reserved + account'[a].settled
      BY <1>4, <2>2, <2>3, <2>4, <2>5, <2>6, <3>1
    <3> QED BY <3>2 DEF D
  <2>7. CASE s \notin D
    <3>1. \A r \in D : Booked[r] \in Nat /\ Booked'[r] = Booked[r]
      BY <2>4, <2>7
    <3>2. SumFunctionOnSet(Booked, D) = SumFunctionOnSet(Booked', D)
      BY <2>1, <3>1, SumSame
    <3>3. SumFunctionOnSet(Booked', D) <= account'[a].reserved + account'[a].settled
      BY <2>2, <2>3, <2>4, <2>7, <3>2
    <3> QED BY <3>3 DEF D
  <2> QED BY <2>6, <2>7
<1> QED BY <1>3, <1>5 DEF AccountsCover

-----------------------------------------------------------------------------
(* What most steps keep to.                                                *)

\* The rest of a call's history: its grant takes an allowed step, its record at the SDK
\* and its cost stay, and what was written off stays written off.
GrantFrame ==
    /\ UNCHANGED <<invocation, cost>>
    /\ writtenOff \subseteq writtenOff'
    /\ \A c \in Calls : Becomes(c, grant'[c], writtenOff')

\* What an import may write for c.
Fact(c, r) ==
    \/ r = [row |-> "unknown", tokens |-> 0]
    \/ invocation[c].state = "ended" /\ invocation[c].usage # {} /\ r = Known(c)

ImportedAs(c, r) == r = imported[c] \/ (imported[c].row # "known" /\ Fact(c, r))

\* Imports only add what is known, and no call gets further.
RecordFrame ==
    /\ \A c \in Calls : ImportedAs(c, imported'[c])
    /\ \A c \in Calls : calling'[c] \in {calling[c], "no"}

\* A turn ends or goes to its second executor, and a reported call is released only
\* together with that, or when nobody is left that asks.
AskFrame ==
    /\ mission' \in {mission, "ended"}
    /\ \A s \in Subjects :
          \/ intent'[s] = intent[s]
          \/ /\ intent'[s].state \notin {"none", "SUBMITTED"}
             /\ intent'[s].executor = intent[s].executor
          \/ /\ intent[s].executor = 0 /\ intent'[s].executor = 1
             /\ intent'[s].state = intent[s].state
    /\ \A c \in Calls : grant'[c].state = "RELEASED" /\ Reported(c) =>
          \/ grant[c].state = "RELEASED" \/ c \in writtenOff'
          \/ \A d \in Calls : calling'[d] = "no"
          \/ mission' = "ended"
          \/ intent'[SubjectOf[c]].state # "SUBMITTED"
          \/ intent'[SubjectOf[c]].executor # intent[SubjectOf[c]].executor

\* The rows have what c has cost, and it will cost no more.
Paid(c, rows) ==
    /\ invocation[c].state \notin {"handed_off", "unknown"}
    /\ cost[c] = 0 \/ rows[c].tokens = cost[c]

LEMMA ClaimsFall ==
    ASSUME BudgetInv, BudgetTypeOK', GrantFrame
    PROVE  \A c \in Calls : Claim(c)' <= Claim(c) /\ Charges'[c] <= Charges[c]
<1>t. BudgetTypeOK /\ RecordsAgree
  BY DEF BudgetInv
<1>n. AmountsOK /\ AmountsOK'
  BY <1>t, Amounts, AmountsThen
<1>1. ASSUME NEW c \in Calls PROVE Claim(c)' <= Claim(c) /\ Charges'[c] <= Charges[c]
  <2>1. /\ cost[c] \in Nat /\ Upper \in Nat /\ grant[c].actual \in Nat /\ grant'[c].actual \in Nat
        /\ grant[c].state \in {"none", "RELEASED", "SETTLED", "OVERRUN"} \cup Held
        /\ grant'[c].state \in {"none", "RELEASED", "SETTLED", "OVERRUN"} \cup Held
    BY <1>t, BudgetConstants DEF BudgetTypeOK
  <2>2. cost' = cost /\ (c \in writtenOff => c \in writtenOff') /\ Becomes(c, grant'[c], writtenOff')
    BY DEF GrantFrame
  <2>3. Charges'[c] <= Charges[c]
    <3>1. Charges[c] \in Nat /\ Charges'[c] \in Nat
      BY <1>n DEF AmountsOK
    <3> QED BY <2>2, <3>1 DEF Charges, LeastOf
  <2>4. Claim(c) \in Nat /\ Claim(c)' \in Nat
    BY <1>n DEF AmountsOK
  <2>5. CASE c \in writtenOff'
    <3>1. Claim(c)' = 0
      BY <2>5 DEF Claim
    <3> QED BY <2>3, <2>4, <3>1
  <2>6. CASE c \notin writtenOff' /\ grant'[c].state = grant[c].state
    <3>1. Claim(c)' = Claim(c)
      BY <2>2, <2>6 DEF Claim, LeastOf
    <3> QED BY <2>3, <2>4, <3>1
  <2>7. CASE c \notin writtenOff' /\ grant[c].state \in Held
    <3>1. Claim(c) = Upper
      BY <2>2, <2>7 DEF Claim, Held
    <3>2. Claim(c)' <= Upper
      BY <2>1, <2>2, LeastFacts DEF Claim, LeastOf
    <3> QED BY <2>3, <3>1, <3>2
  <2>8. CASE /\ c \notin writtenOff' /\ grant[c].state = "RELEASED"
             /\ grant'[c].state \in {"SETTLED", "OVERRUN"}
    <3>1. Claim(c) = LeastOf(cost[c], Upper)
      BY <2>2, <2>8 DEF Claim, Held
    <3>2. Claim(c)' = LeastOf(cost[c], Upper)
      BY <2>2, <2>8 DEF Claim, Held, LeastOf
    <3> QED BY <2>3, <2>4, <3>1, <3>2
  <2> QED BY <2>2, <2>3, <2>5, <2>6, <2>7, <2>8 DEF Becomes
<1> QED BY <1>1

LEMMA RecordsKept ==
    ASSUME BudgetInv, BudgetTypeOK', UNCHANGED <<invocation, cost>>, RecordFrame
    PROVE  RecordsAgree'
<1>t. BudgetTypeOK /\ RecordsAgree
  BY DEF BudgetInv
<1>1. ASSUME NEW c \in Calls
      PROVE  IF imported'[c].row = "known"
             THEN invocation[c] = [state |-> "ended", usage |-> {imported'[c].tokens}]
             ELSE imported'[c].tokens = 0
  <2>0. invocation[c] \in InvocationRows
    BY <1>t DEF BudgetTypeOK, InvocationRows
  <2>1. CASE imported'[c] = imported[c]
    BY <1>t, <2>1 DEF RecordsAgree
  <2>2. CASE imported'[c] = [row |-> "unknown", tokens |-> 0]
    BY <2>2
  <2>3. CASE invocation[c].state = "ended" /\ invocation[c].usage # {} /\ imported'[c] = Known(c)
    <3>1. invocation[c].usage \in {{}, {0}} \cup {{n} : n \in {cost[c]} \ {0}}
      BY <1>t DEF RecordsAgree, Reports
    <3>2. PICK n : invocation[c].usage = {n}
      BY <2>3, <3>1
    <3>3. imported'[c].tokens = n /\ imported'[c].row = "known"
      BY <2>3, <3>2 DEF Known
    <3> QED BY <2>0, <2>3, <3>2, <3>3 DEF InvocationRows
  <2> QED BY <2>1, <2>2, <2>3 DEF RecordFrame, ImportedAs, Fact
<1>2. \A c \in Calls : (calling'[c] # "no" => calling'[c] = calling[c]) /\ (Sent(c)' <=> Sent(c))
                       /\ Reports(c)' = Reports(c)
  BY DEF RecordFrame, Sent, Reports
<1> QED BY <1>t, <1>1, <1>2 DEF RecordsAgree

LEMMA AskersKept ==
    ASSUME BudgetInv, BudgetTypeOK', GrantFrame, RecordFrame, AskFrame
    PROVE  AskersSeeAll'
<1>t. BudgetTypeOK /\ AskersSeeAll
  BY DEF BudgetInv
<1>1. ASSUME NEW c \in Calls, calling'[c] = "asking"
      PROVE  LET s == SubjectOf[c]
             IN  /\ intent'[s].state # "none" /\ ExecutorOf[c] <= intent'[s].executor
                 /\ mission' = "open" /\ intent'[s] = [state |-> "SUBMITTED", executor |-> ExecutorOf[c]] =>
                       \A d \in CallsOf(s) : grant'[d].state = "RELEASED" /\ Reported(d) => d \in writtenOff'
  <2> DEFINE s == SubjectOf[c]
  <2>1. s \in Subjects /\ ExecutorOf[c] \in {0, 1} /\ calling[c] = "asking"
    BY <1>1, BudgetConstants DEF RecordFrame
  <2>2. /\ intent[s].state # "none" /\ ExecutorOf[c] <= intent[s].executor
        /\ mission = "open" /\ intent[s] = [state |-> "SUBMITTED", executor |-> ExecutorOf[c]] =>
              \A d \in CallsOf(s) : grant[d].state = "RELEASED" /\ Reported(d) => d \in writtenOff
    BY <1>t, <2>1 DEF AskersSeeAll
  <2> HIDE DEF s
  <2>3. /\ intent[s].executor \in {0, 1} /\ intent'[s].executor \in {0, 1}
        /\ intent[s] \in IntentRows
    BY <1>t, <2>1 DEF BudgetTypeOK, IntentRows
  <2>4. \/ intent'[s] = intent[s]
        \/ /\ intent'[s].state \notin {"none", "SUBMITTED"}
           /\ intent'[s].executor = intent[s].executor
        \/ /\ intent[s].executor = 0 /\ intent'[s].executor = 1
           /\ intent'[s].state = intent[s].state
    BY <2>1 DEF AskFrame
  <2>5. intent'[s].state # "none" /\ ExecutorOf[c] <= intent'[s].executor
    BY <2>1, <2>2, <2>3, <2>4
  <2>6. ASSUME mission' = "open", intent'[s] = [state |-> "SUBMITTED", executor |-> ExecutorOf[c]],
               NEW d \in CallsOf(s), grant'[d].state = "RELEASED", Reported(d)
        PROVE  d \in writtenOff'
    <3>1. intent'[s] = intent[s]
      BY <2>1, <2>2, <2>3, <2>4, <2>6
    <3>2. mission = "open" /\ d \in Calls /\ SubjectOf[d] = s
      BY <2>6 DEF AskFrame, CallsOf
    <3>3. grant[d].state = "RELEASED" \/ d \in writtenOff'
      BY <1>1, <2>6, <3>1, <3>2 DEF AskFrame
    <3> QED BY <2>2, <2>6, <3>1, <3>2, <3>3 DEF GrantFrame
  <2> QED BY <2>5, <2>6 DEF s
<1>2. \A d \in Calls : Reported(d)' <=> Reported(d)
  BY DEF Reported, GrantFrame
<1> QED BY <1>1, <1>2 DEF AskersSeeAll, CallsOf

\* A step that keeps to the frames and settles turns whose calls are paid, or none.
LEMMA BooksKept ==
    ASSUME BudgetInv, BudgetTypeOK', GrantFrame, AskFrame,
           NEW S \in SUBSET Subjects, NEW rows \in [Calls -> ImportRows],
           Settle(S, rows) \/ (S = {} /\ UNCHANGED <<account, reservation>>),
           \A s \in S : reservation[s].state = "RESERVED" =>
               \A c \in CallsOf(s) : c \in writtenOff' \/ Paid(c, rows)
    PROVE  UnreportedIsHeld' /\ FreshTurns' /\ ReservationsCover' /\ AccountsCover'
<1>t. BudgetTypeOK /\ RecordsAgree /\ UnreportedIsHeld /\ FreshTurns
  BY DEF BudgetInv
<1>f. UNCHANGED <<invocation, cost>> /\ writtenOff \subseteq writtenOff'
  BY DEF GrantFrame
<1>n. AmountsOK'
  BY AmountsThen
<1>2. \A s \in Subjects : /\ reservation'[s].state = IF s \in S /\ reservation[s].state = "RESERVED"
                                                     THEN "SETTLED" ELSE reservation[s].state
                          /\ reservation'[s].tokens = reservation[s].tokens
  BY <1>t DEF Settle, BudgetTypeOK
<1>3. ReservationsCover' /\ AccountsCover'
  <2>1. \A c \in Calls : Claim(c)' <= Claim(c) /\ Charges'[c] <= Charges[c]
    BY ClaimsFall
  <2>2. ASSUME NEW s \in S, reservation[s].state = "RESERVED", NEW c \in CallsOf(s)
        PROVE  Charges'[c] <= rows[c].tokens
    <3>1. c \in Calls /\ rows[c].tokens \in Nat /\ cost[c] \in Nat /\ Upper \in Nat
      BY <1>t, BudgetConstants DEF CallsOf, ImportRows, BudgetTypeOK
    <3>2. Charges'[c] = IF c \in writtenOff' THEN 0 ELSE LeastOf(cost[c], Upper)
      BY <1>f, <3>1 DEF Charges, LeastOf
    <3>3. c \in writtenOff' \/ cost[c] = 0 \/ rows[c].tokens = cost[c]
      BY <2>2 DEF Paid
    <3>4. /\ LeastOf(cost[c], Upper) \in Nat /\ LeastOf(cost[c], Upper) <= cost[c]
          /\ cost[c] = 0 => LeastOf(cost[c], Upper) = 0
      BY <3>1, LeastFacts
    <3>5. CASE c \in writtenOff'
      BY <3>1, <3>2, <3>5
    <3>6. CASE c \notin writtenOff'
      BY <3>1, <3>2, <3>3, <3>4, <3>6
    <3> QED BY <3>5, <3>6
  <2> QED BY <2>1, <2>2, SettlementCovers
<1>4. UnreportedIsHeld'
  <2>1. ASSUME NEW c \in Calls
        PROVE  /\ Sent(c) => grant'[c].state # "none"
               /\ Sent(c) /\ ~Reported(c) /\ c \notin writtenOff' => grant'[c].state \in Held
               /\ invocation[c].state \in {"handed_off", "unknown"} /\ c \notin writtenOff' =>
                     reservation'[SubjectOf[c]].state = "RESERVED"
               /\ grant'[c].state \in Held \cup {"none", "RELEASED"} => grant'[c].actual = 0
               /\ grant'[c].state \in {"SETTLED", "OVERRUN"} => Reported(c) /\ grant'[c].actual = cost[c]
    <3>1. Becomes(c, grant'[c], writtenOff')
      BY DEF GrantFrame
    <3>2. /\ Sent(c) => grant[c].state # "none"
          /\ Sent(c) /\ ~Reported(c) /\ c \notin writtenOff => grant[c].state \in Held
          /\ grant[c].state \in Held \cup {"none", "RELEASED"} => grant[c].actual = 0
          /\ grant[c].state \in {"SETTLED", "OVERRUN"} => Reported(c) /\ grant[c].actual = cost[c]
          /\ invocation[c].state \in {"handed_off", "unknown"} /\ c \notin writtenOff =>
                reservation[SubjectOf[c]].state = "RESERVED"
      BY <1>t DEF UnreportedIsHeld
    <3>3. (Reported(c) => cost[c] # 0) /\ cost[c] \in Nat
      BY <1>t, ReportedCost DEF BudgetTypeOK
    <3>4. invocation[c].state \in {"handed_off", "unknown"} /\ c \notin writtenOff' =>
                     reservation'[SubjectOf[c]].state = "RESERVED"
      <4>1. SubjectOf[c] \in Subjects /\ c \in CallsOf(SubjectOf[c])
        BY BudgetConstants DEF CallsOf
      <4> QED BY <1>f, <1>2, <3>2, <4>1 DEF Paid
    <3>5. /\ grant'[c].state \in Held \cup {"none", "RELEASED"} => grant'[c].actual = 0
          /\ grant'[c].state \in {"SETTLED", "OVERRUN"} => Reported(c) /\ grant'[c].actual = cost[c]
      BY <3>1, <3>2, <3>3 DEF Becomes, Held
    <3>6. /\ Sent(c) => grant'[c].state # "none"
          /\ Sent(c) /\ ~Reported(c) /\ c \notin writtenOff' => grant'[c].state \in Held
      BY <1>f, <3>1, <3>2 DEF Becomes, Held
    <3> QED BY <3>4, <3>5, <3>6
  <2>2. \A c \in Calls : (Sent(c)' <=> Sent(c)) /\ (Reported(c)' <=> Reported(c))
    BY <1>f DEF Sent, Reported
  <2> QED BY <1>f, <2>1, <2>2 DEF UnreportedIsHeld
<1>5. FreshTurns'
  <2>1. ASSUME NEW s \in Subjects
        PROVE  /\ intent'[s].state = "none" => reservation'[s].state = "none"
               /\ reservation'[s].state = "none" =>
                     reservation'[s].tokens = 0 /\ \A c \in CallsOf(s) : grant'[c].state = "none"
    <3>1. intent'[s].state = "none" => intent[s].state = "none"
      BY DEF AskFrame
    <3>2. reservation'[s].state = "none" <=> reservation[s].state = "none"
      BY <1>2
    <3>3. \A c \in Calls : grant[c].state = "none" => grant'[c].state = "none"
      BY DEF GrantFrame, Becomes, Held
    <3> QED BY <1>t, <1>2, <3>1, <3>2, <3>3 DEF FreshTurns, CallsOf
  <2> QED BY <2>1 DEF FreshTurns, CallsOf
<1> QED BY <1>3, <1>4, <1>5

LEMMA FramesKeep ==
    ASSUME BudgetInv, BudgetTypeOK', GrantFrame, RecordFrame, AskFrame,
           NEW S \in SUBSET Subjects, NEW rows \in [Calls -> ImportRows],
           Settle(S, rows) \/ (S = {} /\ UNCHANGED <<account, reservation>>),
           \A s \in S : reservation[s].state = "RESERVED" =>
               \A c \in CallsOf(s) : c \in writtenOff' \/ Paid(c, rows)
    PROVE  BudgetInv'
<1>1. RecordsAgree' /\ AskersSeeAll'
  BY RecordsKept, AskersKept DEF GrantFrame
<1>2. UnreportedIsHeld' /\ FreshTurns' /\ ReservationsCover' /\ AccountsCover'
  BY BooksKept
<1> QED BY <1>1, <1>2 DEF BudgetInv

\* The tables that are not the books.
TablesOK ==
    /\ lane \in Lanes /\ mission \in {"open", "ended"}
    /\ intent \in [Subjects -> IntentRows]
    /\ grant \in [Calls -> GrantRows]
    /\ leaseGone \in [Calls -> BOOLEAN]
    /\ calling \in [Calls -> {"no", "asking", "admitted", "sent", "answered"}]
    /\ imported \in [Calls -> ImportRows]
    /\ writtenOff \subseteq Calls

LEMMA Tables ==
    ASSUME BudgetInv
    PROVE  TablesOK /\ BudgetTypeOK /\ RecordsAgree /\ UnreportedIsHeld
BY DEF BudgetInv, BudgetTypeOK, TablesOK, IntentRows, GrantRows, ImportRows

\* settle keeps the books numbers.
LEMMA SettledBooks ==
    ASSUME BudgetInv, NEW S \in SUBSET Subjects, NEW rows \in [Calls -> ImportRows],
           Settle(S, rows) \/ (S = {} /\ UNCHANGED <<account, reservation>>)
    PROVE  /\ account' \in [Accounts -> [reserved : Int, settled : Int]]
           /\ reservation' \in [Subjects -> ReservationRows]
<1>t. /\ account \in [Accounts -> [reserved : Int, settled : Int]]
      /\ reservation \in [Subjects -> ReservationRows]
      /\ BudgetTypeOK
  BY DEF BudgetInv, BudgetTypeOK, ReservationRows
<1>1. CASE Settle(S, rows)
  <2> DEFINE open == {s \in S : reservation[s].state = "RESERVED"}
             Of(a) == {s \in open : a \in Chain[s]}
             tokens == [s \in Subjects |-> reservation[s].tokens]
             usage == [s \in Subjects |-> UsageFor(s, rows)]
  <2>1. \A s \in Subjects : usage[s] \in Nat /\ tokens[s] \in Nat
    <3>1. AmountsOK
      BY <1>t, Amounts
    <3>2. \A c \in Calls : [c2 \in Calls |-> rows[c2].tokens][c] \in Nat
      BY DEF ImportRows
    <3>3. \A s \in Subjects : UsageFor(s, rows) \in Nat
      BY <3>1, <3>2, SumRemove DEF UsageFor, AmountsOK
    <3> QED BY <1>t, <3>3 DEF ReservationRows
  <2>2. \A a \in Accounts : Of(a) \subseteq Subjects /\ IsFiniteSet(Of(a))
    <3>1. \A a \in Accounts : Of(a) \subseteq Subjects
      OBVIOUS
    <3> QED BY <3>1, BudgetConstants, FS_Subset
  <2>3. /\ account' = [a \in Accounts |->
              [reserved |-> account[a].reserved - SumFunctionOnSet(tokens, Of(a)),
               settled  |-> account[a].settled + SumFunctionOnSet(usage, Of(a))]]
        /\ reservation' = [s \in Subjects |->
              IF s \in open THEN [reservation[s] EXCEPT !.state = "SETTLED"] ELSE reservation[s]]
    BY <1>1 DEF Settle
  <2> HIDE DEF Of, tokens, usage, open
  <2>4. \A a \in Accounts : /\ SumFunctionOnSet(tokens, Of(a)) \in Nat
                            /\ SumFunctionOnSet(usage, Of(a)) \in Nat
    BY <2>1, <2>2, SumRemove
  <2>5. \A r \in ReservationRows : [r EXCEPT !.state = "SETTLED"] \in ReservationRows
    BY DEF ReservationRows
  <2>6. reservation' \in [Subjects -> ReservationRows]
    BY <1>t, <2>3, <2>5
  <2>7. \A a \in Accounts : account[a].reserved \in Int /\ account[a].settled \in Int
    BY <1>t
  <2> QED BY <2>3, <2>4, <2>6, <2>7
<1> QED BY <1>t, <1>1

LEMMA SettlingStep ==
    ASSUME BudgetInv, TablesOK', GrantFrame, RecordFrame, AskFrame,
           NEW S \in SUBSET Subjects, NEW rows \in [Calls -> ImportRows],
           Settle(S, rows) \/ (S = {} /\ UNCHANGED <<account, reservation>>),
           \A s \in S : reservation[s].state = "RESERVED" =>
               \A c \in CallsOf(s) : c \in writtenOff' \/ Paid(c, rows)
    PROVE  BudgetInv'
<1>1. /\ account' \in [Accounts -> [reserved : Int, settled : Int]]
      /\ reservation' \in [Subjects -> ReservationRows]
  BY SettledBooks
<1>2. BudgetTypeOK /\ UNCHANGED <<invocation, cost>>
  BY DEF BudgetInv, GrantFrame
<1>3. BudgetTypeOK'
  BY <1>1, <1>2 DEF BudgetTypeOK, TablesOK, IntentRows, GrantRows, ImportRows, ReservationRows
<1> QED BY <1>3, FramesKeep

LEMMA TurnSettled ==
    ASSUME BudgetInv, TablesOK', GrantFrame, RecordFrame, AskFrame,
           NEW s \in Subjects, NEW d \in BOOLEAN, NEW rows \in [Calls -> ImportRows],
           SettleIf(d, s, rows),
           d => \A c \in CallsOf(s) : c \in writtenOff' \/ Paid(c, rows)
    PROVE  BudgetInv'
<1> DEFINE S == IF d THEN {s} ELSE {}
<1>1. /\ S \in SUBSET Subjects
      /\ Settle(S, rows) \/ (S = {} /\ UNCHANGED <<account, reservation>>)
      /\ \A r \in S : reservation[r].state = "RESERVED" =>
             \A c \in CallsOf(r) : c \in writtenOff' \/ Paid(c, rows)
  BY DEF SettleIf
<1> HIDE DEF S
<1> QED BY <1>1, SettlingStep

\* A step that touches neither the books nor the imports.
LEMMA QuietStep ==
    ASSUME BudgetInv, TablesOK', GrantFrame, RecordFrame, AskFrame,
           UNCHANGED <<account, reservation>>
    PROVE  BudgetInv'
<1>1. imported \in [Calls -> ImportRows] /\ {} \in SUBSET Subjects
  BY Tables DEF TablesOK
<1> QED BY <1>1, SettlingStep

-----------------------------------------------------------------------------
(* Imports, releases and what they leave uncharged.                        *)

\* A call that was sent is paid for when the rows have what was reported.
LEMMA PaidByRows ==
    ASSUME BudgetInv, NEW c \in Calls, NEW rows,
           Sent(c) => Reported(c) /\ rows[c].tokens = cost[c]
    PROVE  Paid(c, rows)
<1>1. /\ Reported(c) => invocation[c].state = "ended"
      /\ cost[c] # 0 => Sent(c)
  BY Tables, ReportedCost
<1> QED BY <1>1 DEF Paid, Sent

\* Rows that an import may leave behind.
RowsOK(rows) ==
    /\ rows \in [Calls -> ImportRows]
    /\ \A c \in Calls : ImportedAs(c, rows[c])
    /\ \A c \in Calls : rows[c].tokens # 0 => Reported(c) /\ rows[c].tokens = cost[c]

LEMMA KnownRow ==
    ASSUME BudgetInv, NEW c \in Calls, invocation[c].state = "ended", invocation[c].usage # {}
    PROVE  /\ Known(c) \in ImportRows
           /\ Known(c).tokens # 0 => Reported(c) /\ Known(c).tokens = cost[c]
           /\ Reported(c) => Known(c).tokens = cost[c]
<1>1. invocation[c].usage \in {{}, {0}} \cup {{n} : n \in {cost[c]} \ {0}} /\ cost[c] \in Nat
  BY Tables DEF RecordsAgree, Reports, BudgetTypeOK
<1>2. PICK n \in {0, cost[c]} : invocation[c].usage = {n}
  BY <1>1
<1>3. Known(c) = [row |-> "known", tokens |-> n]
  BY <1>2 DEF Known
<1> QED BY <1>1, <1>2, <1>3 DEF ImportRows, Reported

LEMMA ImportedNow ==
    ASSUME BudgetInv
    PROVE  RowsOK(imported)
<1>1. imported \in [Calls -> ImportRows]
  BY Tables DEF TablesOK
<1>2. \A c \in Calls : imported[c].tokens # 0 => Reported(c) /\ imported[c].tokens = cost[c]
  BY Tables, ReportedCost
<1> QED BY <1>1, <1>2 DEF RowsOK, ImportedAs

\* import_usage of facts that are known or noted as unknown.
LEMMA ImportedFacts ==
    ASSUME BudgetInv, NEW facts, DOMAIN facts \subseteq Calls,
           \A c \in DOMAIN facts : Fact(c, facts[c])
    PROVE  /\ RowsOK(Import(facts))
           /\ \A c \in DOMAIN facts : facts[c] = Known(c) /\ Reported(c) =>
                                          Import(facts)[c].tokens = cost[c]
<1>1. RowsOK(imported)
  BY ImportedNow
<1>2. \A c \in Calls : Import(facts)[c] = IF c \in DOMAIN facts /\ imported[c].row # "known"
                                          THEN facts[c] ELSE imported[c]
  BY DEF Import
<1>3. ASSUME NEW c \in Calls
      PROVE  /\ Import(facts)[c] \in ImportRows /\ ImportedAs(c, Import(facts)[c])
             /\ Import(facts)[c].tokens # 0 => Reported(c) /\ Import(facts)[c].tokens = cost[c]
  <2>1. CASE Import(facts)[c] = imported[c]
    BY <1>1, <2>1 DEF RowsOK
  <2>2. CASE c \in DOMAIN facts /\ imported[c].row # "known" /\ Import(facts)[c] = facts[c]
    <3>1. CASE facts[c] = [row |-> "unknown", tokens |-> 0]
      BY <2>2, <3>1 DEF ImportedAs, Fact, ImportRows
    <3>2. CASE invocation[c].state = "ended" /\ invocation[c].usage # {} /\ facts[c] = Known(c)
      BY <2>2, <3>2, KnownRow DEF ImportedAs, Fact
    <3> QED BY <2>2, <3>1, <3>2 DEF Fact
  <2> QED BY <1>2, <2>1, <2>2
<1>4. Import(facts) \in [Calls -> ImportRows]
  BY <1>3 DEF Import
<1>5. ASSUME NEW c \in DOMAIN facts, facts[c] = Known(c), Reported(c)
      PROVE  Import(facts)[c].tokens = cost[c]
  <2>0. invocation[c].state = "ended" /\ invocation[c].usage # {}
    BY <1>5 DEF Reported
  <2>1. CASE imported[c].row # "known"
    BY <1>2, <1>5, <2>0, <2>1, KnownRow
  <2>2. CASE imported[c].row = "known"
    <3>1. Import(facts)[c] = imported[c] /\ c \in Calls
      BY <1>2, <2>2
    <3>2. invocation[c] = [state |-> "ended", usage |-> {imported[c].tokens}]
      BY <2>2, <3>1, Tables DEF RecordsAgree
    <3>3. imported[c].tokens # 0
      BY <1>5, <3>2 DEF Reported
    <3> QED BY <1>1, <3>1, <3>3 DEF RowsOK
  <2> QED BY <2>1, <2>2
<1> QED BY <1>3, <1>4, <1>5 DEF RowsOK

\* _import_usage has every report of the turns S.
LEMMA ImportedUsage ==
    ASSUME BudgetInv, NEW S
    PROVE  /\ RowsOK(ImportUsage(S))
           /\ \A c \in Calls : SubjectOf[c] \in S /\ Reported(c) => ImportUsage(S)[c].tokens = cost[c]
<1> DEFINE all     == {c \in Calls : SubjectOf[c] \in S}
           known   == {c \in all : invocation[c].state = "ended" /\ invocation[c].usage \ {0} # {}}
           unknown == {c \in all \ known : /\ lane = "hierarchical"
                                          /\ invocation[c].state \in {"ended", "unknown"}}
           facts == [c \in known \cup unknown |->
                        IF c \in known THEN Known(c) ELSE [row |-> "unknown", tokens |-> 0]]
<1>1. ImportUsage(S) = Import(facts) /\ DOMAIN facts = known \cup unknown
  BY DEF ImportUsage
<1>2. known \cup unknown \subseteq Calls
  OBVIOUS
<1>3. \A c \in known : c \in Calls /\ invocation[c].state = "ended" /\ invocation[c].usage # {}
  OBVIOUS
<1>4. \A c \in Calls : SubjectOf[c] \in S /\ Reported(c) => c \in known
  BY DEF Reported
<1> HIDE DEF known, unknown
<1>5. \A c \in known : facts[c] = Known(c)
  OBVIOUS
<1>6. \A c \in DOMAIN facts : Fact(c, facts[c])
  BY <1>1, <1>3 DEF Fact
<1> HIDE DEF facts
<1>7. /\ RowsOK(Import(facts))
      /\ \A c \in DOMAIN facts : facts[c] = Known(c) /\ Reported(c) =>
                                     Import(facts)[c].tokens = cost[c]
  BY <1>1, <1>2, <1>6, ImportedFacts
<1> QED BY <1>1, <1>3, <1>4, <1>5, <1>7

\* release_held_grants, the uncharged calls being written off.
LEMMA ReleasedGrants ==
    ASSUME BudgetInv, NEW S, Release(S), NEW rows, RowsOK(rows), NEW W,
           \A c \in Calls : SubjectOf[c] \in S /\ grant[c].state \in Held
                            /\ invocation[c].state # "claimed" /\ rows[c].tokens = 0 => c \in W
    PROVE  /\ grant' \in [Calls -> GrantRows]
           /\ \A c \in Calls : Becomes(c, grant'[c], W)
           /\ \A c \in Calls : grant'[c].state = "RELEASED" /\ SubjectOf[c] \notin S =>
                  grant[c].state = "RELEASED"
<1>t. grant \in [Calls -> GrantRows]
  BY Tables DEF TablesOK
<1>e. \A r \in GrantRows : LET h == [r EXCEPT !.state = "RELEASED"]
                           IN  h \in GrantRows /\ h.state = "RELEASED" /\ h.actual = r.actual
  BY DEF GrantRows
<1>1. \A c \in Calls : grant'[c] = IF SubjectOf[c] \in S /\ grant[c].state \in Held
                                   THEN [grant[c] EXCEPT !.state = "RELEASED"] ELSE grant[c]
  BY DEF Release
<1>2. grant' \in [Calls -> GrantRows]
  BY <1>t, <1>e DEF Release
<1>3. ASSUME NEW c \in Calls PROVE Becomes(c, grant'[c], W)
  <2>1. CASE SubjectOf[c] \in S /\ grant[c].state \in Held
    <3>1. grant'[c].state = "RELEASED" /\ grant'[c].actual = 0
      <4>1. grant[c].actual = 0
        BY <2>1, Tables DEF UnreportedIsHeld
      <4>2. grant'[c] = [grant[c] EXCEPT !.state = "RELEASED"] /\ grant[c] \in GrantRows
        BY <1>t, <1>1, <2>1
      <4> QED BY <1>e, <4>1, <4>2
    <3>2. ~Sent(c) \/ Reported(c) \/ c \in W
      BY <2>1 DEF RowsOK, Sent
    <3> QED BY <2>1, <3>1, <3>2 DEF Becomes
  <2>2. CASE ~(SubjectOf[c] \in S /\ grant[c].state \in Held)
    <3>1. grant'[c] = grant[c]
      BY <1>1, <2>2
    <3> QED BY <3>1 DEF Becomes
  <2> QED BY <2>1, <2>2
<1> QED BY <1>1, <1>2, <1>3

-----------------------------------------------------------------------------
(* The steps that keep to the frames.                                      *)

\* The frames of what an action leaves alone.
LEMMA GrantsStay ==
    ASSUME BudgetInv, UNCHANGED <<grant, invocation, cost>>, writtenOff \subseteq writtenOff'
    PROVE  GrantFrame
BY DEF GrantFrame, Becomes

LEMMA RefusedKeeps ==
    ASSUME BudgetInv, NEW c \in Calls, Refused(c)
    PROVE  BudgetInv'
<1>t. TablesOK /\ RecordsAgree /\ UnreportedIsHeld
  BY Tables
<1>1. calling' = [calling EXCEPT ![c] = "no"] /\ calling' \in [Calls -> {"no", "asking", "admitted", "sent", "answered"}]
  BY <1>t DEF Refused, TablesOK
<1>2. CASE grant' = grant
  <2>1. TablesOK'
    BY <1>t, <1>1, <1>2 DEF Refused, TablesOK
  <2>2. GrantFrame
    BY <1>2, GrantsStay DEF Refused
  <2>3. RecordFrame
    BY <1>t, <1>1 DEF RecordFrame, ImportedAs, Refused, TablesOK
  <2>4. AskFrame
    BY <1>t, <1>2 DEF AskFrame, Refused, TablesOK
  <2> QED BY <2>1, <2>2, <2>3, <2>4, QuietStep DEF Refused
<1>3. CASE /\ grant' = [grant EXCEPT ![c].state = "RELEASED"]
           /\ calling[c] = "admitted" /\ grant[c].state = "RESERVED"
  <2>0. /\ [grant[c] EXCEPT !.state = "RELEASED"] \in GrantRows
        /\ [grant[c] EXCEPT !.state = "RELEASED"].state = "RELEASED"
        /\ [grant[c] EXCEPT !.state = "RELEASED"].actual = grant[c].actual
        /\ grant[c].actual = 0
    <3>1. grant[c] \in GrantRows /\ grant[c].actual = 0
      BY <1>t, <1>3 DEF TablesOK, UnreportedIsHeld, Held
    <3> QED BY <3>1 DEF GrantRows
  <2>1. /\ grant' \in [Calls -> GrantRows]
        /\ grant'[c].state = "RELEASED" /\ grant'[c].actual = 0
        /\ \A d \in Calls : d # c => grant'[d] = grant[d]
    BY <1>t, <1>3, <2>0 DEF TablesOK
  <2>2. ~Sent(c) /\ ~Reported(c)
    BY <1>t, <1>3 DEF RecordsAgree, Sent, Reported
  <2>3. TablesOK'
    BY <1>t, <1>1, <2>1 DEF Refused, TablesOK
  <2>4. GrantFrame
    BY <1>3, <2>1, <2>2 DEF GrantFrame, Becomes, Held, Refused
  <2>5. RecordFrame
    BY <1>t, <1>1 DEF RecordFrame, ImportedAs, Refused, TablesOK
  <2>6. AskFrame
    BY <1>t, <2>1, <2>2 DEF AskFrame, Refused, TablesOK
  <2> QED BY <2>3, <2>4, <2>5, <2>6, QuietStep DEF Refused
<1> QED BY <1>2, <1>3 DEF Refused

LEMMA ObserveKeeps ==
    ASSUME BudgetInv, NEW c \in Calls, Observe(c)
    PROVE  BudgetInv'
<1>t. TablesOK
  BY Tables
<1>1. calling' = [calling EXCEPT ![c] = "no"] /\ calling' \in [Calls -> {"no", "asking", "admitted", "sent", "answered"}]
  BY <1>t DEF Observe, TablesOK
<1>2. /\ Observed(c) \in GrantRows /\ Becomes(c, Observed(c), writtenOff')
      /\ Observed(c).state = "RELEASED" => ~Reported(c)
  BY ObservedGrant
<1>3. /\ grant' \in [Calls -> GrantRows] /\ grant'[c] = Observed(c)
      /\ \A d \in Calls : d # c => grant'[d] = grant[d]
  BY <1>t, <1>2 DEF Observe, TablesOK
<1>4. TablesOK'
  BY <1>t, <1>1, <1>3 DEF Observe, TablesOK
<1>5. GrantFrame
  <2>1. \A d \in Calls : d # c => Becomes(d, grant'[d], writtenOff')
    BY <1>3 DEF Becomes
  <2> QED BY <1>2, <1>3, <2>1 DEF GrantFrame, Observe
<1>6. RecordFrame
  BY <1>t, <1>1 DEF RecordFrame, ImportedAs, Observe, TablesOK
<1>7. AskFrame
  BY <1>t, <1>2, <1>3 DEF AskFrame, Observe, TablesOK
<1> QED BY <1>4, <1>5, <1>6, <1>7, QuietStep DEF Observe

\* recover, whoever is about to ask.
LEMMA RecoveredAll ==
    ASSUME BudgetInv, RecoverGrants
    PROVE  /\ grant' \in [Calls -> GrantRows] /\ writtenOff' \subseteq Calls
           /\ GrantFrame
           /\ \A c \in Calls : ~(grant'[c].state = "RELEASED" /\ Reported(c))
<1>1. \A c \in Calls : grant'[c] = Recovered(c)
  BY DEF RecoverGrants
<1>2. ASSUME NEW c \in Calls
      PROVE  /\ Recovered(c) \in GrantRows /\ Becomes(c, Recovered(c), writtenOff')
             /\ ~(Recovered(c).state = "RELEASED" /\ Reported(c))
  <2>1. Rehanded(c) /\ grant[c].state \in Held /\ Recovered(c).state = "RELEASED"
            /\ invocation[c].state # "claimed" /\ imported[c].tokens = 0 => c \in writtenOff'
    BY <1>1 DEF RecoverGrants, Uncharged
  <2> QED BY <2>1, RecoveredGrant
<1>3. grant' \in [Calls -> GrantRows]
  BY <1>2 DEF RecoverGrants
<1>4. writtenOff \subseteq Calls
  BY Tables DEF TablesOK
<1>5. writtenOff' \subseteq Calls /\ writtenOff \subseteq writtenOff'
  BY <1>4 DEF RecoverGrants, Uncharged
<1> QED BY <1>1, <1>2, <1>3, <1>5 DEF GrantFrame, RecoverGrants

LEMMA RecoverKeeps ==
    ASSUME BudgetInv, Recover
    PROVE  BudgetInv'
<1>t. TablesOK
  BY Tables
<1>1. /\ grant' \in [Calls -> GrantRows] /\ writtenOff' \subseteq Calls /\ GrantFrame
      /\ \A c \in Calls : ~(grant'[c].state = "RELEASED" /\ Reported(c))
  BY RecoveredAll DEF Recover
<1>2. TablesOK'
  BY <1>t, <1>1 DEF TablesOK, Recover, RecoverGrants
<1>3. RecordFrame
  BY DEF RecordFrame, ImportedAs, Recover, RecoverGrants
<1>4. AskFrame
  BY <1>1 DEF AskFrame, Recover, RecoverGrants
<1> QED BY <1>1, <1>2, <1>3, <1>4, QuietStep DEF Recover, RecoverGrants

LEMMA ProcessKeeps ==
    ASSUME BudgetInv, ProcessDies \/ \E c \in Calls : LeaseLapses(c)
    PROVE  BudgetInv'
<1>t. TablesOK
  BY Tables
<1>1. /\ UNCHANGED <<lane, mission, account, reservation, intent, grant, invocation, imported, cost,
                     writtenOff>>
      /\ \A c \in Calls : calling'[c] \in {calling[c], "no"}
      /\ calling' \in [Calls -> {"no", "asking", "admitted", "sent", "answered"}]
  BY <1>t DEF ProcessDies, LeaseLapses, TablesOK
<1>2. leaseGone' \in [Calls -> BOOLEAN]
  BY <1>t, Zenon DEF ProcessDies, LeaseLapses, TablesOK
<1>3. TablesOK'
  BY <1>t, <1>1, <1>2 DEF TablesOK
<1>4. GrantFrame
  BY <1>1, GrantsStay
<1>5. RecordFrame /\ AskFrame
  BY <1>1 DEF RecordFrame, ImportedAs, AskFrame
<1> QED BY <1>1, <1>3, <1>4, <1>5, QuietStep

\* CutOff.
LEMMA CutOffCalls ==
    ASSUME BudgetInv, NEW d \in BOOLEAN, CutOff(d)
    PROVE  /\ calling' \in [Calls -> {"no", "asking", "admitted", "sent", "answered"}]
           /\ \A c \in Calls : calling'[c] \in {calling[c], "no"}
           /\ d => \A c \in Calls : calling'[c] = "no"
BY Tables DEF CutOff, TablesOK

\* The turn of s ends, or its intent stays.
LEMMA EndedIntent ==
    ASSUME BudgetInv, NEW s \in Subjects, NEW z \in {"STOPPED", "VERIFYING", "CLOSED"},
           intent' \in {intent, [intent EXCEPT ![s].state = z]}
    PROVE  /\ intent' \in [Subjects -> IntentRows]
           /\ \A r \in Subjects : \/ intent'[r] = intent[r]
                                  \/ /\ intent'[r].state \notin {"none", "SUBMITTED"}
                                     /\ intent'[r].executor = intent[r].executor
<1>t. intent \in [Subjects -> IntentRows]
  BY Tables DEF TablesOK
<1>1. CASE intent' = intent
  BY <1>t, <1>1
<1>2. CASE intent' = [intent EXCEPT ![s].state = z]
  <2>1. LET j == [intent[s] EXCEPT !.state = z]
        IN  j \in IntentRows /\ j.state = z /\ j.executor = intent[s].executor
    BY <1>t DEF IntentRows
  <2>2. intent' = [intent EXCEPT ![s] = [intent[s] EXCEPT !.state = z]]
    BY <1>2
  <2> QED BY <1>t, <2>1, <2>2
<1> QED BY <1>1, <1>2

\* The imports of a step, and that it releases nothing that was reported.
LEMMA ImportFrame ==
    ASSUME RowsOK(imported'), \A c \in Calls : calling'[c] \in {calling[c], "no"}
    PROVE  RecordFrame /\ imported' \in [Calls -> ImportRows]
BY DEF RowsOK, RecordFrame

\* A turn without unknown usage, or whose held grants are written off, is paid for.
LEMMA KnownPaid ==
    ASSUME BudgetInv, NEW s \in Subjects, NEW rows, RowsOK(rows), writtenOff \subseteq writtenOff',
           \A c \in CallsOf(s) : Reported(c) => rows[c].tokens = cost[c],
           HeldOf(s) = {} \/ Uncharged(HeldOf(s), rows) \subseteq writtenOff'
    PROVE  \A c \in CallsOf(s) : c \in writtenOff' \/ Paid(c, rows)
<1>1. ASSUME NEW c \in CallsOf(s), c \notin writtenOff' PROVE Paid(c, rows)
  <2>1. c \in Calls
    BY DEF CallsOf
  <2>2. ASSUME Sent(c) PROVE Reported(c)
    <3>1. ASSUME ~Reported(c) PROVE FALSE
      <4>1. grant[c].state \in Held
        BY <1>1, <2>1, <2>2, <3>1, Tables DEF UnreportedIsHeld
      <4>2. c \in HeldOf(s)
        BY <4>1 DEF HeldOf
      <4>3. rows[c].tokens = 0 /\ invocation[c].state # "claimed"
        BY <2>1, <2>2, <3>1 DEF RowsOK, Sent
      <4> QED BY <1>1, <4>2, <4>3 DEF Uncharged
    <3> QED BY <3>1
  <2> QED BY <2>1, <2>2, PaidByRows
<1> QED BY <1>1

\* So is any call when what the rows do not have is written off.
LEMMA RestWrittenOff ==
    ASSUME BudgetInv, NEW C \in SUBSET Calls, NEW rows, RowsOK(rows),
           Uncharged(C, rows) \subseteq writtenOff'
    PROVE  \A c \in C : c \in writtenOff' \/ Paid(c, rows)
<1>1. ASSUME NEW c \in C, c \notin writtenOff' PROVE Paid(c, rows)
  <2>1. Sent(c) => rows[c].tokens # 0
    BY <1>1 DEF Sent, Uncharged
  <2>2. Sent(c) => Reported(c) /\ rows[c].tokens = cost[c]
    BY <2>1 DEF RowsOK
  <2> QED BY <2>2, PaidByRows
<1> QED BY <1>1

\* A turn ends with its grants as they are, and is settled or not.
LEMMA TurnEnds ==
    ASSUME BudgetInv, NEW s \in Subjects, NEW z \in {"STOPPED", "VERIFYING", "CLOSED"},
           intent' \in {intent, [intent EXCEPT ![s].state = z]},
           UNCHANGED <<lane, mission, grant, invocation, leaseGone, cost>>,
           NEW cut \in BOOLEAN, CutOff(cut),
           writtenOff \subseteq writtenOff', writtenOff' \subseteq Calls,
           NEW rows, RowsOK(rows), imported' \in {imported, rows},
           NEW d \in BOOLEAN, SettleIf(d, s, rows),
           d => \A c \in CallsOf(s) : c \in writtenOff' \/ Paid(c, rows)
    PROVE  BudgetInv'
<1>t. TablesOK
  BY Tables
<1>1. /\ calling' \in [Calls -> {"no", "asking", "admitted", "sent", "answered"}]
      /\ \A c \in Calls : calling'[c] \in {calling[c], "no"}
  BY CutOffCalls
<1>2. /\ intent' \in [Subjects -> IntentRows]
      /\ \A r \in Subjects : \/ intent'[r] = intent[r]
                             \/ /\ intent'[r].state \notin {"none", "SUBMITTED"}
                                /\ intent'[r].executor = intent[r].executor
  BY EndedIntent
<1>3. RowsOK(imported')
  BY ImportedNow
<1>4. RecordFrame /\ imported' \in [Calls -> ImportRows]
  BY <1>1, <1>3, ImportFrame
<1>5. TablesOK'
  BY <1>t, <1>1, <1>2, <1>4 DEF TablesOK
<1>6. GrantFrame
  BY GrantsStay
<1>7. AskFrame
  BY <1>t, <1>2 DEF AskFrame, TablesOK
<1>8. rows \in [Calls -> ImportRows]
  BY DEF RowsOK
<1> QED BY <1>4, <1>5, <1>6, <1>7, <1>8, TurnSettled


LEMMA CollectKeeps ==
    ASSUME BudgetInv, NEW s \in Subjects, NEW closed \in BOOLEAN, NEW settled \in BOOLEAN,
           Collect(s, closed, settled)
    PROVE  BudgetInv'
<1> DEFINE rows == ImportUsage({s})
           due == settled /\ MaySettle(s, rows)
<1>r. RowsOK(rows) /\ \A c \in CallsOf(s) : Reported(c) => rows[c].tokens = cost[c]
  BY ImportedUsage DEF CallsOf
<1>a. /\ imported' = rows /\ SettleIf(due, s, rows) /\ CutOff(~closed \/ ~settled)
      /\ intent' \in {intent, [intent EXCEPT ![s].state = "CLOSED"]}
      /\ writtenOff' = IF due /\ HasUnknown(s, rows)
                       THEN writtenOff \cup Uncharged(HeldOf(s), rows) ELSE writtenOff
      /\ UNCHANGED <<lane, mission, grant, invocation, leaseGone, cost>>
  BY DEF Collect
<1>d. due \in BOOLEAN /\ (~closed \/ ~settled) \in BOOLEAN
  BY DEF MaySettle
<1> HIDE DEF rows, due
<1>1. writtenOff \subseteq writtenOff' /\ writtenOff' \subseteq Calls
  BY <1>a, Tables DEF TablesOK, Uncharged, HeldOf, CallsOf
<1>2. due => \A c \in CallsOf(s) : c \in writtenOff' \/ Paid(c, rows)
  <2>1. due => HeldOf(s) = {} \/ Uncharged(HeldOf(s), rows) \subseteq writtenOff'
    BY <1>a DEF HasUnknown
  <2> QED BY <1>r, <1>1, <2>1, KnownPaid
<1> QED BY <1>a, <1>d, <1>r, <1>1, <1>2, TurnEnds

LEMMA CollectResultKeeps ==
    ASSUME BudgetInv, NEW s \in Subjects, CollectResult(s)
    PROVE  BudgetInv'
<1> DEFINE rows == ImportUsage({s})
<1>1. RowsOK(rows)
  BY ImportedUsage
<1>2. /\ imported' = rows /\ intent' = [intent EXCEPT ![s].state = "VERIFYING"]
      /\ UNCHANGED <<lane, mission, account, reservation, grant, invocation, leaseGone, calling, cost,
                     writtenOff>>
  BY DEF CollectResult
<1>3. CutOff(FALSE) /\ SettleIf(FALSE, s, rows) /\ writtenOff' \subseteq Calls
  BY <1>2, Tables DEF CutOff, SettleIf, TablesOK
<1> HIDE DEF rows
<1> QED BY <1>1, <1>2, <1>3, TurnEnds

LEMMA VerdictKeeps ==
    ASSUME BudgetInv, NEW s \in Subjects, Verdict(s)
    PROVE  BudgetInv'
<1> DEFINE due == ~HasUnknown(s, imported)
<1>a. /\ intent' = [intent EXCEPT ![s].state = "CLOSED"] /\ SettleIf(due, s, imported)
      /\ writtenOff' = IF due THEN writtenOff \cup Uncharged(CallsOf(s), imported) ELSE writtenOff
      /\ UNCHANGED <<lane, mission, grant, invocation, leaseGone, calling, imported, cost>>
  BY DEF Verdict
<1>d. due \in BOOLEAN /\ RowsOK(imported) /\ CutOff(FALSE) /\ CallsOf(s) \in SUBSET Calls
  BY <1>a, ImportedNow DEF CutOff, CallsOf
<1> HIDE DEF due
<1>1. writtenOff \subseteq writtenOff' /\ writtenOff' \subseteq Calls
  BY <1>a, Tables DEF TablesOK, Uncharged, CallsOf
<1>2. due => \A c \in CallsOf(s) : c \in writtenOff' \/ Paid(c, imported)
  BY <1>a, <1>d, RestWrittenOff
<1> QED BY <1>a, <1>d, <1>1, <1>2, TurnEnds

LEMMA StallOutKeeps ==
    ASSUME BudgetInv, NEW s \in Subjects, NEW closed \in BOOLEAN, StallOut(s, closed)
    PROVE  BudgetInv'
<1> DEFINE rows == ImportUsage({s})
           due == ~HasUnknown(s, rows)
           z == IF closed THEN "CLOSED" ELSE "STOPPED"
<1>r. RowsOK(rows) /\ \A c \in CallsOf(s) : Reported(c) => rows[c].tokens = cost[c]
  BY ImportedUsage DEF CallsOf
<1>a. /\ imported' = rows /\ intent' = [intent EXCEPT ![s].state = z]
      /\ SettleIf(due, s, rows) /\ CutOff(~closed)
      /\ UNCHANGED <<lane, mission, grant, invocation, leaseGone, cost, writtenOff>>
  BY DEF StallOut
<1>d. /\ due \in BOOLEAN /\ (~closed) \in BOOLEAN /\ writtenOff' \subseteq Calls
      /\ z \in {"STOPPED", "VERIFYING", "CLOSED"}
      /\ due => HeldOf(s) = {}
  BY <1>a, Tables DEF TablesOK, HasUnknown
<1> HIDE DEF rows, due, z
<1>1. due => \A c \in CallsOf(s) : c \in writtenOff' \/ Paid(c, rows)
  BY <1>r, <1>a, <1>d, KnownPaid
<1> QED BY <1>r, <1>a, <1>d, <1>1, TurnEnds

LEMMA StopReadOnlyKeeps ==
    ASSUME BudgetInv, NEW s \in Subjects, NEW closed \in BOOLEAN, StopReadOnly(s, closed)
    PROVE  BudgetInv'
<1> DEFINE due == ~HasUnknown(s, imported)
           z == IF closed THEN "CLOSED" ELSE "STOPPED"
<1>a. /\ intent' = [intent EXCEPT ![s].state = z] /\ SettleIf(due, s, imported) /\ CutOff(~closed)
      /\ writtenOff' = IF due THEN writtenOff \cup Uncharged(CallsOf(s), imported) ELSE writtenOff
      /\ UNCHANGED <<lane, mission, grant, invocation, leaseGone, imported, cost>>
  BY DEF StopReadOnly
<1>d. /\ due \in BOOLEAN /\ (~closed) \in BOOLEAN /\ z \in {"STOPPED", "VERIFYING", "CLOSED"}
      /\ RowsOK(imported) /\ CallsOf(s) \in SUBSET Calls
  BY ImportedNow DEF CallsOf
<1> HIDE DEF due, z
<1>1. writtenOff \subseteq writtenOff' /\ writtenOff' \subseteq Calls
  BY <1>a, Tables DEF TablesOK, Uncharged, CallsOf
<1>2. due => \A c \in CallsOf(s) : c \in writtenOff' \/ Paid(c, imported)
  BY <1>a, <1>d, RestWrittenOff
<1> QED BY <1>a, <1>d, <1>1, <1>2, TurnEnds

LEMMA LateImportKeeps ==
    ASSUME BudgetInv, NEW s \in Subjects, LateImport(s)
    PROVE  BudgetInv'
<1> DEFINE sent == {c \in Executing(s) : invocation[c].state # "claimed"}
           told == {c \in sent : invocation[c].state = "ended" /\ invocation[c].usage # {}}
           facts == [c \in told |-> Known(c)]
           rows == Import(facts)
           due == TurnOver(s) /\ told = sent /\ ~HasUnknown(s, rows)
<1>a. /\ imported' = rows /\ SettleIf(due, s, rows)
      /\ \A c \in CallsOf(s) : grant[c].state # "none" => c \in Executing(s)
      /\ UNCHANGED <<lane, mission, intent, grant, invocation, leaseGone, calling, cost, writtenOff>>
  BY DEF LateImport
<1>d. /\ due \in BOOLEAN /\ CutOff(FALSE) /\ writtenOff' \subseteq Calls
      /\ due => HeldOf(s) = {}
      /\ "CLOSED" \in {"STOPPED", "VERIFYING", "CLOSED"}
  BY <1>a, Tables DEF TablesOK, HasUnknown, CutOff, TurnOver
<1>f. /\ DOMAIN facts = told /\ told \subseteq Calls
      /\ \A c \in told : facts[c] = Known(c)
      /\ \A c \in DOMAIN facts : Fact(c, facts[c])
  BY DEF Executing, CallsOf, Fact
<1>s. \A c \in CallsOf(s) : Reported(c) => c \in told
  <2>1. ASSUME NEW c \in CallsOf(s), Reported(c) PROVE c \in told
    <3>1. c \in Calls /\ Sent(c) /\ invocation[c].state = "ended" /\ invocation[c].usage # {}
      BY <2>1 DEF CallsOf, Reported, Sent
    <3>2. c \in Executing(s)
      BY <1>a, <3>1, Tables DEF UnreportedIsHeld
    <3> QED BY <3>1, <3>2
  <2> QED BY <2>1
<1> HIDE DEF facts, due, told, sent
<1>r. RowsOK(rows) /\ \A c \in told : Reported(c) => rows[c].tokens = cost[c]
  BY <1>f, ImportedFacts
<1> HIDE DEF rows
<1>1. due => \A c \in CallsOf(s) : c \in writtenOff' \/ Paid(c, rows)
  BY <1>r, <1>s, <1>a, <1>d, KnownPaid
<1> QED BY <1>r, <1>a, <1>d, <1>1, TurnEnds


LEMMA RehandoffKeeps ==
    ASSUME BudgetInv, NEW s \in Subjects, NEW cut \in BOOLEAN, Rehandoff(s, cut)
    PROVE  BudgetInv'
<1>t. TablesOK
  BY Tables
<1>a. /\ intent[s] = [state |-> "SUBMITTED", executor |-> 0]
      /\ Release({s}) /\ writtenOff' = writtenOff \cup Uncharged(HeldOf(s), imported)
      /\ intent' = IF cut THEN intent ELSE [intent EXCEPT ![s].executor = 1]
      /\ CutOff(cut)
      /\ UNCHANGED <<lane, mission, account, reservation, invocation, leaseGone, imported, cost>>
  BY DEF Rehandoff
<1>1. /\ calling' \in [Calls -> {"no", "asking", "admitted", "sent", "answered"}]
      /\ \A c \in Calls : calling'[c] \in {calling[c], "no"}
      /\ cut => \A c \in Calls : calling'[c] = "no"
  BY <1>a, CutOffCalls
<1>2. writtenOff \subseteq writtenOff' /\ writtenOff' \subseteq Calls
  BY <1>t, <1>a DEF TablesOK, Uncharged, HeldOf, CallsOf
<1>3. RowsOK(imported)
  BY ImportedNow
<1>4. \A c \in Calls : SubjectOf[c] \in {s} /\ grant[c].state \in Held
          /\ invocation[c].state # "claimed" /\ imported[c].tokens = 0 => c \in writtenOff'
  BY <1>a DEF Uncharged, HeldOf, CallsOf
<1>5. /\ grant' \in [Calls -> GrantRows]
      /\ \A c \in Calls : Becomes(c, grant'[c], writtenOff')
      /\ \A c \in Calls : grant'[c].state = "RELEASED" /\ SubjectOf[c] \notin {s} =>
             grant[c].state = "RELEASED"
  BY <1>a, <1>3, <1>4, ReleasedGrants
<1>6. /\ intent' \in [Subjects -> IntentRows]
      /\ \A r \in Subjects : r # s => intent'[r] = intent[r]
      /\ cut => intent'[s] = intent[s]
      /\ ~cut => intent[s].executor = 0 /\ intent'[s].executor = 1 /\ intent'[s].state = intent[s].state
  <2>1. CASE cut
    BY <1>t, <1>a, <2>1 DEF TablesOK
  <2>2. CASE ~cut
    <3>1. [intent[s] EXCEPT !.executor = 1] = [state |-> "SUBMITTED", executor |-> 1]
      BY <1>a
    <3>2. intent' = [intent EXCEPT ![s] = [state |-> "SUBMITTED", executor |-> 1]]
      BY <1>a, <2>2, <3>1
    <3>3. [state |-> "SUBMITTED", executor |-> 1] \in IntentRows
      BY DEF IntentRows
    <3> QED BY <1>t, <1>a, <2>2, <3>2, <3>3 DEF TablesOK
  <2> QED BY <2>1, <2>2
<1>7. TablesOK'
  BY <1>t, <1>a, <1>1, <1>2, <1>5, <1>6 DEF TablesOK
<1>8. GrantFrame
  BY <1>a, <1>2, <1>5 DEF GrantFrame
<1>9. RecordFrame
  BY <1>a, <1>1 DEF RecordFrame, ImportedAs
<1>10. AskFrame
  <2>1. \A c \in Calls : grant'[c].state = "RELEASED" =>
            \/ grant[c].state = "RELEASED"
            \/ \A d \in Calls : calling'[d] = "no"
            \/ intent'[SubjectOf[c]].executor # intent[SubjectOf[c]].executor
    BY <1>1, <1>5, <1>6
  <2> QED BY <1>t, <1>a, <1>6, <2>1 DEF AskFrame, TablesOK
<1> QED BY <1>a, <1>7, <1>8, <1>9, <1>10, QuietStep

LEMMA GiveUpKeeps ==
    ASSUME BudgetInv, NEW s \in Subjects, NEW n \in 1..4, GiveUp(s, n)
    PROVE  BudgetInv'
<1> DEFINE rows == ImportUsage({s})
           cut == n < 4
           due == n = 4
<1>t. TablesOK
  BY Tables
<1>r. RowsOK(rows) /\ \A c \in CallsOf(s) : Reported(c) => rows[c].tokens = cost[c]
  BY ImportedUsage DEF CallsOf
<1>a. /\ Release({s}) /\ writtenOff' = writtenOff \cup Uncharged(HeldOf(s), rows)
      /\ imported' \in {imported, rows} /\ SettleIf(due, s, rows) /\ CutOff(cut)
      /\ intent' \in {intent, [intent EXCEPT ![s].state = "CLOSED"]}
      /\ due => intent' = [intent EXCEPT ![s].state = "CLOSED"]
      /\ UNCHANGED <<lane, mission, invocation, leaseGone, cost>>
      /\ cut \in BOOLEAN /\ due \in BOOLEAN /\ (cut \/ due)
  BY DEF GiveUp
<1> HIDE DEF rows, cut, due
<1>1. /\ calling' \in [Calls -> {"no", "asking", "admitted", "sent", "answered"}]
      /\ \A c \in Calls : calling'[c] \in {calling[c], "no"}
      /\ cut => \A c \in Calls : calling'[c] = "no"
  BY <1>a, CutOffCalls
<1>2. writtenOff \subseteq writtenOff' /\ writtenOff' \subseteq Calls
  BY <1>t, <1>a DEF TablesOK, Uncharged, HeldOf, CallsOf
<1>3. RowsOK(imported')
  BY <1>a, <1>r, ImportedNow
<1>4. \A c \in Calls : SubjectOf[c] \in {s} /\ grant[c].state \in Held
          /\ invocation[c].state # "claimed" /\ rows[c].tokens = 0 => c \in writtenOff'
  BY <1>a DEF Uncharged, HeldOf, CallsOf
<1>5. /\ grant' \in [Calls -> GrantRows]
      /\ \A c \in Calls : Becomes(c, grant'[c], writtenOff')
      /\ \A c \in Calls : grant'[c].state = "RELEASED" /\ SubjectOf[c] \notin {s} =>
             grant[c].state = "RELEASED"
  BY <1>a, <1>r, <1>4, ReleasedGrants
<1>6. /\ intent' \in [Subjects -> IntentRows]
      /\ \A r \in Subjects : \/ intent'[r] = intent[r]
                             \/ /\ intent'[r].state \notin {"none", "SUBMITTED"}
                                /\ intent'[r].executor = intent[r].executor
  BY <1>a, EndedIntent
<1>7. due => intent'[s].state = "CLOSED"
  BY <1>t, <1>a DEF TablesOK, IntentRows
<1>8. RecordFrame /\ imported' \in [Calls -> ImportRows]
  BY <1>1, <1>3, ImportFrame
<1>9. TablesOK'
  BY <1>t, <1>a, <1>1, <1>2, <1>5, <1>6, <1>8 DEF TablesOK
<1>10. GrantFrame
  BY <1>a, <1>2, <1>5 DEF GrantFrame
<1>11. AskFrame
  <2>1. \A c \in Calls : grant'[c].state = "RELEASED" =>
            \/ grant[c].state = "RELEASED"
            \/ \A d \in Calls : calling'[d] = "no"
            \/ intent'[SubjectOf[c]].state # "SUBMITTED"
    BY <1>a, <1>1, <1>5, <1>7
  <2> QED BY <1>t, <1>a, <1>6, <2>1 DEF AskFrame, TablesOK
<1>12. \A c \in CallsOf(s) : c \in writtenOff' \/ Paid(c, rows)
  <2>1. Uncharged(HeldOf(s), rows) \subseteq writtenOff'
    BY <1>a
  <2> QED BY <1>r, <1>2, <2>1, KnownPaid
<1>13. rows \in [Calls -> ImportRows]
  BY <1>r DEF RowsOK
<1> QED BY <1>a, <1>8, <1>9, <1>10, <1>11, <1>12, <1>13, TurnSettled

\* The calls of turns that are settled, or none, when what the rows do not have of them
\* is written off.
LEMMA SettledTurnsPaid ==
    ASSUME BudgetInv, NEW S \in SUBSET Subjects, NEW rows, RowsOK(rows), NEW C \in SUBSET Calls,
           Uncharged(C, rows) \subseteq writtenOff',
           \A c \in Calls : SubjectOf[c] \in S /\ reservation[SubjectOf[c]].state = "RESERVED" => c \in C
    PROVE  \A s \in S : reservation[s].state = "RESERVED" =>
               \A c \in CallsOf(s) : c \in writtenOff' \/ Paid(c, rows)
<1>1. \A c \in C : c \in writtenOff' \/ Paid(c, rows)
  BY RestWrittenOff
<1> QED BY <1>1 DEF CallsOf

LEMMA EndMissionKeeps ==
    ASSUME BudgetInv, EndMission
    PROVE  BudgetInv'
<1> DEFINE due == {s \in Started : intent[s].state = "VERIFYING" /\ ~HasUnknown(s, imported)}
           C == {c \in Calls : SubjectOf[c] \in due /\ reservation[SubjectOf[c]].state = "RESERVED"}
<1>t. TablesOK
  BY Tables
<1>a. /\ mission' = "ended" /\ Settle(due, imported)
      /\ writtenOff' = writtenOff \cup Uncharged(C, imported)
      /\ UNCHANGED <<lane, grant, invocation, leaseGone, calling, imported, cost>>
  BY DEF EndMission
<1>d. due \in SUBSET Subjects /\ C \in SUBSET Calls /\ RowsOK(imported)
  BY ImportedNow DEF Started
<1>c. \A c \in Calls : SubjectOf[c] \in due /\ reservation[SubjectOf[c]].state = "RESERVED" => c \in C
  OBVIOUS
<1> HIDE DEF due, C
<1>1. \A s \in Subjects : \E z \in {"never", "none", "STOPPED", "CLOSED"} :
          /\ intent'[s] = [intent[s] EXCEPT !.state = z]
          /\ z = intent[s].state \/ z \in {"STOPPED", "CLOSED"}
  <2>1. ASSUME NEW s \in Subjects
        PROVE  \E z \in {"never", "none", "STOPPED", "CLOSED"} :
                   /\ intent'[s] = [intent[s] EXCEPT !.state = z]
                   /\ z = intent[s].state \/ z \in {"STOPPED", "CLOSED"}
    <3> DEFINE e == intent[s].state
               y == CASE e \in {"SUBMITTED", "STOPPED"} -> "STOPPED"
                      [] e = "VERIFYING" -> "CLOSED"
                      [] OTHER -> e
    <3>1. intent'[s] = [intent[s] EXCEPT !.state = y]
      BY DEF EndMission
    <3>2. e \in {"never", "none", "SUBMITTED", "STOPPED", "VERIFYING", "CLOSED"}
      BY <1>t DEF TablesOK, IntentRows
    <3>3. y \in {"never", "none", "STOPPED", "CLOSED"} /\ (y = e \/ y \in {"STOPPED", "CLOSED"})
      BY <3>2
    <3> HIDE DEF y
    <3> QED BY <3>1, <3>3
  <2> QED BY <2>1
<1>2. /\ intent' \in [Subjects -> IntentRows]
      /\ \A r \in Subjects : \/ intent'[r] = intent[r]
                             \/ /\ intent'[r].state \notin {"none", "SUBMITTED"}
                                /\ intent'[r].executor = intent[r].executor
  <2>1. \A j \in IntentRows : \A z \in {"never", "none", "STOPPED", "CLOSED"} :
            LET k == [j EXCEPT !.state = z]
            IN  k \in IntentRows /\ k.state = z /\ k.executor = j.executor /\ (z = j.state => k = j)
    BY DEF IntentRows
  <2>2. \A r \in Subjects : intent[r] \in IntentRows
    BY <1>t DEF TablesOK
  <2>3. ASSUME NEW r \in Subjects
        PROVE  /\ intent'[r] \in IntentRows
               /\ \/ intent'[r] = intent[r]
                  \/ /\ intent'[r].state \notin {"none", "SUBMITTED"}
                     /\ intent'[r].executor = intent[r].executor
    <3>1. PICK z \in {"never", "none", "STOPPED", "CLOSED"} :
              /\ intent'[r] = [intent[r] EXCEPT !.state = z]
              /\ z = intent[r].state \/ z \in {"STOPPED", "CLOSED"}
      BY <1>1
    <3>2. LET k == [intent[r] EXCEPT !.state = z]
          IN  /\ k \in IntentRows /\ k.state = z /\ k.executor = intent[r].executor
              /\ z = intent[r].state => k = intent[r]
      BY <2>1, <2>2
    <3> QED BY <3>1, <3>2
  <2>4. DOMAIN intent' = Subjects /\ intent' = [r \in Subjects |-> intent'[r]]
    BY DEF EndMission
  <2> QED BY <2>3, <2>4
<1>3. writtenOff \subseteq writtenOff' /\ writtenOff' \subseteq Calls
  BY <1>t, <1>a, <1>d DEF TablesOK, Uncharged
<1>4. TablesOK'
  BY <1>t, <1>a, <1>2, <1>3 DEF TablesOK
<1>5. GrantFrame
  BY <1>a, <1>3, GrantsStay
<1>6. RecordFrame
  BY <1>a DEF RecordFrame, ImportedAs
<1>7. AskFrame
  BY <1>a, <1>2 DEF AskFrame
<1>8. \A s \in due : reservation[s].state = "RESERVED" =>
          \A c \in CallsOf(s) : c \in writtenOff' \/ Paid(c, imported)
  <2>1. Uncharged(C, imported) \subseteq writtenOff'
    BY <1>a
  <2> QED BY <1>c, <1>d, <2>1, SettledTurnsPaid
<1>9. imported \in [Calls -> ImportRows]
  BY <1>d DEF RowsOK
<1> QED BY <1>a, <1>d, <1>4, <1>5, <1>6, <1>7, <1>8, <1>9, SettlingStep

LEMMA EndHierarchicalKeeps ==
    ASSUME BudgetInv, NEW n \in 1..5, EndHierarchical(n)
    PROVE  BudgetInv'
<1> DEFINE rows == ImportUsage(Subjects)
           paid == IF n >= 3 THEN {s \in Started : reservation[s].state = "RESERVED"} ELSE {}
           C == {c \in Calls : \/ n >= 2 /\ grant[c].state \in Held
                               \/ SubjectOf[c] \in paid}
           cut == n < 5
<1>t. TablesOK
  BY Tables
<1>r. RowsOK(rows)
  BY ImportedUsage
<1>a. /\ imported' = rows /\ Settle(paid, rows) /\ CutOff(cut)
      /\ IF n >= 2 THEN Release(Subjects) ELSE UNCHANGED grant
      /\ writtenOff' = writtenOff \cup Uncharged(C, rows)
      /\ mission' = IF n = 5 THEN "ended" ELSE mission
      /\ UNCHANGED <<lane, invocation, leaseGone, cost>>
      /\ cut \in BOOLEAN /\ (cut \/ mission' = "ended")
  BY DEF EndHierarchical
<1>d. paid \in SUBSET Subjects /\ C \in SUBSET Calls
  BY DEF Started
<1>c. /\ \A c \in Calls : SubjectOf[c] \in paid /\ reservation[SubjectOf[c]].state = "RESERVED" => c \in C
      /\ n >= 2 => \A c \in Calls : grant[c].state \in Held => c \in C
  OBVIOUS
<1> HIDE DEF rows, paid, C, cut
<1>1. /\ calling' \in [Calls -> {"no", "asking", "admitted", "sent", "answered"}]
      /\ \A c \in Calls : calling'[c] \in {calling[c], "no"}
      /\ cut => \A c \in Calls : calling'[c] = "no"
  BY <1>a, CutOffCalls
<1>2. writtenOff \subseteq writtenOff' /\ writtenOff' \subseteq Calls
  BY <1>t, <1>a, <1>d DEF TablesOK, Uncharged
<1>3. RecordFrame /\ imported' \in [Calls -> ImportRows]
  BY <1>r, <1>a, <1>1, ImportFrame
<1>4. /\ grant' \in [Calls -> GrantRows]
      /\ \A c \in Calls : Becomes(c, grant'[c], writtenOff')
  <2>1. CASE n >= 2
    <3>1. \A c \in Calls : SubjectOf[c] \in Subjects /\ grant[c].state \in Held
              /\ invocation[c].state # "claimed" /\ rows[c].tokens = 0 => c \in writtenOff'
      BY <1>a, <1>c, <2>1 DEF Uncharged
    <3>2. Release(Subjects)
      BY <1>a, <2>1
    <3> QED BY <1>r, <3>1, <3>2, ReleasedGrants
  <2>2. CASE ~(n >= 2)
    BY <1>t, <1>a, <2>2 DEF TablesOK, Becomes
  <2> QED BY <2>1, <2>2
<1>5. /\ intent' \in [Subjects -> IntentRows]
      /\ \A r \in Subjects : \/ intent'[r] = intent[r]
                             \/ /\ intent'[r].state \notin {"none", "SUBMITTED"}
                                /\ intent'[r].executor = intent[r].executor
  <2>1. \A j \in IntentRows : LET k == [j EXCEPT !.state = "CLOSED"]
                              IN  k \in IntentRows /\ k.state = "CLOSED" /\ k.executor = j.executor
    BY DEF IntentRows
  <2>2. \A r \in Subjects : intent[r] \in IntentRows
    BY <1>t DEF TablesOK
  <2>3. /\ intent' = [r \in Subjects |-> intent'[r]]
        /\ \A r \in Subjects : intent'[r] \in {intent[r], [intent[r] EXCEPT !.state = "CLOSED"]}
    BY DEF EndHierarchical
  <2> QED BY <2>1, <2>2, <2>3
<1>6. TablesOK'
  BY <1>t, <1>a, <1>1, <1>2, <1>3, <1>4, <1>5 DEF TablesOK
<1>7. GrantFrame
  BY <1>a, <1>2, <1>4 DEF GrantFrame
<1>8. AskFrame
  BY <1>t, <1>a, <1>1, <1>5 DEF AskFrame, TablesOK
<1>9. \A s \in paid : reservation[s].state = "RESERVED" =>
          \A c \in CallsOf(s) : c \in writtenOff' \/ Paid(c, rows)
  <2>1. Uncharged(C, rows) \subseteq writtenOff'
    BY <1>a
  <2> QED BY <1>c, <1>d, <1>r, <2>1, SettledTurnsPaid
<1>10. rows \in [Calls -> ImportRows]
  BY <1>r DEF RowsOK
<1> QED BY <1>a, <1>d, <1>3, <1>6, <1>7, <1>8, <1>9, <1>10, SettlingStep


-----------------------------------------------------------------------------
(* The steps of a call.                                                    *)

\* RecordsAgree and UnreportedIsHeld of one call.
RecordOf(c) ==
    /\ ~Sent(c) => cost[c] = 0
    /\ invocation[c].usage \in Reports(c)
    /\ invocation[c].usage # {} => invocation[c].state = "ended"
    /\ IF imported[c].row = "known"
       THEN invocation[c] = [state |-> "ended", usage |-> {imported[c].tokens}]
       ELSE imported[c].tokens = 0
    /\ calling[c] \in {"asking", "admitted"} => invocation[c].state = "claimed"
    /\ calling[c] = "sent" => invocation[c].state = "handed_off"

HoldingOf(c) ==
    /\ Sent(c) => grant[c].state # "none"
    /\ Sent(c) /\ ~Reported(c) /\ c \notin writtenOff => grant[c].state \in Held
    /\ invocation[c].state \in {"handed_off", "unknown"} /\ c \notin writtenOff =>
          reservation[SubjectOf[c]].state = "RESERVED"
    /\ grant[c].state \in Held \cup {"none", "RELEASED"} => grant[c].actual = 0
    /\ grant[c].state \in {"SETTLED", "OVERRUN"} => Reported(c) /\ grant[c].actual = cost[c]

LEMMA ByCall ==
    /\ RecordsAgree <=> \A c \in Calls : RecordOf(c)
    /\ UnreportedIsHeld <=> \A c \in Calls : HoldingOf(c)
BY DEF RecordsAgree, UnreportedIsHeld, RecordOf, HoldingOf

LEMMA ByCallThen ==
    /\ (\A c \in Calls : RecordOf(c)') => RecordsAgree'
    /\ (\A c \in Calls : HoldingOf(c)') => UnreportedIsHeld'
BY DEF RecordsAgree, UnreportedIsHeld, RecordOf, HoldingOf

LEMMA KnownHasEnded ==
    ASSUME BudgetInv, NEW c \in Calls, imported[c].row = "known"
    PROVE  invocation[c].state = "ended" /\ invocation[c].usage # {}
<1>1. invocation[c] = [state |-> "ended", usage |-> {imported[c].tokens}]
  BY Tables DEF RecordsAgree
<1> QED BY <1>1

LEMMA AskKeeps ==
    ASSUME BudgetInv, NEW c \in Calls, Ask(c)
    PROVE  BudgetInv'
<1>t. TablesOK /\ BudgetTypeOK /\ RecordsAgree
  BY Tables
<1>1. /\ grant' \in [Calls -> GrantRows] /\ writtenOff' \subseteq Calls /\ GrantFrame
      /\ \A d \in Calls : ~(grant'[d].state = "RELEASED" /\ Reported(d))
  BY RecoveredAll DEF Ask
<1>2. /\ calling' = [calling EXCEPT ![c] = "asking"]
      /\ calling' \in [Calls -> {"no", "asking", "admitted", "sent", "answered"}]
      /\ \A d \in Calls : d # c => calling'[d] = calling[d]
      /\ UNCHANGED <<lane, mission, account, reservation, intent, invocation, leaseGone, imported, cost>>
      /\ invocation[c].state = "claimed" /\ Authority(c)
  BY <1>t DEF Ask, RecoverGrants, TablesOK
<1>3. BudgetTypeOK'
  BY <1>t, <1>1, <1>2 DEF BudgetTypeOK, GrantRows
<1>4. AskFrame
  BY <1>t, <1>1, <1>2 DEF AskFrame, TablesOK
<1>5. UnreportedIsHeld' /\ FreshTurns' /\ ReservationsCover' /\ AccountsCover'
  <2>1. imported \in [Calls -> ImportRows] /\ {} \in SUBSET Subjects
    BY <1>t DEF TablesOK
  <2> QED BY <1>1, <1>2, <1>3, <1>4, <2>1, BooksKept
<1>6. RecordsAgree'
  <2>1. \A d \in Calls : (Sent(d)' <=> Sent(d)) /\ Reports(d)' = Reports(d)
    BY <1>2 DEF Sent, Reports
  <2>2. calling'[c] = "asking"
    BY <1>t, <1>2 DEF TablesOK
  <2> QED BY <1>t, <1>2, <2>1, <2>2 DEF RecordsAgree
<1>7. AskersSeeAll'
  <2>1. ASSUME NEW d \in Calls, calling'[d] = "asking"
        PROVE  intent[SubjectOf[d]].state # "none" /\ ExecutorOf[d] <= intent[SubjectOf[d]].executor
    <3>1. CASE d = c
      <4>1. ExecutorOf[c] \in {0, 1}
        BY BudgetConstants
      <4> QED BY <1>2, <3>1, <4>1 DEF Authority
    <3>2. CASE d # c
      BY <1>2, <2>1, <3>2 DEF BudgetInv, AskersSeeAll
    <3> QED BY <3>1, <3>2
  <2>2. \A d \in Calls : Reported(d)' <=> Reported(d)
    BY <1>2 DEF Reported
  <2> QED BY <1>1, <1>2, <2>1, <2>2 DEF AskersSeeAll, CallsOf
<1> QED BY <1>3, <1>5, <1>6, <1>7 DEF BudgetInv

\* The books stand when claims and charges do.
LEMMA SameBooks ==
    ASSUME BudgetInv, BudgetTypeOK', UNCHANGED <<account, reservation>>,
           \A c \in Calls : Claim(c)' <= Claim(c),
           \A c \in Calls : reservation[SubjectOf[c]].state # "RESERVED" => Charges'[c] <= Charges[c]
    PROVE  ReservationsCover' /\ AccountsCover'
<1>1. imported \in [Calls -> ImportRows] /\ {} \in SUBSET Subjects
  BY Tables DEF TablesOK
<1> QED BY <1>1, SettlementCovers

\* handoff, and its torn form.
LEMMA HandoffKeeps ==
    ASSUME BudgetInv, NEW c \in Calls, NEW torn \in BOOLEAN, Handoff(c, torn)
    PROVE  BudgetInv'
<1>t. TablesOK /\ BudgetTypeOK /\ \A d \in Calls : RecordOf(d) /\ HoldingOf(d)
  BY Tables, ByCall
<1>a. /\ calling[c] = "admitted" /\ grant[c].state = "RESERVED" /\ Authority(c)
      /\ invocation' = [invocation EXCEPT ![c].state = "handed_off"]
      /\ UNCHANGED <<lane, mission, account, reservation, intent, leaseGone, imported, cost, writtenOff>>
  BY DEF Handoff
<1>1. /\ calling' \in [Calls -> {"no", "asking", "admitted", "sent", "answered"}]
      /\ \A d \in Calls : d # c => calling'[d] \in {calling[d], "no"}
      /\ calling'[c] \in {"no", "sent"}
  BY <1>t DEF Handoff, TablesOK
<1>2. /\ invocation[c].state = "claimed" /\ invocation[c].usage = {} /\ imported[c].row # "known"
      /\ grant[c].actual = 0
  <2>1. invocation[c].state = "claimed" /\ invocation[c].usage = {}
    BY <1>t, <1>a DEF RecordOf
  <2>2. imported[c].row # "known"
    BY <2>1, KnownHasEnded
  <2>3. grant[c].actual = 0
    BY <1>t, <1>a DEF HoldingOf, Held
  <2> QED BY <2>1, <2>2, <2>3
<1>3. /\ invocation' \in [Calls -> InvocationRows]
      /\ invocation'[c] = [state |-> "handed_off", usage |-> {}]
      /\ \A d \in Calls : d # c => invocation'[d] = invocation[d]
  <2>1. invocation \in [Calls -> InvocationRows]
    BY <1>t DEF BudgetTypeOK, InvocationRows
  <2>2. [invocation[c] EXCEPT !.state = "handed_off"] = [state |-> "handed_off", usage |-> {}]
    BY <1>2, <2>1 DEF InvocationRows
  <2>3. [state |-> "handed_off", usage |-> {}] \in InvocationRows
    BY DEF InvocationRows
  <2>4. invocation' = [invocation EXCEPT ![c] = [state |-> "handed_off", usage |-> {}]]
    BY <1>a, <2>2
  <2> QED BY <2>1, <2>3, <2>4
<1>4. /\ grant' \in [Calls -> GrantRows]
      /\ grant'[c].state \in {"RESERVED", "HANDED_OFF"} /\ grant'[c].actual = 0
      /\ \A d \in Calls : d # c => grant'[d] = grant[d]
  <2>1. LET h == [grant[c] EXCEPT !.state = "HANDED_OFF"]
        IN  h \in GrantRows /\ h.state = "HANDED_OFF" /\ h.actual = grant[c].actual
    BY <1>t DEF TablesOK, GrantRows, Held
  <2>2. grant' = grant \/ grant' = [grant EXCEPT ![c] = [grant[c] EXCEPT !.state = "HANDED_OFF"]]
    BY DEF Handoff
  <2> QED BY <1>t, <1>a, <1>2, <2>1, <2>2 DEF TablesOK
<1>5. BudgetTypeOK'
  BY <1>t, <1>a, <1>1, <1>3, <1>4 DEF BudgetTypeOK, InvocationRows, GrantRows
<1>6. /\ Sent(c)' /\ ~Reported(c)' /\ ~Sent(c) /\ ~Reported(c)
      /\ \A d \in Calls : d # c => (Sent(d)' <=> Sent(d)) /\ (Reported(d)' <=> Reported(d))
      /\ \A d \in Calls : Reports(d)' = Reports(d)
  BY <1>a, <1>2, <1>3 DEF Sent, Reported, Reports
<1>7. RecordsAgree'
  <2>1. \A d \in Calls : d # c => RecordOf(d)'
    BY <1>t, <1>a, <1>1, <1>3, <1>6 DEF RecordOf
  <2>2. imported'[c].tokens = 0 /\ imported'[c].row # "known"
    BY <1>t, <1>a, <1>2 DEF RecordOf
  <2>3. {} \in Reports(c)'
    BY DEF Reports
  <2>4. RecordOf(c)'
    BY <1>1, <1>3, <1>6, <2>2, <2>3 DEF RecordOf
  <2> QED BY <2>1, <2>4, ByCallThen
<1>8. UnreportedIsHeld'
  <2>1. reservation'[SubjectOf[c]].state = "RESERVED"
    BY <1>a DEF Authority
  <2>2. \A d \in Calls : d # c => HoldingOf(d)'
    BY <1>t, <1>a, <1>3, <1>4, <1>6 DEF HoldingOf
  <2>3. HoldingOf(c)'
    BY <1>4, <2>1 DEF HoldingOf, Held
  <2> QED BY <2>2, <2>3, ByCallThen
<1>9. AskersSeeAll'
  <2>1. \A d \in Calls : (grant'[d].state = "RELEASED" /\ Reported(d)') => (grant[d].state = "RELEASED" /\ Reported(d))
    BY <1>4, <1>6
  <2>2. \A d \in Calls : calling'[d] = "asking" => calling[d] = "asking"
    BY <1>1
  <2>3. AskersSeeAll
    BY DEF BudgetInv
  <2> QED BY <1>a, <2>1, <2>2, <2>3 DEF AskersSeeAll, CallsOf
<1>10. FreshTurns'
  <2>1. FreshTurns /\ \A d \in Calls : grant[d].state = "none" => grant'[d].state = "none"
    BY <1>a, <1>4 DEF BudgetInv
  <2> QED BY <1>a, <2>1 DEF FreshTurns, CallsOf
<1>11. ReservationsCover' /\ AccountsCover'
  <2>1. AmountsOK
    BY <1>t, Amounts
  <2>2. \A d \in Calls : Claim(d)' = Claim(d)
    BY <1>a, <1>4 DEF Claim, LeastOf, Held
  <2>3. Charges' = Charges
    BY <1>a DEF Charges, LeastOf
  <2> QED BY <1>a, <1>5, <2>1, <2>2, <2>3, SameBooks DEF AmountsOK
<1> QED BY <1>5, <1>7, <1>8, <1>9, <1>10, <1>11 DEF BudgetInv

\* What the SDK learns of a call that was sent and not reported.
LEMMA RecordChanges ==
    ASSUME BudgetInv, NEW c \in Calls, NEW v \in InvocationRows,
           invocation' = [invocation EXCEPT ![c] = v],
           Sent(c), ~Reported(c), imported[c].row # "known",
           v.usage \in Reports(c), v.usage # {} => v.state = "ended",
           v.state = "not_started" => cost[c] = 0,
           v.state = "unknown" => invocation[c].state \in {"handed_off", "unknown"},
           v.state \in {"unknown", "ended", "not_started"},
           calling' \in [Calls -> {"no", "asking", "admitted", "sent", "answered"}],
           \A d \in Calls : d # c => calling'[d] = calling[d],
           calling'[c] \in {"no", "answered"},
           UNCHANGED <<lane, mission, account, reservation, intent, grant, leaseGone, imported, cost,
                       writtenOff>>
    PROVE  BudgetInv'
<1>t. TablesOK /\ BudgetTypeOK /\ \A d \in Calls : RecordOf(d) /\ HoldingOf(d)
  BY Tables, ByCall
<1>1. /\ invocation' \in [Calls -> InvocationRows] /\ invocation'[c] = v
      /\ \A d \in Calls : d # c => invocation'[d] = invocation[d]
  BY <1>t DEF BudgetTypeOK, InvocationRows
<1>2. BudgetTypeOK'
  BY <1>t, <1>1 DEF BudgetTypeOK, InvocationRows
<1>3. /\ v.state # "not_started" => Sent(c)'
      /\ \A d \in Calls : d # c => (Sent(d)' <=> Sent(d)) /\ (Reported(d)' <=> Reported(d))
      /\ \A d \in Calls : Reports(d)' = Reports(d)
  BY <1>1 DEF Sent, Reported, Reports
<1>4. RecordsAgree'
  <2>1. \A d \in Calls : d # c => RecordOf(d)'
    BY <1>t, <1>1, <1>3 DEF RecordOf
  <2>2. imported'[c].tokens = 0 /\ imported'[c].row # "known"
    BY <1>t DEF RecordOf
  <2>3. RecordOf(c)'
    BY <1>1, <1>3, <2>2 DEF RecordOf
  <2> QED BY <2>1, <2>3, ByCallThen
<1>5. UnreportedIsHeld'
  <2>1. \A d \in Calls : d # c => HoldingOf(d)'
    BY <1>t, <1>1, <1>3 DEF HoldingOf
  <2>2. HoldingOf(c)'
    BY <1>t, <1>1 DEF HoldingOf
  <2> QED BY <2>1, <2>2, ByCallThen
<1>6. AskersSeeAll'
  <2>1. grant[c].state = "RELEASED" => c \in writtenOff
    BY <1>t DEF HoldingOf, Held
  <2>2. \A d \in Calls : calling'[d] = "asking" => calling[d] = "asking"
    BY <1>1
  <2>3. AskersSeeAll
    BY DEF BudgetInv
  <2>4. \A d \in Calls : (grant'[d].state = "RELEASED" /\ Reported(d)') =>
            (grant[d].state = "RELEASED" /\ Reported(d)) \/ d \in writtenOff'
    BY <1>3, <2>1
  <2> QED BY <2>2, <2>3, <2>4 DEF AskersSeeAll, CallsOf
<1>7. FreshTurns'
  BY DEF BudgetInv, FreshTurns, CallsOf
<1>8. ReservationsCover' /\ AccountsCover'
  <2>1. AmountsOK
    BY <1>t, Amounts
  <2>2. \A d \in Calls : Claim(d)' = Claim(d)
    BY DEF Claim, LeastOf
  <2>3. Charges' = Charges
    BY DEF Charges, LeastOf
  <2> QED BY <1>2, <2>1, <2>2, <2>3, SameBooks DEF AmountsOK
<1> QED BY <1>2, <1>4, <1>5, <1>6, <1>7, <1>8 DEF BudgetInv

LEMMA AnswerKeeps ==
    ASSUME BudgetInv, NEW c \in Calls, Answer(c)
    PROVE  BudgetInv'
<1>t. TablesOK /\ BudgetTypeOK /\ \A d \in Calls : RecordOf(d) /\ HoldingOf(d)
  BY Tables, ByCall
<1>1. /\ calling' \in [Calls -> {"no", "asking", "admitted", "sent", "answered"}]
      /\ \A d \in Calls : d # c => calling'[d] = calling[d]
      /\ calling'[c] \in {"no", "answered"}
      /\ UNCHANGED <<lane, mission, account, reservation, intent, grant, leaseGone, imported, cost,
                     writtenOff>>
  BY <1>t DEF Answer, TablesOK
<1>2. invocation[c].state = "handed_off" /\ invocation[c].usage = {} /\ cost[c] \in Nat
  BY <1>t DEF Answer, RecordOf, BudgetTypeOK
<1>3. Sent(c) /\ ~Reported(c) /\ imported[c].row # "known"
  BY <1>2, KnownHasEnded DEF Sent, Reported
<1>4. PICK v \in InvocationRows :
          /\ invocation' = [invocation EXCEPT ![c] = v]
          /\ v.state \in {"unknown", "ended"} /\ v.usage \in Reports(c)
          /\ v.usage # {} => v.state = "ended"
  <2>1. CASE invocation' = [invocation EXCEPT ![c].state = "unknown"]
    <3>1. [invocation[c] EXCEPT !.state = "unknown"] = [state |-> "unknown", usage |-> {}]
      <4>1. invocation[c] \in InvocationRows
        BY <1>t DEF BudgetTypeOK, InvocationRows
      <4> QED BY <1>2, <4>1 DEF InvocationRows
    <3>2. [state |-> "unknown", usage |-> {}] \in InvocationRows /\ {} \in Reports(c)
      BY DEF InvocationRows, Reports
    <3>3. invocation' = [invocation EXCEPT ![c] = [state |-> "unknown", usage |-> {}]]
      BY <2>1, <3>1
    <3> QED BY <3>2, <3>3
  <2>2. CASE \E u \in Reports(c) :
                invocation' = [invocation EXCEPT ![c] = [state |-> "ended", usage |-> u]]
    <3>1. PICK u \in Reports(c) : invocation' = [invocation EXCEPT ![c] = [state |-> "ended", usage |-> u]]
      BY <2>2
    <3>2. [state |-> "ended", usage |-> u] \in InvocationRows
      BY <1>2 DEF InvocationRows, Reports
    <3> QED BY <3>1, <3>2
  <2> QED BY <2>1, <2>2 DEF Answer
<1> QED BY <1>1, <1>2, <1>3, <1>4, RecordChanges

LEMMA SdkResolvesKeeps ==
    ASSUME BudgetInv, NEW c \in Calls, SdkResolves(c)
    PROVE  BudgetInv'
<1>t. TablesOK /\ BudgetTypeOK /\ \A d \in Calls : RecordOf(d) /\ HoldingOf(d)
  BY Tables, ByCall
<1>1. /\ calling' \in [Calls -> {"no", "asking", "admitted", "sent", "answered"}]
      /\ \A d \in Calls : d # c => calling'[d] = calling[d]
      /\ calling'[c] \in {"no", "answered"}
      /\ UNCHANGED <<lane, mission, account, reservation, intent, grant, leaseGone, imported, cost,
                     writtenOff>>
  BY <1>t DEF SdkResolves, TablesOK
<1>2. invocation[c] \in InvocationRows /\ cost[c] \in Nat
  BY <1>t DEF BudgetTypeOK, InvocationRows
<1>3. invocation[c].state \in {"handed_off", "unknown", "ended"} /\ invocation[c].usage = {}
  <2>1. invocation[c].usage # {} => invocation[c].state = "ended"
    BY <1>t DEF RecordOf
  <2>2. \/ invocation[c].state \in {"handed_off", "unknown"}
        \/ invocation[c] = [state |-> "ended", usage |-> {}]
    BY DEF SdkResolves
  <2> QED BY <2>1, <2>2
<1>4. Sent(c) /\ ~Reported(c) /\ imported[c].row # "known"
  BY <1>3, KnownHasEnded DEF Sent, Reported
<1>5. PICK v \in InvocationRows :
          /\ invocation' = [invocation EXCEPT ![c] = v]
          /\ v.state \in {"unknown", "ended", "not_started"} /\ v.usage \in Reports(c)
          /\ v.usage # {} => v.state = "ended"
          /\ v.state = "not_started" => cost[c] = 0
          /\ v.state = "unknown" => invocation[c].state \in {"handed_off", "unknown"}
  <2>0. \A z \in {"unknown", "not_started"} :
            /\ [invocation[c] EXCEPT !.state = z] = [state |-> z, usage |-> {}]
            /\ [state |-> z, usage |-> {}] \in InvocationRows
    BY <1>2, <1>3 DEF InvocationRows
  <2>r. {} \in Reports(c) /\ (cost[c] > 0 => {cost[c]} \in Reports(c))
        /\ \A u \in Reports(c) : [state |-> "ended", usage |-> u] \in InvocationRows
    BY <1>2 DEF Reports, InvocationRows
  <2>1. CASE /\ invocation[c].state = "handed_off"
             /\ invocation' = [invocation EXCEPT ![c].state = "unknown"]
    <3>1. invocation' = [invocation EXCEPT ![c] = [state |-> "unknown", usage |-> {}]]
      BY <2>0, <2>1
    <3> QED BY <2>0, <2>1, <2>r, <3>1
  <2>2. CASE \E u \in Reports(c) :
                invocation' = [invocation EXCEPT ![c] = [state |-> "ended", usage |-> u]]
    <3>1. PICK u \in Reports(c) : invocation' = [invocation EXCEPT ![c] = [state |-> "ended", usage |-> u]]
      BY <2>2
    <3> QED BY <2>r, <3>1
  <2>3. CASE cost[c] = 0 /\ invocation' = [invocation EXCEPT ![c].state = "not_started"]
    <3>1. invocation' = [invocation EXCEPT ![c] = [state |-> "not_started", usage |-> {}]]
      BY <2>0, <2>3
    <3> QED BY <2>0, <2>3, <2>r, <3>1
  <2>4. CASE /\ invocation[c] = [state |-> "ended", usage |-> {}] /\ cost[c] > 0
             /\ invocation' = [invocation EXCEPT ![c].usage = {cost[c]}]
    <3>1. [invocation[c] EXCEPT !.usage = {cost[c]}] = [state |-> "ended", usage |-> {cost[c]}]
      BY <2>4
    <3>2. invocation' = [invocation EXCEPT ![c] = [state |-> "ended", usage |-> {cost[c]}]]
      BY <2>4, <3>1
    <3> QED BY <2>4, <2>r, <3>2
  <2> QED BY <2>1, <2>2, <2>3, <2>4 DEF SdkResolves
<1> QED BY <1>1, <1>4, <1>5, RecordChanges

\* A call costs what its grant allows for, as long as it is not written off.
LEMMA ServeKeeps ==
    ASSUME BudgetInv, NEW c \in Calls, Serve(c)
    PROVE  BudgetInv'
<1>t. TablesOK /\ BudgetTypeOK /\ \A d \in Calls : RecordOf(d) /\ HoldingOf(d)
  BY Tables, ByCall
<1>1. PICK n \in Costs : cost' = [cost EXCEPT ![c] = n]
  BY DEF Serve
<1>2. /\ UNCHANGED <<lane, mission, account, reservation, intent, grant, invocation, leaseGone,
                     calling, imported, writtenOff>>
      /\ invocation[c].state \in {"handed_off", "unknown"}
  BY DEF Serve
<1>3. /\ cost' \in [Calls -> Nat] /\ \A d \in Calls : d # c => cost'[d] = cost[d]
  BY <1>t, <1>1, BudgetConstants DEF BudgetTypeOK
<1>4. BudgetTypeOK'
  BY <1>t, <1>2, <1>3 DEF BudgetTypeOK
<1>5. /\ \A d \in Calls : (Sent(d)' <=> Sent(d)) /\ (Reported(d)' <=> Reported(d))
      /\ \A d \in Calls : d # c => Reports(d)' = Reports(d)
      /\ Sent(c) /\ ~Reported(c) /\ invocation[c].usage = {}
  BY <1>t, <1>2, <1>3 DEF Sent, Reported, Reports, RecordOf
<1>6. RecordsAgree'
  <2>1. \A d \in Calls : d # c => RecordOf(d)'
    BY <1>t, <1>2, <1>3, <1>5 DEF RecordOf
  <2>2. {} \in Reports(c)'
    BY DEF Reports
  <2>3. RecordOf(c)'
    BY <1>t, <1>2, <1>5, <2>2 DEF RecordOf
  <2> QED BY <2>1, <2>3, ByCallThen
<1>7. UnreportedIsHeld'
  <2>1. \A d \in Calls : HoldingOf(d)'
    BY <1>t, <1>2, <1>3, <1>5 DEF HoldingOf
  <2> QED BY <2>1, ByCallThen
<1>8. AskersSeeAll' /\ FreshTurns'
  BY <1>2, <1>5 DEF BudgetInv, AskersSeeAll, FreshTurns, CallsOf
<1>9. ReservationsCover' /\ AccountsCover'
  <2>1. AmountsOK /\ AmountsOK'
    BY <1>t, <1>4, Amounts, AmountsThen
  <2>2. c \notin writtenOff => grant[c].state \in Held /\ reservation[SubjectOf[c]].state = "RESERVED"
    BY <1>t, <1>2, <1>5 DEF HoldingOf
  <2>3. \A d \in Calls : Claim(d)' = Claim(d)
    BY <1>2, <1>3, <2>2 DEF Claim, LeastOf, Held
  <2>4. \A d \in Calls : reservation[SubjectOf[d]].state # "RESERVED" => Charges'[d] = Charges[d]
    BY <1>2, <1>3, <2>2 DEF Charges, LeastOf
  <2> QED BY <1>2, <1>4, <2>1, <2>3, <2>4, SameBooks DEF AmountsOK
<1> QED BY <1>4, <1>6, <1>7, <1>8, <1>9 DEF BudgetInv

\* _apply keeps the books numbers.
LEMMA ReservedBooks ==
    ASSUME BudgetInv, NEW s \in Subjects, NEW n \in Nat, Reserve(s, n)
    PROVE  /\ account' \in [Accounts -> [reserved : Int, settled : Int]]
           /\ reservation' \in [Subjects -> ReservationRows]
           /\ reservation'[s].state = "RESERVED"
           /\ \A r \in Subjects : r # s => reservation'[r] = reservation[r]
<1>1. /\ account \in [Accounts -> [reserved : Int, settled : Int]]
      /\ reservation \in [Subjects -> ReservationRows]
  BY DEF BudgetInv, BudgetTypeOK, ReservationRows
<1>2. account' \in [Accounts -> [reserved : Int, settled : Int]]
  <2>1. \A a \in Accounts : [account[a] EXCEPT !.reserved = @ + n] \in [reserved : Int, settled : Int]
    BY <1>1
  <2> QED BY <1>1, <2>1 DEF Reserve
<1>3. [state |-> "RESERVED", tokens |-> reservation[s].tokens + n] \in ReservationRows
  BY <1>1 DEF ReservationRows
<1> QED BY <1>1, <1>2, <1>3 DEF Reserve

LEMMA CreateIntentKeeps ==
    ASSUME BudgetInv, NEW s \in Subjects, CreateIntent(s)
    PROVE  BudgetInv'
<1>t. TablesOK /\ BudgetTypeOK /\ \A d \in Calls : RecordOf(d) /\ HoldingOf(d)
  BY Tables, ByCall
<1>f. FreshTurns /\ AskersSeeAll
  BY DEF BudgetInv
<1>a. /\ intent[s].state = "none" /\ Reserve(s, Initial)
      /\ UNCHANGED <<lane, mission, grant, invocation, leaseGone, calling, imported, cost, writtenOff>>
  BY DEF CreateIntent
<1>1. /\ reservation[s].state = "none" /\ reservation[s].tokens = 0
      /\ \A c \in CallsOf(s) : grant[c].state = "none"
  BY <1>f, <1>a DEF FreshTurns
<1>2. /\ account' \in [Accounts -> [reserved : Int, settled : Int]]
      /\ reservation' \in [Subjects -> ReservationRows]
      /\ reservation'[s].state = "RESERVED"
      /\ \A r \in Subjects : r # s => reservation'[r] = reservation[r]
  BY <1>a, BudgetConstants, ReservedBooks
<1>3. /\ intent' \in [Subjects -> IntentRows] /\ intent'[s].state = "SUBMITTED"
      /\ \A r \in Subjects : r # s => intent'[r] = intent[r]
  <2>1. LET j == [intent[s] EXCEPT !.state = "SUBMITTED"] IN j \in IntentRows /\ j.state = "SUBMITTED"
    BY <1>t DEF TablesOK, IntentRows
  <2>2. intent' = [intent EXCEPT ![s] = [intent[s] EXCEPT !.state = "SUBMITTED"]]
    BY DEF CreateIntent
  <2> QED BY <1>t, <2>1, <2>2 DEF TablesOK
<1>4. BudgetTypeOK'
  BY <1>t, <1>a, <1>2, <1>3 DEF BudgetTypeOK, IntentRows, ReservationRows
<1>5. \A d \in Calls : /\ (Sent(d)' <=> Sent(d)) /\ (Reported(d)' <=> Reported(d))
                       /\ Reports(d)' = Reports(d)
  BY <1>a DEF Sent, Reported, Reports
<1>6. RecordsAgree'
  <2>1. \A d \in Calls : RecordOf(d)'
    BY <1>t, <1>a, <1>5 DEF RecordOf
  <2> QED BY <2>1, ByCallThen
<1>7. UnreportedIsHeld'
  <2>1. \A d \in Calls : SubjectOf[d] \in Subjects
    BY BudgetConstants
  <2>2. \A d \in Calls : HoldingOf(d)'
    BY <1>t, <1>a, <1>2, <1>5, <2>1 DEF HoldingOf
  <2> QED BY <2>2, ByCallThen
<1>8. AskersSeeAll'
  <2>1. \A d \in Calls : calling'[d] = "asking" =>
            SubjectOf[d] \in Subjects /\ SubjectOf[d] # s /\ intent'[SubjectOf[d]] = intent[SubjectOf[d]]
    BY <1>f, <1>a, <1>3, BudgetConstants DEF AskersSeeAll
  <2> QED BY <1>f, <1>a, <1>5, <2>1 DEF AskersSeeAll, CallsOf
<1>9. FreshTurns'
  BY <1>f, <1>a, <1>2, <1>3 DEF FreshTurns, CallsOf
<1>10. ReservationsCover' /\ AccountsCover'
  <2>1. AmountsOK'
    BY <1>4, AmountsThen
  <2>2. SumFunctionOnSet(Claims', CallsOf(s)) = 0
    <3>1. \A c \in CallsOf(s) : Claims'[c] = 0 /\ c \in Calls
      BY <1>a, <1>1, <2>1 DEF AmountsOK, Claim, CallsOf
    <3>2. IsFiniteSet(CallsOf(s))
      BY <2>1 DEF AmountsOK, CallsOf
    <3> QED BY <3>1, <3>2, SumZero
  <2>3. Initial \in Nat /\ SumFunctionOnSet(Claims', CallsOf(s)) <= reservation[s].tokens + Initial
    BY <1>1, <2>2, BudgetConstants
  <2>4. /\ \A c \in Calls : SubjectOf[c] # s => grant'[c] = grant[c]
        /\ reservation[s].state \in {"none", "RESERVED"} /\ UNCHANGED <<cost, writtenOff>>
    BY <1>a, <1>1
  <2> QED BY <1>a, <1>4, <2>3, <2>4, ReserveCovers
<1> QED BY <1>4, <1>6, <1>7, <1>8, <1>9, <1>10 DEF BudgetInv

\* What acquire adds up covers the claims of the turn with that of the new grant.
LEMMA AcquireCovers ==
    ASSUME BudgetInv, BudgetTypeOK', NEW c \in Calls, NEW s \in Subjects, s = SubjectOf[c], Acquire(c)
    PROVE  /\ Spent(s) \in Nat
           /\ SumFunctionOnSet(Claims', CallsOf(s)) <= Spent(s) + Upper
<1> DEFINE T == {d \in CallsOf(s) : grant[d].state \notin {"none", "RELEASED"}}
           F == [d \in Calls |-> IF grant[d].actual > 0 THEN grant[d].actual ELSE Upper]
           V == CallsOf(s) \ {c}
<1>t. BudgetTypeOK /\ TablesOK /\ \A d \in Calls : RecordOf(d) /\ HoldingOf(d)
  BY Tables, ByCall
<1>n. AmountsOK' /\ Upper \in Nat /\ c \in CallsOf(s)
  BY AmountsThen, BudgetConstants DEF CallsOf
<1>1. /\ \A d \in CallsOf(s) : d \in Calls /\ Claims'[d] \in Nat /\ Claims'[d] = Claim(d)'
      /\ IsFiniteSet(CallsOf(s))
  BY <1>n DEF AmountsOK, CallsOf
<1>2. \A d \in Calls : F[d] \in Nat
  BY <1>t, <1>n DEF BudgetTypeOK
<1>3. /\ grant[c].state \in {"none", "RELEASED"} /\ UNCHANGED <<cost, writtenOff>>
      /\ \A d \in Calls : d # c => grant'[d] = grant[d]
      /\ grant'[c].state = "RESERVED"
  BY <1>t DEF Acquire, TablesOK, GrantRows
<1>4. T \in SUBSET V /\ IsFiniteSet(V) /\ IsFiniteSet(T) /\ c \notin T
  <2>1. T \in SUBSET V /\ V \in SUBSET CallsOf(s) /\ c \notin T
    BY <1>3
  <2> QED BY <1>1, <2>1, FS_Subset
<1>5. Spent(s) = SumFunctionOnSet(F, T)
  BY DEF Spent
<1>s. Spent(s) \in Nat
  BY <1>1, <1>2, <1>4, <1>5, SumRemove
<1>6. Claims'[c] <= Upper
  BY <1>n, <1>1, <1>3 DEF Claim, Held
<1>7. \A d \in V \ T : Claims'[d] = 0
  <2>1. ASSUME NEW d \in V \ T PROVE Claims'[d] = 0
    <3>1. /\ d \in CallsOf(s) /\ d \in Calls /\ d # c /\ grant[d].state \in {"none", "RELEASED"}
          /\ Claims'[d] = Claim(d)' /\ grant'[d] = grant[d]
      BY <1>1, <1>3, <2>1
    <3>2. CASE grant[d].state = "none"
      BY <3>1, <3>2 DEF Claim
    <3>3. CASE grant[d].state = "RELEASED"
      <4>1. Reported(d) => d \in writtenOff
        BY <3>1, <3>3 DEF Acquire, Authority, BudgetInv, AskersSeeAll
      <4>2. d \notin writtenOff => cost[d] = 0
        BY <1>t, <3>1, <3>3, <4>1 DEF HoldingOf, RecordOf, Held
      <4>3. cost[d] = 0 => LeastOf(cost[d], Upper) = 0
        BY <1>n DEF LeastOf
      <4>4. Claim(d)' = IF d \in writtenOff THEN 0 ELSE LeastOf(cost[d], Upper)
        BY <1>3, <3>1, <3>3 DEF Claim, Held, LeastOf
      <4> QED BY <3>1, <4>2, <4>3, <4>4
    <3> QED BY <3>1, <3>2, <3>3
  <2> QED BY <2>1
<1>8. \A d \in T : Claims'[d] <= F[d]
  <2>1. ASSUME NEW d \in T PROVE Claims'[d] <= F[d]
    <3>1. /\ d \in Calls /\ d # c /\ Claims'[d] = Claim(d)' /\ grant'[d] = grant[d]
          /\ grant[d].state \in Held \cup {"SETTLED", "OVERRUN"} /\ cost[d] \in Nat
      <4>1. d \in CallsOf(s) /\ d \in Calls /\ d # c /\ grant[d].state \notin {"none", "RELEASED"}
        BY <1>1, <1>4
      <4>2. grant[d].state \in {"none", "RELEASED", "SETTLED", "OVERRUN"} \cup Held /\ cost[d] \in Nat
        BY <1>t, <4>1 DEF BudgetTypeOK
      <4> QED BY <1>1, <1>3, <4>1, <4>2
    <3>2. CASE grant[d].state \in Held
      <4>1. F[d] = Upper
        BY <1>t, <1>n, <3>1, <3>2 DEF HoldingOf
      <4> QED BY <1>n, <1>3, <3>1, <3>2, <4>1 DEF Claim, Held
    <3>3. CASE grant[d].state \in {"SETTLED", "OVERRUN"}
      <4>1. Reported(d) /\ grant[d].actual = cost[d]
        BY <1>t, <3>1, <3>3 DEF HoldingOf
      <4>2. cost[d] # 0
        BY <3>1, <4>1, Tables, ReportedCost
      <4>3. F[d] = cost[d]
        BY <3>1, <4>1, <4>2
      <4>4. LeastOf(cost[d], Upper) \in Nat /\ LeastOf(cost[d], Upper) <= cost[d]
        BY <1>n, <3>1, LeastFacts
      <4>5. Claim(d)' = IF d \in writtenOff THEN 0 ELSE LeastOf(cost[d], Upper)
        BY <1>3, <3>1, <3>3 DEF Claim, Held, LeastOf
      <4> QED BY <3>1, <4>3, <4>4, <4>5
    <3> QED BY <3>1, <3>2, <3>3
  <2> QED BY <2>1
<1>9. /\ \A d \in V : Claims'[d] \in Nat
      /\ \A d \in T : Claims'[d] \in Nat /\ F[d] \in Nat
  BY <1>1, <1>2, <1>4
<1> HIDE DEF T, F, V
<1>10. SumFunctionOnSet(Claims', V) = SumFunctionOnSet(Claims', T)
  BY <1>4, <1>7, <1>9, SumOutside
<1>11. SumFunctionOnSet(Claims', T) <= SumFunctionOnSet(F, T)
  BY <1>4, <1>8, <1>9, SumMonotonic
<1>12. SumFunctionOnSet(Claims', CallsOf(s)) = Claims'[c] + SumFunctionOnSet(Claims', V)
  BY <1>n, <1>1, SumRemove DEF V
<1>13. SumFunctionOnSet(Claims', T) \in Nat /\ Claims'[c] \in Nat
  BY <1>n, <1>1, <1>4, <1>9, SumRemove
<1> QED BY <1>n, <1>s, <1>5, <1>6, <1>10, <1>11, <1>12, <1>13

LEMMA AcquireKeeps ==
    ASSUME BudgetInv, NEW c \in Calls, Acquire(c)
    PROVE  BudgetInv'
<1> DEFINE s == SubjectOf[c]
           required == Spent(s) + Upper
           delta == IF required > reservation[s].tokens THEN required - reservation[s].tokens ELSE 0
<1>t. TablesOK /\ BudgetTypeOK /\ \A d \in Calls : RecordOf(d) /\ HoldingOf(d)
  BY Tables, ByCall
<1>f. FreshTurns /\ AskersSeeAll
  BY DEF BudgetInv
<1>a. /\ calling[c] = "asking" /\ Authority(c) /\ grant[c].state \in {"none", "RELEASED"}
      /\ Reserve(s, delta)
      /\ grant' = [grant EXCEPT ![c].state = "RESERVED"]
      /\ calling' = [calling EXCEPT ![c] = "admitted"]
      /\ UNCHANGED <<lane, mission, intent, invocation, imported, cost, writtenOff>>
  BY DEF Acquire
<1>s. /\ s \in Subjects /\ s = SubjectOf[c] /\ reservation[s].tokens \in Nat /\ Upper \in Nat
      /\ reservation[s].state = "RESERVED" /\ intent[s].state # "none"
  <2>1. s \in Subjects /\ Upper \in Nat
    BY BudgetConstants
  <2>2. reservation[s].tokens \in Nat
    BY <1>t, <2>1 DEF BudgetTypeOK
  <2>3. /\ intent[s] = [state |-> "SUBMITTED", executor |-> ExecutorOf[c]]
        /\ reservation[s].state = "RESERVED"
    BY <1>a DEF Authority
  <2> QED BY <2>1, <2>2, <2>3
<1>n. Spent(s) \in Nat
  <2>1. \A d \in Calls : [e \in Calls |-> IF grant[e].actual > 0 THEN grant[e].actual ELSE Upper][d] \in Nat
    BY <1>t, <1>s DEF BudgetTypeOK
  <2>2. {d \in CallsOf(s) : grant[d].state \notin {"none", "RELEASED"}} \subseteq Calls
    BY DEF CallsOf
  <2>3. IsFiniteSet({d \in CallsOf(s) : grant[d].state \notin {"none", "RELEASED"}})
    BY <2>2, BudgetConstants, FS_Subset
  <2> QED BY <2>1, <2>2, <2>3, SumRemove DEF Spent
<1>d. delta \in Nat /\ reservation[s].tokens + delta >= Spent(s) + Upper
  BY <1>s, <1>n
<1> HIDE DEF delta, s
<1>2. /\ account' \in [Accounts -> [reserved : Int, settled : Int]]
      /\ reservation' \in [Subjects -> ReservationRows]
      /\ reservation'[s].state = "RESERVED"
      /\ \A r \in Subjects : r # s => reservation'[r] = reservation[r]
  BY <1>a, <1>s, <1>d, ReservedBooks
<1>3. /\ grant' \in [Calls -> GrantRows]
      /\ grant'[c].state = "RESERVED" /\ grant'[c].actual = 0
      /\ \A d \in Calls : d # c => grant'[d] = grant[d]
  <2>1. LET h == [grant[c] EXCEPT !.state = "RESERVED"]
        IN  h \in GrantRows /\ h.state = "RESERVED" /\ h.actual = grant[c].actual
    BY <1>t DEF TablesOK, GrantRows, Held
  <2>2. grant' = [grant EXCEPT ![c] = [grant[c] EXCEPT !.state = "RESERVED"]]
    BY <1>a
  <2>3. grant[c].actual = 0
    BY <1>t, <1>a DEF HoldingOf
  <2> QED BY <1>t, <2>1, <2>2, <2>3 DEF TablesOK
<1>4. /\ calling' \in [Calls -> {"no", "asking", "admitted", "sent", "answered"}]
      /\ calling'[c] = "admitted" /\ \A d \in Calls : d # c => calling'[d] = calling[d]
  BY <1>t, <1>a DEF TablesOK
<1>5. leaseGone' \in [Calls -> BOOLEAN]
  BY <1>t, Zenon DEF Acquire, TablesOK
<1>6. BudgetTypeOK'
  BY <1>t, <1>a, <1>2, <1>3, <1>4, <1>5 DEF BudgetTypeOK, GrantRows, ReservationRows
<1>7. /\ \A d \in Calls : /\ (Sent(d)' <=> Sent(d)) /\ (Reported(d)' <=> Reported(d))
                          /\ Reports(d)' = Reports(d)
      /\ invocation[c].state = "claimed" /\ ~Sent(c)
  BY <1>t, <1>a DEF Sent, Reported, Reports, RecordOf
<1>8. RecordsAgree'
  <2>1. \A d \in Calls : d # c => RecordOf(d)'
    BY <1>t, <1>a, <1>4, <1>7 DEF RecordOf
  <2>2. RecordOf(c)'
    BY <1>t, <1>a, <1>4, <1>7 DEF RecordOf
  <2> QED BY <2>1, <2>2, ByCallThen
<1>9. UnreportedIsHeld'
  <2>1. \A d \in Calls : SubjectOf[d] \in Subjects
    BY BudgetConstants
  <2>2. \A d \in Calls : d # c => HoldingOf(d)'
    BY <1>t, <1>a, <1>2, <1>3, <1>7, <2>1 DEF HoldingOf
  <2>3. HoldingOf(c)'
    BY <1>a, <1>3, <1>7 DEF HoldingOf, Held
  <2> QED BY <2>2, <2>3, ByCallThen
<1>10. AskersSeeAll'
  <2>1. \A d \in Calls : grant'[d].state = "RELEASED" => grant[d].state = "RELEASED"
    BY <1>3
  <2>2. \A d \in Calls : calling'[d] = "asking" => calling[d] = "asking"
    BY <1>4
  <2> QED BY <1>f, <1>a, <1>7, <2>1, <2>2 DEF AskersSeeAll, CallsOf
<1>11. FreshTurns'
  <2>1. \A r \in Subjects : r # s => \A d \in CallsOf(r) : d # c /\ d \in Calls
    BY <1>s DEF CallsOf
  <2> QED BY <1>f, <1>a, <1>s, <1>2, <1>3, <2>1 DEF FreshTurns, CallsOf
<1>12. ReservationsCover' /\ AccountsCover'
  <2>1. SumFunctionOnSet(Claims', CallsOf(s)) <= Spent(s) + Upper
    BY <1>s, <1>6, AcquireCovers
  <2>2. SumFunctionOnSet(Claims', CallsOf(s)) <= reservation[s].tokens + delta
    <3>1. SumFunctionOnSet(Claims', CallsOf(s)) \in Nat
      <4>1. AmountsOK'
        BY <1>6, AmountsThen
      <4>2. IsFiniteSet(CallsOf(s)) /\ \A d \in CallsOf(s) : Claims'[d] \in Nat
        BY <1>s, <4>1 DEF AmountsOK, CallsOf
      <4> QED BY <4>2, SumRemove
    <3> QED BY <1>s, <1>n, <1>d, <2>1, <3>1
  <2>3. /\ \A d \in Calls : SubjectOf[d] # s => grant'[d] = grant[d]
        /\ reservation[s].state \in {"none", "RESERVED"} /\ UNCHANGED <<cost, writtenOff>>
    BY <1>a, <1>s, <1>3
  <2> QED BY <1>a, <1>s, <1>d, <1>6, <2>2, <2>3, ReserveCovers
<1> QED BY <1>6, <1>8, <1>9, <1>10, <1>11, <1>12 DEF BudgetInv

-----------------------------------------------------------------------------
(* The invariant and what it says.                                         *)

LEMMA BudgetInvInit ==
    ASSUME BudgetInit
    PROVE  BudgetInv
<1>1. /\ reservation = [s \in Subjects |-> [state |-> "none", tokens |-> 0]]
      /\ grant = [c \in Calls |-> [state |-> "none", actual |-> 0, wire |-> FALSE]]
      /\ invocation = [c \in Calls |-> [state |-> "claimed", usage |-> {}]]
      /\ calling = [c \in Calls |-> "no"]
      /\ imported = [c \in Calls |-> [row |-> "none", tokens |-> 0]]
      /\ cost = [c \in Calls |-> 0] /\ writtenOff = {}
      /\ account = [a \in Accounts |-> [reserved |-> 0, settled |-> 0]]
  BY DEF BudgetInit
<1>2. PICK W \in Workloads :
          intent = [s \in Subjects |-> [state |-> IF s \in W THEN "none" ELSE "never", executor |-> 0]]
  BY DEF BudgetInit
<1>3. BudgetTypeOK
  <2>1. leaseGone \in [Calls -> BOOLEAN]
    BY DEF BudgetInit
  <2>2. invocation \in [Calls ->
            [state : {"claimed", "handed_off", "unknown", "ended", "not_started"}, usage : SUBSET Nat]]
    BY <1>1
  <2>3. grant \in [Calls -> GrantRows]
    BY <1>1 DEF GrantRows
  <2>4. intent \in [Subjects -> IntentRows]
    BY <1>2 DEF IntentRows
  <2>5. lane \in Lanes /\ mission \in {"open", "ended"}
    BY DEF BudgetInit
  <2> QED BY <1>1, <2>1, <2>2, <2>3, <2>4, <2>5 DEF BudgetTypeOK, GrantRows, IntentRows
<1>4. \A c \in Calls : RecordOf(c) /\ HoldingOf(c)
  BY <1>1 DEF RecordOf, HoldingOf, Sent, Reported, Reports
<1>5. AskersSeeAll /\ FreshTurns /\ ReservationsCover
  BY <1>1 DEF AskersSeeAll, FreshTurns, ReservationsCover, CallsOf
<1>6. AccountsCover
  <2>1. AmountsOK
    BY <1>3, Amounts
  <2>2. \A c \in Calls : Charges[c] = 0
    BY <1>1, BudgetConstants DEF Charges, LeastOf
  <2>3. \A s \in Subjects : Booked[s] = 0
    <3>1. \A s \in Subjects : SumFunctionOnSet(Charges, CallsOf(s)) = 0
      BY <2>1, <2>2, SumZero DEF AmountsOK
    <3> QED BY <1>1, <3>1 DEF Booked
  <2>4. \A a \in Accounts : SumFunctionOnSet(Booked, {s \in Subjects : a \in Chain[s]}) = 0
    <3>1. ASSUME NEW a \in Accounts
          PROVE  SumFunctionOnSet(Booked, {s \in Subjects : a \in Chain[s]}) = 0
      <4>1. IsFiniteSet({s \in Subjects : a \in Chain[s]})
        BY BudgetConstants, FS_Subset
      <4> QED BY <2>3, <4>1, SumZero
    <3> QED BY <3>1
  <2> QED BY <1>1, <2>4 DEF AccountsCover
<1> QED BY <1>3, <1>4, <1>5, <1>6, ByCall DEF BudgetInv

LEMMA BudgetInvStep ==
    ASSUME BudgetInv, [BudgetNext]_budgetVars
    PROVE  BudgetInv'
<1>1. CASE UNCHANGED budgetVars
  <2>1. UNCHANGED <<lane, mission, account, reservation, intent, grant, invocation, leaseGone,
                    calling, imported, cost, writtenOff>>
    BY <1>1 DEF budgetVars
  <2>2. TablesOK'
    BY <2>1, Tables DEF TablesOK
  <2>3. GrantFrame
    BY <2>1, GrantsStay
  <2>4. RecordFrame /\ AskFrame
    BY <2>1 DEF RecordFrame, ImportedAs, AskFrame
  <2> QED BY <2>1, <2>2, <2>3, <2>4, QuietStep
<1>2. CASE Recover
  BY <1>2, RecoverKeeps
<1>3. CASE WorldStep
  BY <1>3, ProcessKeeps, ServeKeeps, SdkResolvesKeeps DEF WorldStep
<1>4. CASE EndMission
  BY <1>4, EndMissionKeeps
<1>5. CASE \E n \in 1..5 : EndHierarchical(n)
  BY <1>5, EndHierarchicalKeeps
<1>6. CASE \E c \in Calls : CallStep(c)
  <2>1. PICK c \in Calls : CallStep(c)
    BY <1>6
  <2> QED BY <2>1, AskKeeps, AcquireKeeps, HandoffKeeps, RefusedKeeps, AnswerKeeps, ObserveKeeps
          DEF CallStep
<1>7. CASE \E s \in Subjects : TurnStep(s)
  <2>1. PICK s \in Subjects : TurnStep(s)
    BY <1>7
  <2>2. CASE CreateIntent(s) \/ CollectResult(s) \/ Verdict(s) \/ LateImport(s)
    BY <2>2, CreateIntentKeeps, CollectResultKeeps, VerdictKeeps, LateImportKeeps
  <2>3. CASE \E closed, settled \in BOOLEAN : Collect(s, closed, settled)
    BY <2>3, CollectKeeps
  <2>4. CASE \E done \in BOOLEAN : StallOut(s, done) \/ StopReadOnly(s, done) \/ Rehandoff(s, done)
    BY <2>4, StallOutKeeps, StopReadOnlyKeeps, RehandoffKeeps
  <2>5. CASE \E n \in 1..4 : GiveUp(s, n)
    BY <2>5, GiveUpKeeps
  <2> QED BY <2>1, <2>2, <2>3, <2>4, <2>5 DEF TurnStep
<1> QED BY <1>1, <1>2, <1>3, <1>4, <1>5, <1>6, <1>7 DEF BudgetNext

\* What the books have for a turn covers what its calls have cost.
LEMMA TurnCovered ==
    ASSUME BudgetInv, NEW s \in Subjects
    PROVE  SumFunctionOnSet(Charges, CallsOf(s)) <= Booked[s]
<1>t. BudgetTypeOK /\ \A d \in Calls : RecordOf(d) /\ HoldingOf(d)
  BY Tables, ByCall
<1>n. AmountsOK
  BY <1>t, Amounts
<1>1. CASE reservation[s].state = "RESERVED"
  <2>1. \A c \in Calls : Charges[c] <= Claims[c]
    <3>1. ASSUME NEW c \in Calls PROVE Charges[c] <= Claims[c]
      <4>1. /\ Charges[c] = IF c \in writtenOff THEN 0 ELSE LeastOf(cost[c], Upper)
            /\ Claims[c] = Claim(c) /\ cost[c] \in Nat /\ Upper \in Nat
        BY <1>t, <1>n, BudgetConstants DEF Charges, AmountsOK, BudgetTypeOK
      <4>2. /\ LeastOf(cost[c], Upper) \in Nat /\ LeastOf(cost[c], Upper) <= Upper
            /\ cost[c] = 0 => LeastOf(cost[c], Upper) = 0
        BY <4>1, LeastFacts
      <4>3. grant[c].state = "none" => cost[c] = 0
        BY <1>t DEF RecordOf, HoldingOf
      <4>4. CASE c \in writtenOff
        BY <4>1, <4>4 DEF Claim
      <4>5. CASE c \notin writtenOff /\ grant[c].state = "none"
        BY <4>1, <4>2, <4>3, <4>5 DEF Claim
      <4>6. CASE c \notin writtenOff /\ grant[c].state # "none"
        BY <4>1, <4>2, <4>6 DEF Claim
      <4> QED BY <4>4, <4>5, <4>6
    <3> QED BY <3>1
  <2>2. \A c \in CallsOf(s) : Charges[c] \in Nat /\ Claims[c] \in Nat /\ Charges[c] <= Claims[c]
    BY <1>n, <2>1 DEF AmountsOK
  <2>3. IsFiniteSet(CallsOf(s))
    BY <1>n DEF AmountsOK
  <2>4. SumFunctionOnSet(Charges, CallsOf(s)) <= SumFunctionOnSet(Claims, CallsOf(s))
    BY <2>2, <2>3, SumMonotonic
  <2>5. SumFunctionOnSet(Claims, CallsOf(s)) <= reservation[s].tokens
    BY <1>1 DEF BudgetInv, ReservationsCover
  <2>6. /\ SumFunctionOnSet(Charges, CallsOf(s)) \in Nat /\ SumFunctionOnSet(Claims, CallsOf(s)) \in Nat
        /\ reservation[s].tokens \in Nat
    BY <1>t, <2>2, <2>3, SumRemove DEF BudgetTypeOK
  <2>7. Booked[s] = reservation[s].tokens
    BY <1>1 DEF Booked
  <2> QED BY <2>4, <2>5, <2>6, <2>7
<1>2. CASE reservation[s].state # "RESERVED"
  <2>1. Booked[s] = SumFunctionOnSet(Charges, CallsOf(s)) /\ Booked[s] \in Nat
    BY <1>n, <1>2 DEF Booked, AmountsOK
  <2> QED BY <2>1
<1> QED BY <1>1, <1>2

LEMMA CoveredIsCounted ==
    ASSUME BudgetInv
    PROVE  NeverUndercounted
<1>t. BudgetTypeOK
  BY Tables
<1>n. AmountsOK
  BY <1>t, Amounts
<1> DEFINE G == [s \in Subjects |-> SumFunctionOnSet(Charges, CallsOf(s))]
           L == [c \in Calls |-> LeastOf(cost[c], Upper)]
<1>1. ASSUME NEW a \in Accounts
      PROVE  SumFunctionOnSet(L, {c \in Calls \ writtenOff : a \in Chain[SubjectOf[c]]})
                 <= account[a].reserved + account[a].settled
  <2> DEFINE U == {s \in Subjects : a \in Chain[s]}
             K == {c \in Calls : SubjectOf[c] \in U}
             R == {c \in Calls \ writtenOff : a \in Chain[SubjectOf[c]]}
  <2>1. /\ U \in SUBSET Subjects /\ R \in SUBSET K /\ K \in SUBSET Calls
        /\ \A c \in K \ R : c \in writtenOff
        /\ \A c \in R : c \in Calls /\ c \notin writtenOff
    BY BudgetConstants
  <2>2. IsFiniteSet(U) /\ IsFiniteSet(K) /\ IsFiniteSet(R)
    BY <2>1, BudgetConstants, FS_Subset
  <2>3. SumFunctionOnSet(G, U) = SumFunctionOnSet(Charges, K)
    <3>1. \A s \in Subjects : G[s] = SumFunctionOnSet(Charges, PartOf(SubjectOf, Calls, {s}))
      <4>1. \A s \in Subjects : CallsOf(s) = PartOf(SubjectOf, Calls, {s})
        BY DEF CallsOf, PartOf
      <4> QED BY <4>1
    <3>2. /\ IsFiniteSet(Calls) /\ IsFiniteSet(Subjects) /\ SubjectOf \in [Calls -> Subjects]
          /\ \A c \in Calls : Charges[c] \in Nat
      BY <1>n, BudgetConstants DEF AmountsOK
    <3>3. U \in SUBSET Subjects /\ K = PartOf(SubjectOf, Calls, U)
      BY <2>1 DEF PartOf
    <3> HIDE DEF G, U, K
    <3>4. PartSums(Calls, Subjects, Charges, SubjectOf, G)
      BY <3>1, <3>2 DEF PartSums
    <3> QED BY <3>3, <3>4, SumByParts
  <2>4. \A s \in U : G[s] \in Nat /\ Booked[s] \in Nat /\ G[s] <= Booked[s]
    <3>1. \A s \in Subjects : G[s] <= Booked[s]
      BY TurnCovered
    <3>2. \A s \in Subjects : Booked[s] \in Nat /\ G[s] \in Nat
      <4>1. \A s \in Subjects : SumFunctionOnSet(Charges, CallsOf(s)) \in Nat
        BY <1>n, SumRemove DEF AmountsOK
      <4> QED BY <1>n, <4>1 DEF AmountsOK
    <3> QED BY <3>1, <3>2
  <2>c. /\ \A c \in K : Charges[c] \in Nat
        /\ \A c \in K \ R : Charges[c] = 0
        /\ \A c \in R : Charges[c] \in Nat /\ L[c] = Charges[c]
    BY <1>n, <2>1 DEF AmountsOK, Charges
  <2>5. SumFunctionOnSet(Booked, U) <= account[a].reserved + account[a].settled
    BY DEF BudgetInv, AccountsCover
  <2>6. account[a].reserved \in Int /\ account[a].settled \in Int
    BY <1>t DEF BudgetTypeOK
  <2> HIDE DEF U, K, R, G, L
  <2>7. SumFunctionOnSet(Charges, K) = SumFunctionOnSet(Charges, R)
    BY <2>1, <2>2, <2>c, SumOutside
  <2>8. SumFunctionOnSet(Charges, R) = SumFunctionOnSet(L, R)
    BY <2>2, <2>c, SumSame
  <2>9. SumFunctionOnSet(G, U) <= SumFunctionOnSet(Booked, U)
    BY <2>2, <2>4, SumMonotonic
  <2>10. SumFunctionOnSet(G, U) \in Nat /\ SumFunctionOnSet(Booked, U) \in Nat
    BY <2>2, <2>4, SumRemove
  <2>11. SumFunctionOnSet(L, R) <= account[a].reserved + account[a].settled
    BY <2>3, <2>5, <2>6, <2>7, <2>8, <2>9, <2>10
  <2> QED BY <2>11 DEF R
<1> QED BY <1>1 DEF NeverUndercounted

\* In every reachable state the records, grants and books of a Mission agree as
\* BudgetInv says: what may still be charged for a turn is covered by its open
\* reservation, and the accounts have on their books what the reservations hold or
\* what the settled turns have cost.
THEOREM BudgetInvariant == BudgetSpec => []BudgetInv
<1>1. BudgetInit => BudgetInv
  BY BudgetInvInit
<1>2. BudgetInv /\ [BudgetNext]_budgetVars => BudgetInv'
  BY BudgetInvStep
<1> QED BY <1>1, <1>2, PTL DEF BudgetSpec

\* "May overcount, never undercount" (provider_budget_guard.py, acquire), for any
\* number of turns, calls and accounts: what the Provider has charged, each call up to
\* its bound, is reserved or settled on every account of the turn, but for the calls
\* the code writes off.
THEOREM NoUndercount == BudgetSpec => []NeverUndercounted
<1>1. BudgetInv => NeverUndercounted
  BY CoveredIsCounted
<1> QED BY <1>1, BudgetInvariant, PTL

=============================================================================
