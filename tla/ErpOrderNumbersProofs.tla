------------------------ MODULE ErpOrderNumbersProofs ------------------------
(***************************************************************************)
(* With one set-up at a time, finished before its instance serves, no      *)
(* order number is drawn twice and the sequence never goes back.           *)
(***************************************************************************)
EXTENDS ErpOrderNumbers, TLAPS

\* EffectiveLast is a number, or the one before the first.
LEMMA EffectiveType ==
    ASSUME TypeOK
    PROVE  EffectiveLast \in Numbers \cup {First - 1}
BY NumbersAssumption DEF TypeOK, Numbers, EffectiveLast

\* The value a set-up writes is in range, and at least what it read.
LEMMA DesiredType ==
    ASSUME TypeOK, NEW s \in Setups
    PROVE  /\ DesiredLast(s) \in Numbers \cup {First - 1}
           /\ DesiredLast(s) >= highest[s] /\ DesiredLast(s) >= effective[s]
<1>1. highest[s] \in Int /\ effective[s] \in Int /\ First \in Int /\ Last \in Int
  BY NumbersAssumption DEF TypeOK, Numbers
<1> QED BY <1>1 DEF TypeOK, Numbers, DesiredLast, Greater

\* Every step keeps the types.
LEMMA TypeStep ==
    ASSUME TypeOK, [Next]_vars
    PROVE  TypeOK'
<1> USE NumbersAssumption
<1>1. CASE UNCHANGED vars
  BY <1>1 DEF TypeOK, vars
<1>2. ASSUME NEW s \in Setups, BeginSetup(s) PROVE TypeOK'
  BY <1>2 DEF TypeOK, BeginSetup, At, InTransaction
<1>3. ASSUME NEW s \in Setups, CreateSequence(s) PROVE TypeOK'
  BY <1>3 DEF TypeOK, CreateSequence, At, InTransaction, Numbers
<1>4. ASSUME NEW s \in Setups, ReadHighest(s) PROVE TypeOK'
  BY <1>4 DEF TypeOK, ReadHighest, At, InTransaction
<1>5. ASSUME NEW s \in Setups, ReadSequence(s) PROVE TypeOK'
  BY <1>5, EffectiveType DEF TypeOK, ReadSequence, At, InTransaction
<1>6. ASSUME NEW s \in Setups, SetValue(s) PROVE TypeOK'
  <2>1. DesiredLast(s) >= First => DesiredLast(s) \in Numbers
    BY DesiredType DEF Numbers
  <2>2. sequence' \in [state : {"absent", "creating", "ready"}, last : Numbers, called : BOOLEAN]
    BY <1>6, <2>1 DEF TypeOK, SetValue, SetLast
  <2> QED BY <1>6, <2>2 DEF TypeOK, SetValue, At, InTransaction
<1>7. ASSUME NEW s \in Setups, CommitSetup(s) PROVE TypeOK'
  BY <1>7 DEF TypeOK, CommitSetup, At, InTransaction
<1>8. ASSUME NEW s \in Setups, Stop(s) PROVE TypeOK'
  BY <1>8 DEF TypeOK, Stop, At, InTransaction
<1>9. ASSUME NEW r \in Requests, Draw(r) PROVE TypeOK'
  <2>1. EffectiveLast + 1 \in Numbers
    BY <1>9, EffectiveType DEF Draw, NextFree, Numbers
  <2> QED BY <1>9, <2>1 DEF TypeOK, Draw, Orders
<1>10. ASSUME NEW r \in Requests, Refuse(r) PROVE TypeOK'
  BY <1>10 DEF TypeOK, Refuse
<1>11. ASSUME NEW r \in Requests, CommitOrder(r) PROVE TypeOK'
  BY <1>11 DEF TypeOK, CommitOrder
<1>12. ASSUME NEW x \in Orders, DeleteRow(x) PROVE TypeOK'
  BY <1>12 DEF TypeOK, DeleteRow
<1> QED BY <1>1, <1>2, <1>3, <1>4, <1>5, <1>6, <1>7, <1>8, <1>9, <1>10, <1>11, <1>12
        DEF Next, Setup, Reserve

\* The sequence, the set-ups and the requests are always well typed: no number
\* is ever outside the range of the sequence.
THEOREM NumbersTypeCorrect == Spec => []TypeOK
<1>1. Init => TypeOK
  <2> SUFFICES ASSUME Init PROVE TypeOK
    OBVIOUS
  <2>1. there \in [Orders -> BOOLEAN]
    <3>1. there = [x \in Orders |-> x \in Old]
      BY DEF Init
    <3>2. \A x \in Orders : (x \in Old) \in BOOLEAN
      OBVIOUS
    <3> QED BY <3>1, <3>2, Zenon
  <2>2. number \in [Orders -> Numbers \cup {0}]
    BY NumbersAssumption DEF Init, Orders
  <2>3. sequence \in [state : {"absent", "creating", "ready"}, last : Numbers, called : BOOLEAN]
    <3>1. PICK q \in {"absent", "ready"} : sequence = [state |-> q, last |-> First, called |-> FALSE]
      BY DEF Init
    <3> QED BY <3>1, NumbersAssumption DEF Numbers
  <2> QED BY <2>1, <2>2, <2>3 DEF Init, TypeOK
<1> QED BY <1>1, TypeStep, PTL DEF Spec

-----------------------------------------------------------------------------
\* At the start nothing is drawn and no set-up has begun.
LEMMA NumbersInit == Init => NumbersInv
<1> SUFFICES ASSUME Init PROVE NumbersInv
  OBVIOUS
<1>1. sequence.state \in {"absent", "ready"} /\ \A s \in Setups : phase[s] = "idle"
  BY DEF Init
<1>2. \A r \in Requests : pc[r] = "idle" /\ number[r] = 0
  BY NumbersAssumption DEF Init, Orders
<1>3. ASSUME NEW r \in Requests PROVE ~there[r]
  <2>1. r \in Orders /\ r \notin Old
    BY NumbersAssumption DEF Orders
  <2> QED BY <2>1, Zenon DEF Init
<1> QED BY <1>1, <1>2, <1>3 DEF NumbersInv, UniqueNumbers

\* A number drawn is new, and the sequence stays ahead of every row.
LEMMA DrawStep ==
    ASSUME TypeOK, NumbersInv, \A s, t \in Setups : s = t, NEW r \in Requests, Draw(r)
    PROVE  NumbersInv' /\ EffectiveLast' = EffectiveLast + 1
<1> USE NumbersAssumption
<1>1. EffectiveLast \in Nat /\ EffectiveLast' = EffectiveLast + 1
  BY EffectiveType DEF TypeOK, Numbers, EffectiveLast, Draw
<1>2. InstanceOf[r] \in Setups /\ \A s \in Setups : phase[s] = "serving"
  BY DEF Draw, Setups
<1>3. \A x \in Orders : number[x] \in Int /\ (there[x] \/ x \in Requests => number[x] <= EffectiveLast \/ number[x] = 0)
  BY <1>2 DEF NumbersInv, TypeOK, Numbers, Orders
<1>4. \A q \in Requests :
        /\ pc'[q] = "drawn" => number'[q] # 0 /\ phase'[InstanceOf[q]] = "serving"
        /\ pc'[q] = "idle" => number'[q] = 0
        /\ there'[q] => number'[q] # 0 /\ pc'[q] = "done"
        /\ number'[q] # 0 => sequence'.state = "ready" /\ number'[q] <= EffectiveLast'
  BY <1>1, <1>2, <1>3 DEF Draw, NumbersInv, TypeOK, Setups, Orders
<1>5. \A s \in Setups :
        /\ phase'[s] = "serving" /\ sequence'.state = "ready"
        /\ \A x \in Orders : there'[x] => number'[x] <= EffectiveLast'
  BY <1>1, <1>2, <1>3 DEF Draw, NumbersInv, TypeOK, Orders
<1>6. UniqueNumbers'
  <2> SUFFICES ASSUME NEW q \in Requests, NEW x \in Orders,
                      q # x, number'[q] # 0, x \in Requests \/ there'[x]
               PROVE  number'[q] # number'[x]
    BY DEF UniqueNumbers
  <2>1. q # r /\ x # r => number'[q] = number[q] /\ number'[x] = number[x] /\ there'[x] = there[x]
    BY DEF Draw
  <2>2. CASE q # r /\ x # r
    BY <2>1, <2>2 DEF NumbersInv, UniqueNumbers
  <2>3. CASE q = r
    BY <2>3, <1>1, <1>3 DEF Draw, TypeOK, Orders
  <2>4. CASE x = r
    BY <2>4, <1>1, <1>3 DEF Draw, TypeOK, Orders
  <2> QED BY <2>2, <2>3, <2>4
<1> QED BY <1>1, <1>4, <1>5, <1>6 DEF NumbersInv

\* The write of a set-up does not lower the sequence, and leaves it ahead of every row.
LEMMA SetValueStep ==
    ASSUME TypeOK, NumbersInv, NEW s \in Setups, SetValue(s)
    PROVE  /\ EffectiveLast' >= EffectiveLast /\ EffectiveLast' >= highest[s]
           /\ sequence'.state = sequence.state
<1>1. DesiredLast(s) \in Int /\ DesiredLast(s) >= First - 1 /\ First \in Int
  BY DesiredType, NumbersAssumption DEF Numbers
<1>2. effective[s] = EffectiveLast /\ EffectiveLast \in Int /\ highest[s] \in Int
  BY EffectiveType, NumbersAssumption DEF SetValue, NumbersInv, TypeOK, Numbers
<1>3. CASE DesiredLast(s) >= First
  <2>1. EffectiveLast' = DesiredLast(s) /\ sequence'.state = sequence.state
    BY <1>3 DEF SetValue, SetLast, EffectiveLast, TypeOK
  <2> QED BY <2>1, <1>2, DesiredType
<1>4. CASE ~(DesiredLast(s) >= First)
  <2>1. EffectiveLast' = EffectiveLast /\ sequence' = sequence
    BY <1>4 DEF SetValue, EffectiveLast
  <2>2. EffectiveLast >= First - 1 /\ DesiredLast(s) = First - 1
    BY <1>1, <1>4, EffectiveType, NumbersAssumption DEF Numbers
  <2> QED BY <2>1, <2>2, <1>1, <1>2, DesiredType
<1> QED BY <1>3, <1>4

\* Every step keeps the invariant and never lowers the last number drawn.
LEMMA NumbersStep ==
    ASSUME TypeOK, NumbersInv, \A s, t \in Setups : s = t, [Next]_vars
    PROVE  /\ NumbersInv'
           /\ sequence.state = "ready" /\ sequence'.state = "ready" => EffectiveLast' >= EffectiveLast
<1> USE NumbersAssumption
<1> DEFINE Goal == /\ NumbersInv'
                   /\ sequence.state = "ready" /\ sequence'.state = "ready"
                        => EffectiveLast' >= EffectiveLast
<1>0. EffectiveLast \in Int /\ First \in Int /\ \A x \in Orders : number[x] \in Int
  BY EffectiveType DEF TypeOK, Numbers
<1>1. CASE UNCHANGED vars
  BY <1>0, <1>1 DEF NumbersInv, UniqueNumbers, EffectiveLast, vars
<1>2. ASSUME NEW s \in Setups, BeginSetup(s) PROVE Goal
  BY <1>0, <1>2 DEF BeginSetup, At, NumbersInv, UniqueNumbers, EffectiveLast, TypeOK
<1>3. ASSUME NEW s \in Setups, CreateSequence(s) PROVE Goal
  BY <1>0, <1>3 DEF CreateSequence, At, NumbersInv, UniqueNumbers, EffectiveLast, TypeOK
<1>4. ASSUME NEW s \in Setups, ReadHighest(s) PROVE Goal
  <2>1. \A x \in Orders : there[x] => number[x] <= highest'[s]
    BY <1>4 DEF ReadHighest, IsHighest, TypeOK
  <2> QED BY <1>0, <1>4, <2>1 DEF ReadHighest, At, NumbersInv, UniqueNumbers, EffectiveLast, TypeOK
<1>5. ASSUME NEW s \in Setups, ReadSequence(s) PROVE Goal
  BY <1>0, <1>5 DEF ReadSequence, At, NumbersInv, UniqueNumbers, EffectiveLast, TypeOK
<1>6. ASSUME NEW s \in Setups, SetValue(s) PROVE Goal
  <2>1. /\ EffectiveLast' >= EffectiveLast /\ EffectiveLast' >= highest[s]
        /\ sequence'.state = sequence.state
    BY <1>6, SetValueStep
  <2>2. highest[s] \in Int /\ EffectiveLast' \in Int
    <3>1. sequence' \in [state : {"absent", "creating", "ready"}, last : Numbers, called : BOOLEAN]
      BY TypeStep DEF TypeOK
    <3> QED BY <3>1 DEF EffectiveLast, TypeOK, Numbers
  <2> QED BY <1>0, <1>6, <2>1, <2>2 DEF SetValue, At, NumbersInv, UniqueNumbers, TypeOK, Orders
<1>7. ASSUME NEW s \in Setups, CommitSetup(s) PROVE Goal
  <2>1. EffectiveLast' = EffectiveLast
    BY <1>7 DEF CommitSetup, EffectiveLast, TypeOK
  <2> QED BY <1>0, <1>7, <2>1 DEF CommitSetup, At, NumbersInv, UniqueNumbers, TypeOK
<1>8. ASSUME NEW s \in Setups, Stop(s) PROVE Goal
  <2>1. EffectiveLast' = EffectiveLast
    BY <1>8 DEF Stop, EffectiveLast, TypeOK
  <2> QED BY <1>0, <1>8, <2>1 DEF Stop, At, NumbersInv, UniqueNumbers, TypeOK, Setups, InTransaction
<1>9. ASSUME NEW r \in Requests, Draw(r) PROVE Goal
  BY <1>0, <1>9, DrawStep
<1>10. ASSUME NEW r \in Requests, Refuse(r) PROVE Goal
  BY <1>0, <1>10 DEF Refuse, NumbersInv, UniqueNumbers, EffectiveLast, TypeOK
<1>11. ASSUME NEW r \in Requests, CommitOrder(r) PROVE Goal
  <2>1. /\ number[r] # 0 /\ number[r] <= EffectiveLast /\ r \in Orders
        /\ InstanceOf[r] \in Setups /\ phase[InstanceOf[r]] = "serving"
    BY <1>11 DEF CommitOrder, NumbersInv, Orders, Setups
  <2>2. EffectiveLast' = EffectiveLast /\ \A x \in Orders \ {r} : there'[x] = there[x]
    BY <1>11 DEF CommitOrder, EffectiveLast, TypeOK
  <2> QED BY <1>0, <1>11, <2>1, <2>2 DEF CommitOrder, NumbersInv, UniqueNumbers, TypeOK, Orders
<1>12. ASSUME NEW x \in Orders, DeleteRow(x) PROVE Goal
  BY <1>0, <1>12 DEF DeleteRow, NumbersInv, UniqueNumbers, EffectiveLast, TypeOK
<1> QED BY <1>1, <1>2, <1>3, <1>4, <1>5, <1>6, <1>7, <1>8, <1>9, <1>10, <1>11, <1>12
        DEF Next, Setup, Reserve

\* Nothing is drawn while the set-up works, and what was drawn, and what the
\* rows hold, is behind the sequence of a serving instance, where an instance's
\* bootstrap is the only set-up.
THEOREM NumbersCorrect ==
    ASSUME \A s, t \in Setups : s = t
    PROVE  Spec => []NumbersInv
<1>1. TypeOK /\ NumbersInv /\ [Next]_vars => NumbersInv'
  BY NumbersStep
<1> QED BY <1>1, NumbersInit, NumbersTypeCorrect, PTL DEF Spec

\* No order number is drawn twice, for any number of requests, restarts,
\* rollbacks and deletions, where an instance's bootstrap is the only set-up.
THEOREM UniqueNumbersCorrect ==
    ASSUME \A s, t \in Setups : s = t
    PROVE  Spec => []UniqueNumbers
<1>1. NumbersInv => UniqueNumbers
  BY DEF NumbersInv
<1> QED BY <1>1, NumbersCorrect, PTL

\* And the set-up never takes the sequence back below a number drawn.
THEOREM NeverRewindsCorrect ==
    ASSUME \A s, t \in Setups : s = t
    PROVE  Spec => NeverRewinds
<1> DEFINE Forward == sequence.state = "ready" /\ sequence'.state = "ready"
                        => EffectiveLast' >= EffectiveLast
<1>1. TypeOK /\ NumbersInv /\ [Next]_vars => Forward
  BY NumbersStep
<1>2. Forward => (sequence.state = "ready" /\ sequence'.state = "ready"
          => (IF sequence'.called THEN sequence'.last ELSE sequence'.last - 1) >= EffectiveLast)
  BY DEF EffectiveLast
<1> QED BY <1>1, <1>2, NumbersCorrect, NumbersTypeCorrect, PTL DEF Spec, NeverRewinds
=============================================================================
