--------------------------- MODULE OrderFlowProofs ---------------------------
(* For every set of clOrdIDs and all bounds: what the books, the file, the *)
(* fill listener and recovery have to do with each other.                  *)
EXTENDS OrderFlow, TLAPS

(* The file in each state of the program: a record that is written was     *)
(* sent; written twice only if its clOrdID was reused; the program knows   *)
(* the records it has read.                                                *)
Written ==
  /\ Range(file) \subseteq Range(sent)
  /\ \A i, j \in DOMAIN file : i < j /\ file[i] = file[j] => file[i] \in reused
Known ==
  /\ status = "up" => Range(file) \subseteq openOrdersByClOrdID \cup closed
  /\ status \in {"recovering", "failed"} =>
       openOrdersByClOrdID = {file[i] : i \in 1..next - 1}
  /\ status # "up" => closed = {} /\ notSent = {} /\ notRelayed = {}
  /\ status = "down" => openOrdersByClOrdID = {}
Listening == openOrdersByClOrdID \subseteq DOMAIN told
Stopped == status = "failed" => next <= Len(file) /\ file[next] \in reused

Inv == TypeOK /\ BooksAgree /\ FillsTold /\ OpenWasSent /\ Written /\ Known
       /\ Listening /\ Stopped

-----------------------------------------------------------------------------
LEMMA AppendRange ==
  ASSUME NEW S, NEW s \in Seq(S), NEW x \in S
  PROVE  Append(s, x) \in Seq(S) /\ Range(Append(s, x)) = Range(s) \cup {x}
<1>1. /\ DOMAIN Append(s, x) = 1..Len(s) + 1 /\ DOMAIN s = 1..Len(s)
      /\ Append(s, x)[Len(s) + 1] = x
      /\ \A i \in 1..Len(s) : Append(s, x)[i] = s[i]
  OBVIOUS
<1>2. Len(s) \in Nat
  OBVIOUS
<1> QED BY <1>1, <1>2 DEF Range

LEMMA InitInv == Init => Inv
  BY BoundsAreNat DEF Init, Inv, TypeOK, BooksAgree, FillsTold, OpenWasSent, Written, Known,
     Listening, Stopped, Empty, Range

(* What entering an order does to the state's parts that only speak of the *)
(* books.                                                                  *)
LEMMA Entered ==
  ASSUME Inv, NEW id \in Ids, Enter(id), UNCHANGED notRelayed
  PROVE  /\ openOrdersByClOrdID' = openOrdersByClOrdID \cup {id}
         /\ DOMAIN ordersByClOrdID' = openOrdersByClOrdID'
         /\ DOMAIN told' = DOMAIN told \cup {id}
         /\ \A i \in DOMAIN ordersByClOrdID' :
              ordersByClOrdID'[i] \in [cumQty : Nat, orderState : ExecType \cup {unset}]
         /\ \A i \in DOMAIN told' : told'[i] \in Nat
         /\ id \notin openOrdersByClOrdID
         /\ numOrders' \in Nat /\ Listening' /\ BooksAgree' /\ FillsTold'
<1>1. /\ DOMAIN ordersByClOrdID' = DOMAIN ordersByClOrdID \cup {id}
      /\ \A i \in DOMAIN ordersByClOrdID' :
           ordersByClOrdID'[i] = IF i = id THEN OrderState(0, unset) ELSE ordersByClOrdID[i]
      /\ DOMAIN told' = DOMAIN told \cup {id}
      /\ \A i \in DOMAIN told' : told'[i] = IF i = id THEN 0 ELSE told[i]
      /\ id \notin openOrdersByClOrdID
      /\ openOrdersByClOrdID' = openOrdersByClOrdID \cup {id}
      /\ numOrders' = numOrders + 1
  BY DEF Enter, With, Unknown
<1>2. OrderState(0, unset) \in [cumQty : Nat, orderState : ExecType \cup {unset}]
  BY DEF OrderState
<1>3. OrderState(0, unset).orderState = unset /\ OrderState(0, unset).cumQty = 0
  BY DEF OrderState
<1>4. BooksAgree'
  BY <1>1, <1>3 DEF Inv, BooksAgree
<1>5. FillsTold'
  BY <1>1, <1>3, <1>4 DEF Inv, FillsTold, BooksAgree, Listening
<1> QED BY <1>1, <1>2, <1>4, <1>5 DEF Inv, TypeOK, Listening, BooksAgree

LEMMA OnOrderInv == \A id \in Ids : Inv /\ OnOrder(id) => Inv'
<1> SUFFICES ASSUME NEW id \in Ids, Inv, OnOrder(id) PROVE Inv'
  OBVIOUS
<1>1. /\ status = "up" /\ Enter(id) /\ reused' = reused \cup (closed \cap {id})
      /\ \/ sent' = Append(sent, id) /\ file' \in {file, Append(file, id)} /\ UNCHANGED notSent
         \/ notSent' = notSent \cup {id} /\ UNCHANGED <<sent, file>>
      /\ UNCHANGED <<status, previousIds, closed, notRelayed, next, restarts>>
  BY DEF OnOrder
<1>2. /\ openOrdersByClOrdID' = openOrdersByClOrdID \cup {id}
      /\ DOMAIN ordersByClOrdID' = openOrdersByClOrdID'
      /\ DOMAIN told' = DOMAIN told \cup {id}
      /\ \A i \in DOMAIN ordersByClOrdID' :
              ordersByClOrdID'[i] \in [cumQty : Nat, orderState : ExecType \cup {unset}]
      /\ \A i \in DOMAIN told' : told'[i] \in Nat
      /\ id \notin openOrdersByClOrdID
      /\ numOrders' \in Nat /\ Listening' /\ BooksAgree' /\ FillsTold'
  BY <1>1, Entered
<1>3. /\ sent \in Seq(Ids) /\ file \in Seq(Ids) /\ closed \subseteq Ids
      /\ next \in 1..Len(file) + 1 /\ Len(file) \in Nat
  BY DEF Inv, TypeOK
<1>a. /\ Append(sent, id) \in Seq(Ids) /\ Range(Append(sent, id)) = Range(sent) \cup {id}
      /\ Append(file, id) \in Seq(Ids) /\ Range(Append(file, id)) = Range(file) \cup {id}
      /\ Len(Append(file, id)) = Len(file) + 1
  BY <1>3, AppendRange
<1>4. /\ sent' \in Seq(Ids) /\ Range(sent) \subseteq Range(sent')
      /\ id \in Range(sent') \/ (id \in notSent' /\ UNCHANGED file)
  BY <1>1, <1>3, <1>a
<1>5. \/ UNCHANGED file
      \/ file' = Append(file, id) /\ Range(file') = Range(file) \cup {id} /\ id \in Range(sent')
  BY <1>1, <1>4, <1>a
<1>6. /\ file' \in Seq(Ids) /\ Len(file') >= Len(file) /\ Len(file') \in Nat
      /\ Range(file') \subseteq Range(file) \cup {id}
  BY <1>3, <1>5, <1>a
<1>7. TypeOK'
  BY <1>1, <1>2, <1>3, <1>4, <1>6 DEF Inv, TypeOK
<1>8. OpenWasSent'
  BY <1>1, <1>2, <1>4 DEF Inv, OpenWasSent
<1>9. Known'
  BY <1>1, <1>2, <1>6 DEF Inv, Known
<1>10. Written'
  <2>1. Range(file') \subseteq Range(sent')
    BY <1>4, <1>5 DEF Inv, Written
  <2>2. ASSUME NEW i \in DOMAIN file', NEW j \in DOMAIN file', i < j, file'[i] = file'[j]
        PROVE  file'[i] \in reused'
    <3>1. CASE i \in DOMAIN file /\ j \in DOMAIN file /\ file'[i] = file[i] /\ file'[j] = file[j]
      BY <1>1, <2>2, <3>1 DEF Inv, Written
    <3>2. CASE file' = Append(file, id) /\ j = Len(file) + 1
      <4>1. i \in DOMAIN file /\ file'[i] = file[i] /\ file[i] = id
        BY <1>3, <2>2, <3>2
      <4>2. id \in closed
        BY <1>1, <1>2, <4>1 DEF Inv, Known, Range
      <4> QED BY <1>1, <4>1, <4>2
    <3>3. CASE UNCHANGED file
      BY <2>2, <3>1, <3>3
    <3>4. CASE file' = Append(file, id)
      <4>1. /\ DOMAIN file = 1..Len(file) /\ DOMAIN file' = 1..Len(file) + 1
            /\ \A k \in 1..Len(file) : file'[k] = file[k]
        BY <1>3, <3>4
      <4>2. CASE j = Len(file) + 1
        BY <3>2, <3>4, <4>2
      <4>3. CASE j # Len(file) + 1
        <5>1. i \in 1..Len(file) /\ j \in 1..Len(file)
          BY <1>3, <2>2, <4>1, <4>3
        <5> QED BY <3>1, <4>1, <5>1
      <4> QED BY <4>2, <4>3
    <3> QED BY <1>5, <3>3, <3>4
  <2> QED BY <2>1, <2>2 DEF Written
<1>11. Stopped'
  BY <1>1 DEF Stopped
<1> QED BY <1>2, <1>7, <1>8, <1>9, <1>10, <1>11 DEF Inv

-----------------------------------------------------------------------------
LEMMA OnExecutionInv == \A e \in Execution : Inv /\ OnExecution(e) => Inv'
<1> SUFFICES ASSUME NEW e \in Execution, Inv, OnExecution(e) PROVE Inv'
  OBVIOUS
<1> DEFINE id == e.clOrdID
           before == ordersByClOrdID[id]
           os == Apply(before, e)
           applied == ordersByClOrdID' = [ordersByClOrdID EXCEPT ![id] = os]
<1>0. /\ e.clOrdID \in Ids /\ e.execType \in ExecType /\ e.lastShares \in 0..MaxShares
      /\ e.lastShares > 0 => e.execType.name \in {"PARTIAL_FILL", "FILL"}
  BY DEF Execution
<1>a. /\ e.execType.name # "unset"
      /\ e.execType.name \in {"PARTIAL_FILL", "FILL"} => e.execType.isFill
  BY <1>0 DEF ExecType
<1>1. /\ status = "up" /\ id \in openOrdersByClOrdID /\ id \in Ids
      /\ e.execType \in ExecType /\ e.lastShares \in Nat
      /\ e.lastShares > 0 => e.execType.isFill
      /\ UNCHANGED <<status, numOrders, previousIds, notSent, file, sent, reused, next, restarts>>
  BY <1>0, <1>a, BoundsAreNat DEF OnExecution, disk, Knows
<1>2. \/ applied /\ notRelayed' = notRelayed \cup {id} /\ UNCHANGED <<told, openOrdersByClOrdID, closed>>
      \/ /\ os.orderState = unset /\ applied
         /\ UNCHANGED <<told, openOrdersByClOrdID, closed, notRelayed>>
      \/ /\ os.orderState # unset /\ Tell(e) /\ UNCHANGED notRelayed
         /\ \/ os.orderState.isTerminal /\ Flush(id)
            \/ ~os.orderState.isTerminal /\ applied /\ UNCHANGED <<openOrdersByClOrdID, closed>>
  BY DEF OnExecution, IsTerminal
<1>3. /\ openOrdersByClOrdID \subseteq Ids
      /\ DOMAIN ordersByClOrdID = openOrdersByClOrdID
      /\ openOrdersByClOrdID \subseteq DOMAIN told
      /\ \A i \in DOMAIN told : told[i] \in Nat
      /\ before \in [cumQty : Nat, orderState : ExecType \cup {unset}]
  BY <1>1 DEF Inv, TypeOK, BooksAgree, Listening
<1>4. /\ os \in [cumQty : Nat, orderState : ExecType \cup {unset}]
      /\ e.execType # unset
      /\ os.orderState = unset => os.cumQty = before.cumQty
      /\ os.cumQty = before.cumQty + e.lastShares
  <2>1. e.execType # unset
    BY <1>a DEF unset
  <2>2. CASE e.execType.isFill
    BY <1>1, <1>3, <2>1, <2>2 DEF Apply, OrderState
  <2>3. CASE ~e.execType.isFill
    BY <1>1, <1>3, <2>1, <2>3 DEF Apply
  <2> QED BY <2>1, <2>2, <2>3
<1>b. Tell(e) => /\ DOMAIN told' = DOMAIN told
                 /\ \A i \in DOMAIN told :
                      told'[i] = IF i = id THEN told[i] + e.lastShares ELSE told[i]
  BY DEF Tell
<1>5. /\ openOrdersByClOrdID' \subseteq openOrdersByClOrdID
      /\ openOrdersByClOrdID \subseteq openOrdersByClOrdID' \cup closed'
      /\ closed' \subseteq Ids /\ notRelayed' \subseteq Ids /\ notRelayed \subseteq notRelayed'
      /\ DOMAIN told' = DOMAIN told /\ \A i \in DOMAIN told' : told'[i] \in Nat
      /\ closed \subseteq closed'
  BY <1>1, <1>2, <1>3, <1>b DEF Flush, Inv, TypeOK
<1>6. /\ DOMAIN ordersByClOrdID' = openOrdersByClOrdID'
      /\ \A i \in DOMAIN ordersByClOrdID' :
           ordersByClOrdID'[i] = IF i = id THEN os ELSE ordersByClOrdID[i]
  BY <1>1, <1>2, <1>3 DEF Flush, Without, Restrict
<1>7. TypeOK'
  BY <1>1, <1>3, <1>4, <1>5, <1>6 DEF Inv, TypeOK
<1>8. BooksAgree'
  <2>1. id \in openOrdersByClOrdID' /\ os.orderState # unset /\ os.orderState.isTerminal
          => id \in notRelayed'
    BY <1>2 DEF Flush
  <2> QED BY <1>5, <1>6, <2>1 DEF Inv, BooksAgree
<1>9. FillsTold'
  <2>1. ASSUME NEW i \in openOrdersByClOrdID', i \notin notRelayed', i # id
        PROVE  told'[i] = ordersByClOrdID'[i].cumQty
    <3>1. told'[i] = told[i]
      BY <1>2, <1>3, <1>5, <1>b, <2>1
    <3> QED BY <1>5, <1>6, <2>1, <3>1 DEF Inv, FillsTold
  <2>2. ASSUME id \in openOrdersByClOrdID', id \notin notRelayed'
        PROVE  told'[id] = ordersByClOrdID'[id].cumQty
    <3>1. told[id] = before.cumQty
      BY <1>1, <1>5, <2>2 DEF Inv, FillsTold
    <3>2. told'[id] = os.cumQty
      BY <1>1, <1>2, <1>3, <1>4, <1>b, <2>2, <3>1 DEF Flush
    <3> QED BY <1>6, <2>2, <3>2
  <2> QED BY <2>1, <2>2 DEF FillsTold
<1>10. OpenWasSent' /\ Written' /\ Known' /\ Listening' /\ Stopped'
  BY <1>1, <1>3, <1>5 DEF Inv, OpenWasSent, Written, Known, Listening, Stopped
<1> QED BY <1>7, <1>8, <1>9, <1>10 DEF Inv

-----------------------------------------------------------------------------
LEMMA Forgotten == Inv /\ Forget /\ UNCHANGED <<next, restarts>> /\ file' = file
                   /\ sent' \in Seq(Ids) /\ Range(sent) \subseteq Range(sent')
                   /\ reused' \subseteq Ids /\ reused \subseteq reused' => Inv'
  BY DEF Inv, Forget, TypeOK, BooksAgree, FillsTold, OpenWasSent, Written, Known, Listening,
         Stopped, Empty

LEMMA CrashInv == Inv /\ Crash => Inv'
  BY Forgotten DEF Crash, disk, Inv, TypeOK

LEMMA CrashInOnOrderInv == \A id \in Ids : Inv /\ CrashInOnOrder(id) => Inv'
<1> SUFFICES ASSUME NEW id \in Ids, Inv, CrashInOnOrder(id) PROVE Inv'
  OBVIOUS
<1>1. sent \in Seq(Ids) /\ reused \subseteq Ids
  BY DEF Inv, TypeOK
<1>2. sent' \in Seq(Ids) /\ Range(sent) \subseteq Range(sent')
  BY <1>1, AppendRange DEF CrashInOnOrder
<1> QED BY <1>1, <1>2, Forgotten DEF CrashInOnOrder

LEMMA RestartInv == Inv /\ Restart => Inv'
<1> SUFFICES ASSUME Inv, Restart PROVE Inv'
  OBVIOUS
<1>1. /\ status = "down" /\ status' = "recovering" /\ next' = 1 /\ restarts' = restarts + 1
      /\ UNCHANGED <<ordersByClOrdID, openOrdersByClOrdID, numOrders, previousIds, told,
                     closed, notSent, notRelayed, file, sent, reused>>
  BY DEF Restart, memory, disk
<1>2. Len(file) \in Nat /\ restarts \in Nat
  BY DEF Inv, TypeOK
<1> QED BY <1>1, <1>2 DEF Inv, TypeOK, BooksAgree, FillsTold, OpenWasSent, Written, Known,
           Listening, Stopped

LEMMA OnRecoveredOrderInv == Inv /\ OnRecoveredOrder => Inv'
<1> SUFFICES ASSUME Inv, OnRecoveredOrder PROVE Inv'
  OBVIOUS
<1> DEFINE id == file[next]
<1>1. /\ status = "recovering" /\ next <= Len(file) /\ previousIds' = previousIds \cup {id}
      /\ UNCHANGED <<closed, notSent, notRelayed, file, sent, reused, restarts>>
  BY DEF OnRecoveredOrder, disk
<1>2. /\ file \in Seq(Ids) /\ Len(file) \in Nat /\ next \in 1..Len(file) /\ id \in Ids
      /\ DOMAIN file = 1..Len(file)
  BY <1>1 DEF Inv, TypeOK
<1>3. id \in Range(file)
  BY <1>2 DEF Range
<1>4. CASE Enter(id) /\ next' = next + 1 /\ UNCHANGED status
  <2>1. /\ openOrdersByClOrdID' = openOrdersByClOrdID \cup {id}
        /\ DOMAIN ordersByClOrdID' = openOrdersByClOrdID'
        /\ DOMAIN told' = DOMAIN told \cup {id}
        /\ \A i \in DOMAIN ordersByClOrdID' :
              ordersByClOrdID'[i] \in [cumQty : Nat, orderState : ExecType \cup {unset}]
        /\ \A i \in DOMAIN told' : told'[i] \in Nat
        /\ numOrders' \in Nat /\ Listening' /\ BooksAgree' /\ FillsTold'
    BY <1>1, <1>2, <1>4, Entered
  <2>2. TypeOK'
    BY <1>1, <1>2, <1>4, <2>1 DEF Inv, TypeOK
  <2>3. openOrdersByClOrdID' = {file[i] : i \in 1..next' - 1}
    <3>1. 1..next' - 1 = 1..next - 1 \cup {next}
      BY <1>2, <1>4
    <3> QED BY <1>1, <2>1, <3>1 DEF Inv, Known
  <2>4. OpenWasSent' /\ Written' /\ Known' /\ Stopped'
    BY <1>1, <1>3, <1>4, <2>1, <2>3 DEF Inv, OpenWasSent, Written, Known, Stopped
  <2> QED BY <2>1, <2>2, <2>4 DEF Inv
<1>5. CASE /\ ~Unknown(id) /\ status' = "failed"
           /\ UNCHANGED <<next, ordersByClOrdID, openOrdersByClOrdID, numOrders, told>>
  <2>1. id \in openOrdersByClOrdID
    BY <1>5 DEF Unknown, Inv, BooksAgree
  <2>2. PICK i \in 1..next - 1 : file[i] = id
    BY <1>1, <2>1 DEF Inv, Known
  <2>3. id \in reused
    BY <1>2, <2>2 DEF Inv, Written
  <2>4. Stopped'
    BY <1>1, <1>2, <1>5, <2>3 DEF Stopped
  <2>5. TypeOK'
    BY <1>1, <1>2, <1>5 DEF Inv, TypeOK
  <2> QED BY <1>1, <1>5, <2>4, <2>5 DEF Inv, BooksAgree, FillsTold, OpenWasSent, Written, Known,
             Listening
<1> QED BY <1>4, <1>5 DEF OnRecoveredOrder

LEMMA RecoveryDoneInv == Inv /\ RecoveryDone => Inv'
<1> SUFFICES ASSUME Inv, RecoveryDone PROVE Inv'
  OBVIOUS
<1>1. /\ status = "recovering" /\ next > Len(file) /\ status' = "up"
      /\ UNCHANGED <<ordersByClOrdID, openOrdersByClOrdID, numOrders, previousIds, told,
                     closed, notSent, notRelayed, file, sent, reused, next, restarts>>
  BY DEF RecoveryDone, memory, disk
<1>2. file \in Seq(Ids) /\ Len(file) \in Nat /\ DOMAIN file = 1..Len(file) /\ next = Len(file) + 1
  BY <1>1 DEF Inv, TypeOK
<1>3. Range(file) \subseteq openOrdersByClOrdID
  BY <1>1, <1>2 DEF Inv, Known, Range
<1> QED BY <1>1, <1>3 DEF Inv, TypeOK, BooksAgree, FillsTold, OpenWasSent, Written, Known,
           Listening, Stopped

LEMMA NextInv == Inv /\ [Next]_vars => Inv'
<1>1. Inv /\ UNCHANGED vars => Inv'
  BY DEF vars, memory, disk, Inv, TypeOK, BooksAgree, FillsTold, OpenWasSent, Written, Known,
         Listening, Stopped
<1> QED BY <1>1, OnOrderInv, OnExecutionInv, CrashInv, CrashInOnOrderInv, RestartInv,
           OnRecoveredOrderInv, RecoveryDoneInv DEF Next

LEMMA InvHolds == Spec => []Inv
  BY InitInv, NextInv, PTL DEF Spec

-----------------------------------------------------------------------------
(* Whatever the fills, the crashes and the restarts, the books of          *)
(* OrderManager hold orders and recovery stays within the file.            *)
THEOREM TypeCorrect == Spec => []TypeOK
<1>1. Inv => TypeOK
  BY DEF Inv
<1> QED BY <1>1, InvHolds, PTL

(* The two books are one, and no filled order stays in them (onExecution). *)
THEOREM BooksAgreeAlways == Spec => []BooksAgree
<1>1. Inv => BooksAgree
  BY DEF Inv
<1> QED BY <1>1, InvHolds, PTL

(* The fill listener hears of every share of an open order once.           *)
THEOREM EveryFillTold == Spec => []FillsTold
<1>1. Inv => FillsTold
  BY DEF Inv
<1> QED BY <1>1, InvHolds, PTL

(* No order is in the books that was not sent, restarts or not.            *)
THEOREM OpenOrdersWereSent == Spec => []OpenWasSent
<1>1. Inv => OpenWasSent
  BY DEF Inv
<1> QED BY <1>1, InvHolds, PTL

(* After recovery the books know all that was sent and written.            *)
THEOREM RecoveryIsComplete == Spec => []SentIsKnown
<1>1. Inv => SentIsKnown
  BY DEF Inv, Known, SentIsKnown
<1> QED BY <1>1, InvHolds, PTL

(* Recovery raises only at a clOrdID used again after its order was filled *)
(* and flushed.                                                            *)
THEOREM OnlyReuseStopsRecovery == Spec => []RecoveryStopsAtReuse
<1>1. Inv => RecoveryStopsAtReuse
  BY DEF Inv, Stopped, RecoveryStopsAtReuse
<1> QED BY <1>1, InvHolds, PTL

(* A restart sends no order again.                                         *)
THEOREM NothingSentAgain == Spec => SentAgain
<1>1. Inv /\ [Next]_vars =>
        [\A id \in Range(sent) : sent' = Append(sent, id) => id \in closed \/ id \notin Range(file)]_vars
  <2> SUFFICES ASSUME Inv, Next, NEW id \in Range(sent), sent' = Append(sent, id)
               PROVE  id \in closed \/ id \notin Range(file)
    OBVIOUS
  <2>1. sent \in Seq(Ids) /\ Append(sent, id) # sent /\ id \in Ids
    <3>1. sent \in Seq(Ids) /\ Len(sent) \in Nat /\ id \in Ids
      BY DEF Inv, TypeOK, Range
    <3>2. Len(Append(sent, id)) = Len(sent) + 1
      BY <3>1
    <3> QED BY <3>1, <3>2
  <2>2. PICK j \in Ids : (OnOrder(j) \/ CrashInOnOrder(j)) /\ sent' = Append(sent, j)
    BY <2>1 DEF Next, OnOrder, CrashInOnOrder, OnExecution, Crash, Restart, OnRecoveredOrder,
                RecoveryDone, disk
  <2>3. j = id
    <3>1. Append(sent, j)[Len(sent) + 1] = j /\ Append(sent, id)[Len(sent) + 1] = id
      BY <2>1
    <3> QED BY <2>2, <3>1
  <2>4. status = "up" /\ id \notin openOrdersByClOrdID
    BY <2>2, <2>3 DEF OnOrder, CrashInOnOrder, Enter, Unknown
  <2> QED BY <2>4 DEF Inv, Known
<1> QED BY <1>1, InvHolds, PTL DEF Spec, SentAgain
=============================================================================
