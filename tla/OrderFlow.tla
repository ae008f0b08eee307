------------------------------ MODULE OrderFlow ------------------------------
(***************************************************************************)
(* core/OrderManager.py with util/OrderState.py: an order is entered in    *)
(* two books, sent and written; executions are applied to it until it is   *)
(* filled; after a restart the orders written are entered again.  The FIX  *)
(* application, the order file, the sender of an order and the recovery    *)
(* manager are objects given to the order manager: each may raise.         *)
(***************************************************************************)
EXTENDS Naturals, Sequences, Functions, FiniteSets

CONSTANTS
  Ids,         \* the clOrdIDs
  MaxShares,   \* bound on the shares of an execution
  MaxOrders,   \* bound on the orders sent, and on those of a run
  MaxCum,      \* bound on the shares filled of an order
  MaxRestarts  \* bound on the restarts

ASSUME BoundsAreNat == {MaxShares, MaxOrders, MaxCum, MaxRestarts} \subseteq Nat

(* messages/enum/ExecType.py: name, isTerminal, isFill.                    *)
ExecType ==
  [name : {"PENDING_NEW", "PARTIAL_FILL"}, isTerminal : {FALSE}, isFill : {TRUE}]
  \cup [name : {"REJECTED", "CANCELLED", "DONE_FOR_DAY"}, isTerminal : {TRUE}, isFill : {FALSE}]
  \cup [name : {"FILL"}, isTerminal : {TRUE}, isFill : {TRUE}]

(* Assumed of the data: only a fill has shares.  (The code tells the fill  *)
(* listener whatever lastShares an execution carries, and applies those of *)
(* fills.)  sameSide: the side is that of the order.                       *)
Execution ==
  {e \in [clOrdID : Ids, execType : ExecType, lastShares : 0..MaxShares, sameSide : BOOLEAN] :
     e.lastShares > 0 => e.execType.name \in {"PARTIAL_FILL", "FILL"}}

VARIABLES
  status,               \* "up", "recovering", "failed" (recovery raised), "down"
  ordersByClOrdID,      \* clOrdID -> OrderState
  openOrdersByClOrdID,  \* clOrdIDs: the objects are those of ordersByClOrdID
  numOrders,
  previousIds,          \* of the ClOrdIDGen
  file,                 \* the clOrdIDs written, in order
  next,                 \* recovery: the next record
  sent,                 \* clOrdIDs sent, in order
  told,                 \* shares of each order's fills told to the fillListener
  closed,               \* history: orders closed since the start
  notSent, notRelayed,  \* history: open orders whose sending, or the relaying
                        \* of whose execution to its sender, raised
  reused,               \* history: clOrdIDs entered again after they were closed
  restarts

memory == <<ordersByClOrdID, openOrdersByClOrdID, numOrders, previousIds, told,
            closed, notSent, notRelayed>>
disk == <<file, sent, reused>>
vars == <<status, memory, disk, next, restarts>>

(* An OrderState has no orderState before its first fill.                  *)
unset == [name |-> "unset", isTerminal |-> FALSE, isFill |-> FALSE]
OrderState(cum, type) == [cumQty |-> cum, orderState |-> type]

Without(f, id) == Restrict(f, DOMAIN f \ {id})
With(f, id, v) == [i \in DOMAIN f \cup {id} |-> IF i = id THEN v ELSE f[i]]

Empty == [i \in {} |-> 0]

-----------------------------------------------------------------------------
(* onOrder up to the sending: the assertions, and both books.              *)
Unknown(id) == id \notin DOMAIN ordersByClOrdID /\ id \notin openOrdersByClOrdID

Room == Len(sent) < MaxOrders /\ numOrders < MaxOrders

Enter(id) ==
  /\ Unknown(id)
  /\ ordersByClOrdID' = With(ordersByClOrdID, id, OrderState(0, unset))
  /\ openOrdersByClOrdID' = openOrdersByClOrdID \cup {id}
  /\ numOrders' = numOrders + 1
  /\ told' = With(told, id, 0)

(* For comparison: written even if sending raised. *)
OnOrderWriting(id) ==
  /\ status = "up" /\ Room
  /\ Enter(id)
  /\ reused' = reused \cup (closed \cap {id})
  /\ \/ sent' = Append(sent, id) /\ file' = Append(file, id) /\ UNCHANGED notSent
     \/ notSent' = notSent \cup {id} /\ file' = Append(file, id) /\ UNCHANGED sent
  /\ UNCHANGED <<status, previousIds, closed, notRelayed, next, restarts>>

(* onOrder outside recovery: the order is sent, then written.  Sending and *)
(* writing may raise; what was done before stays done.                     *)
OnOrder(id) ==
  /\ status = "up" /\ Room
  /\ Enter(id)
  /\ reused' = reused \cup (closed \cap {id})
  /\ \/ sent' = Append(sent, id) /\ file' \in {file, Append(file, id)} /\ UNCHANGED notSent
     \/ notSent' = notSent \cup {id} /\ UNCHANGED <<sent, file>>
  /\ UNCHANGED <<status, previousIds, closed, notRelayed, next, restarts>>

-----------------------------------------------------------------------------
(* OrderState.apply: only a fill leaves a trace.                           *)
Apply(os, e) ==
  IF e.execType.isFill
  THEN OrderState(os.cumQty + e.lastShares, e.execType)
  ELSE os

(* onExecution of an open order.  The side is asserted; the execution is   *)
(* relayed to the order's sender, which may raise; isTerminal raises as    *)
(* long as no fill was seen.  All that comes before the fill listener.     *)
Knows(id) == id \in openOrdersByClOrdID
IsTerminal(os) == os.orderState.isTerminal

TellTwice(e) == told' = [told EXCEPT ![e.clOrdID] = @ + 2 * e.lastShares]   \* for comparison
Tell(e) == told' = [told EXCEPT ![e.clOrdID] = @ + e.lastShares]

FlushOpen(id) ==   \* for comparison: the closed order stays in the other book
  /\ openOrdersByClOrdID' = openOrdersByClOrdID \ {id}
  /\ closed' = closed \cup {id}
  /\ UNCHANGED ordersByClOrdID
Flush(id) ==
  /\ ordersByClOrdID' = Without(ordersByClOrdID, id)
  /\ openOrdersByClOrdID' = openOrdersByClOrdID \ {id}
  /\ closed' = closed \cup {id}

OnExecution(e) ==
  LET id == e.clOrdID
      os == Apply(ordersByClOrdID[id], e)
      applied == ordersByClOrdID' = [ordersByClOrdID EXCEPT ![id] = os]
  IN
  /\ status = "up" /\ Knows(id) /\ e.sameSide
  /\ os.cumQty <= MaxCum
  /\ \/ /\ applied /\ notRelayed' = notRelayed \cup {id}
        /\ UNCHANGED <<told, openOrdersByClOrdID, closed>>
     \/ /\ os.orderState = unset /\ applied
        /\ UNCHANGED <<told, openOrdersByClOrdID, closed, notRelayed>>
     \/ /\ os.orderState # unset /\ Tell(e)
        /\ IF IsTerminal(os)
           THEN Flush(id)
           ELSE applied /\ UNCHANGED <<openOrdersByClOrdID, closed>>
        /\ UNCHANGED notRelayed
  /\ UNCHANGED <<status, numOrders, previousIds, notSent, disk, next, restarts>>

(* An execution of an order that is not open only goes to the listener, as *)
(* one of nobody's: no action.                                             *)

-----------------------------------------------------------------------------
(* The program ends, between two calls or between the sending of an order  *)
(* and its writing.                                                        *)
Forget ==
  /\ ordersByClOrdID' = Empty /\ openOrdersByClOrdID' = {} /\ numOrders' = 0
  /\ previousIds' = {} /\ told' = Empty
  /\ closed' = {} /\ notSent' = {} /\ notRelayed' = {}
  /\ status' = "down"

Crash ==
  /\ status # "down" /\ restarts < MaxRestarts
  /\ Forget
  /\ UNCHANGED <<disk, next, restarts>>

CrashInOnOrder(id) ==
  /\ status = "up" /\ Room /\ restarts < MaxRestarts
  /\ Unknown(id)
  /\ sent' = Append(sent, id)
  /\ reused' = reused \cup (closed \cap {id})
  /\ Forget
  /\ UNCHANGED <<file, next, restarts>>

(* For comparison: recovery from the second record.                        *)
RestartLate ==
  /\ status = "down"
  /\ status' = "recovering" /\ next' = 2 /\ restarts' = restarts + 1
  /\ UNCHANGED <<memory, disk>>

Restart ==
  /\ status = "down"
  /\ status' = "recovering" /\ next' = 1 /\ restarts' = restarts + 1
  /\ UNCHANGED <<memory, disk>>

(* For comparison: recovery that sends and writes.                         *)
OnRecoveredOrderAgain ==
  /\ status = "recovering" /\ next <= Len(file)
  /\ previousIds' = previousIds \cup {file[next]}
  /\ \/ /\ Enter(file[next])
        /\ sent' = Append(sent, file[next]) /\ file' = Append(file, file[next])
        /\ next' = next + 1 /\ UNCHANGED status
     \/ /\ ~Unknown(file[next])
        /\ status' = "failed"
        /\ UNCHANGED <<next, file, sent, ordersByClOrdID, openOrdersByClOrdID, numOrders, told>>
  /\ UNCHANGED <<closed, notSent, notRelayed, reused, restarts>>

(* onRecoveredOrder of the next record; the assertion of onOrder ends the  *)
(* recovery.                                                               *)
OnRecoveredOrder ==
  /\ status = "recovering" /\ next <= Len(file)
  /\ previousIds' = previousIds \cup {file[next]}
  /\ \/ /\ Enter(file[next])
        /\ next' = next + 1 /\ UNCHANGED status
     \/ /\ ~Unknown(file[next])
        /\ status' = "failed"
        /\ UNCHANGED <<next, ordersByClOrdID, openOrdersByClOrdID, numOrders, told>>
  /\ UNCHANGED <<closed, notSent, notRelayed, disk, restarts>>

RecoveryDone ==
  /\ status = "recovering" /\ next > Len(file)
  /\ status' = "up"
  /\ UNCHANGED <<memory, disk, next, restarts>>

Init ==
  /\ status = "up"
  /\ ordersByClOrdID = Empty /\ openOrdersByClOrdID = {} /\ numOrders = 0
  /\ previousIds = {} /\ told = Empty
  /\ closed = {} /\ notSent = {} /\ notRelayed = {}
  /\ file = <<>> /\ sent = <<>> /\ reused = {}
  /\ next = 1 /\ restarts = 0

Next ==
  \/ \E id \in Ids : OnOrder(id) \/ CrashInOnOrder(id)
  \/ \E e \in Execution : OnExecution(e)
  \/ Crash \/ Restart \/ OnRecoveredOrder \/ RecoveryDone

Spec == Init /\ [][Next]_vars

-----------------------------------------------------------------------------
(* The type of the state; a record that recovery reads is there.           *)
TypeOK ==
  /\ status \in {"up", "recovering", "failed", "down"}
  /\ openOrdersByClOrdID \subseteq Ids /\ numOrders \in Nat
  /\ DOMAIN ordersByClOrdID \subseteq Ids
  /\ \A id \in DOMAIN ordersByClOrdID :
       ordersByClOrdID[id] \in [cumQty : Nat, orderState : ExecType \cup {unset}]
  /\ DOMAIN told \subseteq Ids /\ \A id \in DOMAIN told : told[id] \in Nat
  /\ file \in Seq(Ids) /\ sent \in Seq(Ids)
  /\ previousIds \cup closed \cup notSent \cup notRelayed \cup reused \subseteq Ids
  /\ next \in 1..Len(file) + 1 /\ restarts \in Nat

(* Both books hold the same orders, and a filled order is in neither, but  *)
(* for one whose last execution could not be relayed (onOrder,             *)
(* onExecution).                                                           *)
BooksAgree ==
  /\ DOMAIN ordersByClOrdID = openOrdersByClOrdID
  /\ \A id \in openOrdersByClOrdID :
       LET type == ordersByClOrdID[id].orderState IN
       type # unset /\ type.isTerminal => id \in notRelayed

(* The fill listener was told of exactly the shares of the fills applied   *)
(* to an open order, whatever other executions came between and raised,    *)
(* but for an order whose execution could not be relayed (onExecution).    *)
FillsTold ==
  \A id \in openOrdersByClOrdID :
    id \notin notRelayed => told[id] = ordersByClOrdID[id].cumQty

(* An open order was sent, before or after a restart, unless sending it    *)
(* raised (onOrder enters it first and sends it then; an order in the file *)
(* is not sent at recovery).                                               *)
OpenWasSent ==
  \A id \in openOrdersByClOrdID : id \in Range(sent) \/ id \in notSent

(* Once recovery is done every order that was sent is in the books or was  *)
(* filled since, but for those the program did not come to write.          *)
SentIsKnown ==
  status = "up" =>
    \A id \in Range(sent) \cap Range(file) : id \in openOrdersByClOrdID \cup closed

(* Recovery ends early only at a clOrdID that was used again after its     *)
(* order was filled and flushed (FLUSH_CLOSED_ORDERS, onRecoveredOrder).   *)
RecoveryStopsAtReuse ==
  status = "failed" => file[next] \in reused

(* A clOrdID is sent a second time only after its order was filled, or     *)
(* when the first order was never written: a restart sends nothing again.  *)
SentAgain ==
  [][\A id \in Range(sent) :
       sent' = Append(sent, id) => id \in closed \/ id \notin Range(file)]_vars
=============================================================================
