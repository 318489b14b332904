----------------------------- MODULE WorkOrders -----------------------------
(***************************************************************************)
(* Work orders and the stock of spare parts: internal/maintenance, the     *)
(* service, the repository and the handlers of maintenance-api.            *)
(*                                                                         *)
(* AddPartsToWorkOrder is a database transaction: what it has written is   *)
(* seen by nobody before its commit, and SELECT ... FOR UPDATE waits for   *)
(* the transaction that holds the row and then reads what that committed.  *)
(* The database ends a circle of waiting transactions by aborting one.     *)
(* Every part costs one unit of price.                                     *)
(***************************************************************************)
EXTENDS Naturals, Sequences, FiniteSets, FiniteSetsExt

CONSTANTS
  Order,         \* work orders
  Part,          \* spare parts
  Stock,         \* the quantity of every part in stock at first
  Items,         \* lists of parts and quantities that requests carry
  Req,           \* slots for requests being served at the same time
  MaxRequests,   \* bound: requests of several statements served
  MaxErrors,     \* bound: transactions that fail
  None           \* no order, or no transaction

\* What the code lets the constants be.
WorkOrdersAssumption ==
  /\ None \notin Order \cup Req /\ Order \cap Part = {}
  /\ Stock \in Nat /\ Items \subseteq Seq(Part \X Nat)
  /\ MaxRequests \in Nat /\ MaxErrors \in Nat

VARIABLES
  orders,    \* work_orders: the status and the cost
  parts,     \* work_order_parts: the quantity of a part used for an order
  stock,     \* spare_parts: the quantity in stock
  holder,    \* the transaction that holds the lock of a row
  req,       \* the state of every request slot
  served,    \* requests begun so far
  errors,    \* transactions that have failed so far
  closing    \* history: parts that every order had when it was cancelled

vars == <<orders, parts, stock, holder, req, served, errors, closing>>

Status == {"PENDING", "IN_PROGRESS", "COMPLETED", "CANCELLED"}
Row == [status : Status, cost : Nat]
NoRow == [status |-> "PENDING", cost |-> 0]
NoParts == [p \in Part |-> 0]
Idle == [pc |-> "idle", order |-> None, items |-> << >>, next |-> 1, left |-> NoParts,
         row |-> NoRow, status |-> "PENDING"]

Init ==
  /\ orders = [o \in Order |-> None] /\ parts = [o \in Order |-> NoParts]
  /\ stock = [p \in Part |-> Stock]
  /\ holder = [row \in Order \cup Part |-> None]
  /\ req = [r \in Req |-> Idle] /\ served = 0 /\ errors = 0
  /\ closing = [o \in Order |-> None]

At(r, step) == req[r].pc = step
Finish(r) == req' = [req EXCEPT ![r] = Idle]
Begin(r, step, o) ==
  /\ At(r, "idle") /\ served < MaxRequests /\ served' = served + 1
  /\ orders[o] # None
  /\ UNCHANGED <<orders, parts, stock, holder, errors, closing>>

Free(row, r) == holder[row] \in {None, r}
Released(r) == [row \in DOMAIN holder |-> IF holder[row] = r THEN None ELSE holder[row]]

-----------------------------------------------------------------------------
CreateWorkOrder(o) ==
  /\ orders[o] = None
  /\ orders' = [orders EXCEPT ![o] = NoRow]
  /\ UNCHANGED <<parts, stock, holder, req, served, errors, closing>>

\* The row is read only for its tenant.
UpdateWorkOrderStatus(r, o, status) ==
  /\ Begin(r, "status", o)
  /\ req' = [req EXCEPT ![r] = [Idle EXCEPT !.pc = "status", !.order = o,
                                            !.status = status]]

\* UPDATE waits for the row too.
WriteStatus(r) ==
  LET o == req[r].order IN
    /\ At(r, "status") /\ Free(o, r)
    /\ orders' = [orders EXCEPT ![o].status = req[r].status]
    /\ closing' = [closing EXCEPT ![o] =
                     IF req[r].status = "CANCELLED" THEN parts[o] ELSE None]
    /\ Finish(r)
    /\ UNCHANGED <<parts, stock, holder, served, errors>>

-----------------------------------------------------------------------------
AddPartsToWorkOrder(r, o, items) ==
  /\ Begin(r, "order", o)
  /\ req' = [req EXCEPT ![r] = [Idle EXCEPT !.pc = "order", !.order = o,
                                            !.items = items]]

\* The transaction ends and leaves nothing behind.
Rollback(r) ==
  /\ Finish(r) /\ holder' = Released(r)
  /\ UNCHANGED <<orders, parts, stock, served, closing>>

\* Mutant of LockOrder: the order is read without FOR UPDATE.
LockOrderNot(o, r) == holder

LockOrder(o, r) == [holder EXCEPT ![o] = r]

GetWorkOrderByIDForUpdate(r) ==
  LET o == req[r].order IN
    /\ At(r, "order") /\ Free(o, r)
    /\ IF orders[o].status = "CANCELLED" THEN Rollback(r)
       ELSE /\ req' = [req EXCEPT ![r].pc = "part", ![r].row = orders[o]]
            /\ holder' = LockOrder(o, r)
            /\ UNCHANGED <<orders, parts, stock, served, closing>>
    /\ UNCHANGED errors

\* What the transaction sees of a part: its own write, or the committed row.
Mine(r, p) == \E i \in 1 .. req[r].next - 1 : req[r].items[i][1] = p
Seen(r, p) == IF Mine(r, p) THEN req[r].left[p] ELSE stock[p]

\* Mutant of LockPart: the part is read without FOR UPDATE.
LockPartNot(p, r) == holder

LockPart(p, r) == [holder EXCEPT ![p] = r]

\* Mutant of Insufficient: one part too many is let through.
InsufficientByOne(r, p, n) == Seen(r, p) + 1 < n

Insufficient(r, p, n) == Seen(r, p) < n

\* The next part of the list; the quantity is checked with the row locked.
GetSparePartByIDForUpdate(r) ==
  /\ At(r, "part")
  /\ LET p == req[r].items[req[r].next][1]
         n == req[r].items[req[r].next][2]
     IN /\ Free(p, r)
        /\ IF n = 0 \/ Insufficient(r, p, n) THEN Rollback(r)
           ELSE /\ req' = [req EXCEPT
                      ![r].pc = IF req[r].next = Len(req[r].items) THEN "commit" ELSE @,
                      ![r].next = @ + 1,
                      ![r].left = [@ EXCEPT ![p] = Seen(r, p) - n],
                      ![r].row.cost = @ + n]
                /\ holder' = LockPart(p, r)
                /\ UNCHANGED <<orders, parts, stock, served, closing>>
  /\ UNCHANGED errors

Of(items, p) == {i \in DOMAIN items : items[i][1] = p}

\* A part that is in the list twice, or in the order already, is refused.
Duplicate(r) ==
  \E p \in Part :
    \/ Cardinality(Of(req[r].items, p)) > 1
    \/ Of(req[r].items, p) # {} /\ parts[req[r].order][p] # 0

CreateWorkOrderParts(r) ==
  LET o == req[r].order
      items == req[r].items
      quantity(p) == SumSet({items[i][2] : i \in Of(items, p)})
  IN /\ At(r, "commit")
     /\ IF Duplicate(r) THEN Rollback(r)
        ELSE /\ parts' = [parts EXCEPT ![o] = [p \in Part |-> @[p] + quantity(p)]]
             /\ stock' = [p \in Part |-> IF Mine(r, p) THEN req[r].left[p] ELSE stock[p]]
             /\ orders' = [orders EXCEPT ![o] = req[r].row]
             /\ holder' = Released(r) /\ Finish(r)
             /\ UNCHANGED <<served, closing>>
     /\ UNCHANGED errors

\* A statement fails, the process crashes, or the database breaks a circle.
Fail(r) ==
  /\ req[r].pc \in {"order", "part", "commit", "status"} /\ errors < MaxErrors
  /\ errors' = errors + 1 /\ Rollback(r)

WaitsFor(r) ==
  LET row == IF At(r, "part") THEN req[r].items[req[r].next][1] ELSE req[r].order
  IN IF req[r].pc \in {"order", "part", "status"} /\ ~Free(row, r) THEN holder[row] ELSE None

Deadlock(r) ==
  /\ \E s \in Req : s # r /\ WaitsFor(r) = s /\ WaitsFor(s) = r
  /\ Rollback(r) /\ UNCHANGED errors

Next ==
  \/ \E o \in Order : CreateWorkOrder(o)
  \/ \E r \in Req, o \in Order :
       \/ \E status \in Status : UpdateWorkOrderStatus(r, o, status)
       \/ \E items \in Items : AddPartsToWorkOrder(r, o, items)
  \/ \E r \in Req :
       \/ WriteStatus(r) \/ GetWorkOrderByIDForUpdate(r)
       \/ GetSparePartByIDForUpdate(r) \/ CreateWorkOrderParts(r)
       \/ Fail(r) \/ Deadlock(r)

Spec == Init /\ [][Next]_vars

-----------------------------------------------------------------------------
(* Properties                                                              *)

\* Rows, locks and requests keep to the values the code gives them.
TypeOK ==
  /\ \A o \in Order : orders[o] # None => orders[o] \in Row
  /\ parts \in [Order -> [Part -> Nat]] /\ stock \in [Part -> Nat]
  /\ holder \in [Order \cup Part -> Req \cup {None}]
  /\ \A r \in Req : req[r].row \in Row /\ req[r].order \in Order \cup {None}
  /\ served \in 0 .. MaxRequests /\ errors \in 0 .. MaxErrors

\* No part is lost or used twice: what is in stock and what the orders have used
\* is what there was, although requests take several parts each, in any order,
\* and fail half-way (internal/maintenance/service.go:93).
StockConserved ==
  \A p \in Part :
    stock[p] + MapThenSumSet(LAMBDA o : parts[o][p], Order) = Stock

\* An order costs what its parts cost, and an order that is cancelled keeps the
\* parts and the status it was cancelled with until its status is changed again:
\* SaveWorkOrder writes the row that was read before the parts were taken, so
\* it must be the row that is there (internal/maintenance/service.go:121).
OrderMatches ==
  \A o \in Order : orders[o] # None =>
    /\ orders[o].cost = MapThenSumSet(LAMBDA p : parts[o][p], Part)
    /\ closing[o] # None => orders[o].status = "CANCELLED" /\ parts[o] = closing[o]

\* The stock, the orders and their costs add up (internal/maintenance/service.go:93, 121).
PartsBalance == TypeOK /\ StockConserved /\ OrderMatches
=============================================================================
