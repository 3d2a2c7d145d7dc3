--------------------------- MODULE LedgerBooksProofs ---------------------------
(***************************************************************************)
(* The books of BranchLedger: between handlers that run one at a time, each *)
(* wallet has moved by what its transactions add up to.                      *)
(***************************************************************************)
EXTENDS BranchLedgerProofs

-----------------------------------------------------------------------------
(* Handlers that run one at a time find the ticket they were called for as    *)
(* they left it.  Money is posted for completed tickets alone, so what is      *)
(* cancelled has no credit to reverse and no debit is ever cut off at zero.    *)

Paid(s) == \E role \in Roles : tx[s][role].status = "POSTED" \/ tx[s][role].direct # <<>>

\* The ticket has been paid for after the step.
PaidNext(s) == \E role \in Roles : tx'[s][role].status = "POSTED" \/ tx'[s][role].direct # <<>>

TurnFit(q) ==
    /\ q.op = "assign" => \A s \in q.batch : shipment[s].status # "COMPLETED"
    /\ q.step = "insert" => shipment[q.s].status # "COMPLETED"
    /\ q.step = "save" => shipment[q.s].status = q.seen.status /\ q.seen.status # "COMPLETED"
    /\ q.op = "complete" /\ q.step # "save" => shipment[q.s].status = "COMPLETED"
    /\ q.op = "cancel" => ~Paid(q.s)

TurnInv ==
    Calm => /\ \A s \in Shipments : Paid(s) => shipment[s].status = "COMPLETED"
            /\ \A r \in Requests : TurnFit(req[r])

LEMMA TurnIdle == TurnFit(Idle) /\ TurnFit(Idle)'
BY DEF TurnFit, Idle

\* The stages come in this order.
LEMMA RankOf ==
    /\ Rank("ASSIGNED") = 2 /\ Rank("IN_TRANSIT") = 4
    /\ Rank("RECEIVED_AT_RECEIVER_WAREHOUSE") = 5 /\ Rank("COMPLETED") = 7
<1>1. DOMAIN Stages = 1..8
  BY DEF Stages
<1>2. \A i, k \in 1..8 : Stages[i] = Stages[k] => i = k
  BY DEF Stages
<1>3. /\ Stages[2] = "ASSIGNED" /\ Stages[4] = "IN_TRANSIT"
      /\ Stages[5] = "RECEIVED_AT_RECEIVER_WAREHOUSE" /\ Stages[7] = "COMPLETED"
  BY DEF Stages
<1>4. \A i \in 1..8 : Rank(Stages[i]) = i
  BY <1>1, <1>2 DEF Rank
<1>5. {2, 4, 5, 7} \subseteq 1..8
  OBVIOUS
<1> QED BY <1>3, <1>4, <1>5

\* In their turn, receipts leave completed tickets alone.
LEMMA SweepInTurn ==
    ASSUME TypeInv, NEW s \in Shipments, NEW kind \in Sweeps, ReceiptSweep(s, kind), Calm'
    PROVE  Quiet /\ shipment[s].status # "COMPLETED" /\ SweepStatus(kind) # "COMPLETED"
<1>1. disturbed \in Nat /\ disturbed' = 0
  BY LedgerAssumption DEF TypeInv, TypeOK, Calm
<1>2. /\ Quiet
      /\ \/ kind = "unlink" /\ shipment[s].status = "ASSIGNED"
         \/ kind # "unlink" /\ Rank(shipment[s].status) < Rank(SweepStatus(kind))
  BY <1>1 DEF ReceiptSweep, Disturb
<1>3. /\ SweepStatus(kind) # "COMPLETED"
      /\ kind # "unlink" =>
           SweepStatus(kind) \in {"ASSIGNED", "IN_TRANSIT", "RECEIVED_AT_RECEIVER_WAREHOUSE"}
  BY LedgerAssumption DEF SweepStatus
<1> QED BY <1>2, <1>3, RankOf

\* A handler starts with a ticket that is not completed yet.
LEMMA CallOpen ==
    ASSUME TypeInv, NEW r \in Requests, Begin(r)
    PROVE  /\ \A s \in req'[r].batch : shipment[s].status # "COMPLETED"
           /\ req'[r].step = "save" => shipment[req'[r].s].status # "COMPLETED"
<1>1. req \in [Requests -> RequestState]
  BY DEF TypeInv, TypeOK
<1> USE <1>1 DEF Start, Idle
<1>2. CASE CreateNewVersion(r)
  BY <1>2 DEF CreateNewVersion
<1>3. ASSUME NEW batch \in SUBSET Shipments, BeginAssign(r, batch)
      PROVE  /\ \A s \in req'[r].batch : shipment[s].status # "COMPLETED"
             /\ req'[r].step = "assign"
  BY <1>3 DEF BeginAssign
<1>4. ASSUME NEW s \in Shipments, BeginCreate(r, s)
      PROVE  req'[r].step = "insert" /\ req'[r].batch = {}
  BY <1>4 DEF BeginCreate
<1>5. ASSUME NEW s \in Shipments, NEW op \in {"stage", "complete", "cancel"}, NEW guard, NEW status,
             BeginStage(r, s, op, guard, status)
      PROVE  req'[r].s = s /\ req'[r].batch = {}
  BY <1>5 DEF BeginStage
<1>6. ASSUME NEW s \in Shipments,
             \/ ReceiveAtSenderWarehouse(r, s) \/ CollectAssignedShipmentForDriver(r, s)
             \/ DispatchShipment(r, s) \/ DispatchAssignedShipmentForDriver(r, s)
             \/ ReceiveAtDestinationWarehouse(r, s) \/ ArriveAssignedShipmentForDriver(r, s)
             \/ MarkReadyForPickup(r, s) \/ CompleteShipment(r, s) \/ CancelShipment(r, s)
      PROVE  req'[r].s = s /\ req'[r].batch = {} /\ shipment[s].status # "COMPLETED"
  <2>1. req'[r].s = s /\ req'[r].batch = {}
    BY <1>5, <1>6
       DEF ReceiveAtSenderWarehouse, CollectAssignedShipmentForDriver, DispatchShipment,
           DispatchAssignedShipmentForDriver, ReceiveAtDestinationWarehouse,
           ArriveAssignedShipmentForDriver, MarkReadyForPickup, CompleteShipment, CancelShipment
  <2>2. shipment[s].status # "COMPLETED"
    BY <1>6
       DEF ReceiveAtSenderWarehouse, CollectAssignedShipmentForDriver, DispatchShipment,
           DispatchAssignedShipmentForDriver, ReceiveAtDestinationWarehouse,
           ArriveAssignedShipmentForDriver, MarkReadyForPickup, CompleteShipment, CancelShipment,
           BeginStage, Collectable
  <2> QED BY <2>1, <2>2
<1> QED BY <1>2, <1>3, <1>4, <1>6 DEF Begin

\* Money is posted by the handler of a completed ticket.
LEMMA PaidBy ==
    ASSUME TypeInv, NEW r \in Requests, NEW j \in req[r].jobs, EnterTransaction(r, j),
           NEW s \in Shipments, Paid(s)'
    PROVE  Paid(s) \/ (s = req[r].s /\ req[r].op = "complete")
<1> DEFINE q == req[r]
           u == Entered(tx[q.s][j.role], j.kind, j.amount)
<1>1. /\ q \in RequestState /\ SlotFit(q) /\ q.step = "jobs" /\ j \in q.jobs
      /\ tx \in [Shipments -> [Roles -> TxDoc]]
  BY DEF TypeInv, TypeOK, EnterTransaction, Running
<1>2. q.s \in Shipments /\ j \in Jobs /\ j.role \in Roles /\ tx[q.s][j.role] \in TxDoc
  BY <1>1 DEF SlotFit, TicketSteps, RequestState, Jobs
<1>3. tx' = [tx EXCEPT ![q.s][j.role] = u]
  BY DEF EnterTransaction
<1>4. /\ u.status = "POSTED" => tx[q.s][j.role].status = "POSTED" \/ j.kind = "post"
      /\ u.direct # <<>> => tx[q.s][j.role].direct # <<>> \/ j.kind = "credit"
  BY <1>2, EnteredCause DEF Jobs
<1> HIDE DEF u
<1>5. \A t \in Shipments, role \in Roles :
          tx'[t][role] = (IF t = q.s /\ role = j.role THEN u ELSE tx[t][role])
  BY <1>1, <1>2, <1>3
<1>6. j.kind \in {"post", "credit"} => q.op = "complete"
  BY <1>1 DEF SlotFit
<1>7. PICK role \in Roles : tx'[s][role].status = "POSTED" \/ tx'[s][role].direct # <<>>
  BY DEF Paid
<1>8. CASE s = q.s /\ role = j.role
  BY <1>2, <1>4, <1>5, <1>6, <1>7, <1>8 DEF Paid
<1>9. CASE ~(s = q.s /\ role = j.role)
  BY <1>5, <1>7, <1>9 DEF Paid
<1> QED BY <1>8, <1>9

\* A handler that writes no ticket keeps what it relies on.
LEMMA TurnKept ==
    ASSUME TypeInv, NEW r \in Requests, TurnFit(req[r]), UNCHANGED shipment, req[r].step # "save",
           Moves(r) \/ SharesSplit(r),
           req[r].op = "cancel" => ~PaidNext(req[r].s)
    PROVE  TurnFit(req[r])'
<1>1. CASE req'[r] = Idle
  BY <1>1, TurnIdle DEF TurnFit
<1>2. CASE Moves(r) /\ req'[r] # Idle
  <2>1. /\ req'[r].op = req[r].op /\ req'[r].s = req[r].s /\ req'[r].batch \subseteq req[r].batch
        /\ req'[r].step \notin {"insert", "save"}
    BY <1>2 DEF Moves, SameCall
  <2> QED BY <2>1 DEF TurnFit, Paid, PaidNext
<1>3. CASE SharesSplit(r)
  <2>1. req \in [Requests -> RequestState]
    BY DEF TypeInv, TypeOK
  <2>2. PICK jobs :
            req' = [req EXCEPT ![r].step = "jobs", ![r].then = "idle", ![r].jobs = jobs]
    BY <1>3 DEF SharesSplit
  <2>3. req[r].op = "create"
    BY <1>3 DEF SharesSplit
  <2>4. req'[r].op = "create" /\ req'[r].step = "jobs"
    BY <2>1, <2>2, <2>3 DEF RequestState
  <2> QED BY <2>4 DEF TurnFit
<1> QED BY <1>1, <1>2, <1>3

LEMMA TurnContinue ==
    ASSUME TypeInv, TypeInv', Alone, ShareInv, Calm, TurnInv, NEW r \in Requests, Continue(r)
    PROVE  /\ \A s \in Shipments : Paid(s)' => shipment'[s].status = "COMPLETED"
           /\ \A p \in Requests : TurnFit(req[p])'
<1> DEFINE q == req[r]
<1>1. /\ q \in RequestState /\ SlotFit(q) /\ TurnFit(q) /\ ShareFit(q)
      /\ shipment \in [Shipments -> ShipmentDoc] /\ req \in [Requests -> RequestState]
      /\ \A s \in Shipments : Paid(s) => shipment[s].status = "COMPLETED"
  BY DEF TypeInv, TypeOK, TurnInv, ShareInv
<1>2. \A p \in Requests \ {r} : req'[p] = Idle
  <2>1. req[r] # Idle
    BY ContinueFrame DEF Idle
  <2> QED BY <2>1, ContinueFrame DEF Keeps, Alone
<1>3. \A p \in Requests \ {r} : TurnFit(req[p])'
  BY <1>2, TurnIdle DEF TurnFit
<1>4. ASSUME UNCHANGED tx, NEW s \in Shipments, shipment[s].status # "COMPLETED",
             \A t \in Shipments \ {s} : shipment'[t] = shipment[t]
      PROVE  \A t \in Shipments : Paid(t)' => shipment'[t].status = "COMPLETED"
  <2>1. ~Paid(s)' /\ \A t \in Shipments : Paid(t)' <=> Paid(t)
    BY <1>1, <1>4 DEF Paid
  <2> QED BY <1>1, <1>4, <2>1
<1>5. CASE InsertShipment(r)
  <2>1. q.s \in Shipments /\ q.op = "create" /\ shipment[q.s].status # "COMPLETED"
    BY <1>1, <1>5 DEF InsertShipment, SlotFit, TicketSteps, RequestState, TurnFit
  <2>2. /\ shipment' = [shipment EXCEPT ![q.s].status = "CREATED"] /\ Goto(r, "share") /\ UNCHANGED tx
    BY <1>5 DEF InsertShipment
  <2>3. \A t \in Shipments \ {q.s} : shipment'[t] = shipment[t]
    BY <1>1, <2>1, <2>2
  <2>4. req'[r].op = "create" /\ req'[r].step = "share"
    BY <1>1, <2>1, <2>2 DEF Goto, RequestState
  <2>5. TurnFit(req[r])'
    BY <2>4 DEF TurnFit
  <2> QED BY <1>3, <1>4, <2>1, <2>2, <2>3, <2>5
<1>6. CASE SaveStage(r)
  <2> DEFINE status == Written(shipment[q.s].status, q.seen.status, q.status)
  <2>1. /\ q.s \in Shipments /\ q.step = "save"
        /\ shipment[q.s].status = q.seen.status /\ shipment[q.s].status # "COMPLETED"
    BY <1>1, <1>6 DEF SaveStage, SlotFit, TicketSteps, TurnFit
  <2>2. /\ shipment' = [shipment EXCEPT ![q.s].status = status,
                                        ![q.s].stamps = @ \cup Stamp(q.status)]
        /\ Launch(r, {}, AfterSave(q.op)) /\ UNCHANGED tx
    BY <1>6 DEF SaveStage
  <2>3. q.op = "complete" => status = "COMPLETED"
    BY <1>1, <2>1 DEF Written, SlotFit
  <2>4. q.op = "cancel" => ~PaidNext(q.s)
    BY <1>1, <2>2 DEF TurnFit, Paid, PaidNext
  <2> HIDE DEF status
  <2>5. /\ \A t \in Shipments \ {q.s} : shipment'[t] = shipment[t]
        /\ shipment'[q.s].status = status
    BY <1>1, <2>1, <2>2 DEF ShipmentDoc
  <2>6. TurnFit(req[r])'
    <3>1. CASE req'[r] = Idle
      BY <3>1, TurnIdle DEF TurnFit
    <3>2. CASE req'[r] # Idle
      <4>1. req'[r] = [q EXCEPT !.step = AfterSave(q.op)] /\ AfterSave(q.op) # "idle"
        BY <1>1, <2>2, <3>2 DEF Launch
      <4>2. req'[r].op = q.op /\ req'[r].s = q.s /\ req'[r].step = AfterSave(q.op)
        BY <1>1, <4>1 DEF RequestState
      <4>3. AfterSave(q.op) \notin {"insert", "save"} /\ q.op \in {"complete", "cancel"}
        BY <4>1 DEF AfterSave
      <4> QED BY <2>3, <2>4, <2>5, <4>2, <4>3 DEF TurnFit, Paid, PaidNext
    <3> QED BY <3>1, <3>2
  <2> QED BY <1>3, <1>4, <2>1, <2>2, <2>5, <2>6
<1>7. ASSUME NEW s \in q.batch, SaveAssigned(r, s)
      PROVE  /\ \A t \in Shipments : Paid(t)' => shipment'[t].status = "COMPLETED"
             /\ TurnFit(req[r])'
  <2>1. s \in Shipments /\ q.step = "assign"
    BY <1>1, <1>7 DEF RequestState, SaveAssigned
  <2>2. q.op = "assign"
    BY <1>1, <2>1 DEF SlotFit, RequestState
  <2>3. shipment[s].status # "COMPLETED"
    BY <1>1, <2>2 DEF TurnFit
  <2>4. shipment' = [shipment EXCEPT ![s].status = "ASSIGNED", ![s].assigned = TRUE] /\ UNCHANGED tx
    BY <1>7 DEF SaveAssigned
  <2>5. /\ \A t \in Shipments \ {s} : shipment'[t] = shipment[t]
        /\ shipment'[s].status = "ASSIGNED"
    BY <1>1, <2>1, <2>4 DEF ShipmentDoc
  <2>6. req'[r] = Idle \/ req'[r] = [q EXCEPT !.batch = @ \ {s}]
    BY <1>1, <1>7 DEF SaveAssigned, Finish
  <2>7. TurnFit(req[r])'
    <3>1. CASE req'[r] = Idle
      BY <3>1, TurnIdle DEF TurnFit
    <3>2. CASE req'[r] # Idle
      <4>1. req'[r].op = "assign" /\ req'[r].step = "assign" /\ req'[r].batch \subseteq q.batch
        BY <1>1, <2>1, <2>2, <2>6, <3>2 DEF RequestState
      <4>2. \A t \in q.batch : t \in Shipments /\ shipment[t].status # "COMPLETED"
        BY <1>1, <2>2 DEF TurnFit, RequestState
      <4>3. \A t \in q.batch : shipment'[t].status # "COMPLETED"
        BY <2>5, <4>2
      <4> QED BY <4>1, <4>3 DEF TurnFit
    <3> QED BY <3>1, <3>2
  <2> QED BY <1>4, <2>1, <2>3, <2>4, <2>5, <2>7
<1>8. CASE ~InsertShipment(r) /\ ~SaveStage(r) /\ \A s \in q.batch : ~SaveAssigned(r, s)
  <2>1. UNCHANGED shipment /\ q.step # "save"
    BY <1>8, AwayFromTicket
  <2>2. \A s \in Shipments : Paid(s)' => Paid(s) \/ (s = q.s /\ q.op = "complete")
    <3>1. CASE \E j \in q.jobs : EnterTransaction(r, j)
      BY <3>1, PaidBy
    <3>2. CASE \A j \in q.jobs : ~EnterTransaction(r, j)
      BY <3>2, AwayFromTx DEF Paid
    <3> QED BY <3>1, <3>2
  <2>3. \A s \in Shipments : Paid(s)' => shipment'[s].status = "COMPLETED"
    BY <1>1, <2>1, <2>2 DEF TurnFit
  <2>4. q.op = "cancel" => q.s \in Shipments
    BY <1>1 DEF SlotFit, TicketSteps
  <2>5. q.op = "cancel" => ~PaidNext(q.s)
    BY <1>1, <2>2, <2>4 DEF TurnFit, Paid, PaidNext
  <2>6. TurnFit(req[r])'
    BY <1>1, <2>1, <2>5, ContinueMoves, TurnKept
  <2> QED BY <1>3, <2>3, <2>6
<1> QED BY <1>3, <1>5, <1>6, <1>7, <1>8

LEMMA BeginTurn ==
    ASSUME TypeInv, TypeInv', NEW r \in Requests, Begin(r),
           \A s \in Shipments : Paid(s) => shipment[s].status = "COMPLETED"
    PROVE  TurnFit(req[r])'
<1> DEFINE q == req'[r]
<1>1. q \in RequestState /\ SlotFit(q)
  BY DEF TypeInv, TypeOK
<1>2. UNCHANGED <<shipment, tx>>
  BY BeginFrame
<1>3. /\ q.op = "create" => \E s \in Shipments : q.s = s /\ BeginCreate(r, s)
      /\ q.op \in {"stage", "complete", "cancel"} => q.seen = shipment[q.s]
      /\ q.op \in {"complete", "cancel"} => q.step = "save"
  BY BeginFrame, CallFacts
<1>4. /\ \A s \in q.batch : shipment[s].status # "COMPLETED"
      /\ q.step = "save" => shipment[q.s].status # "COMPLETED"
  BY CallOpen
<1>5. q.step = "insert" => q.op = "create"
  BY <1>1 DEF SlotFit, RequestState
<1>6. q.step = "save" => q.op \in {"stage", "complete", "cancel"} /\ q.s \in Shipments
  BY <1>1 DEF SlotFit, RequestState, TicketSteps
<1>7. q.op = "create" => shipment[q.s].status # "COMPLETED"
  BY <1>3 DEF BeginCreate, Exists
<1>8. q.op = "cancel" => ~Paid(q.s)
  BY <1>3, <1>4, <1>6
<1> HIDE DEF q
<1>9. /\ q.op = "assign" => \A s \in q.batch : shipment'[s].status # "COMPLETED"
      /\ q.step = "insert" => shipment'[q.s].status # "COMPLETED"
      /\ q.step = "save" => shipment'[q.s].status = q.seen.status /\ q.seen.status # "COMPLETED"
      /\ q.op = "complete" /\ q.step # "save" => shipment'[q.s].status = "COMPLETED"
      /\ q.op = "cancel" => ~PaidNext(q.s)
  BY <1>2, <1>3, <1>4, <1>5, <1>6, <1>7, <1>8 DEF Paid, PaidNext
<1> QED BY <1>9 DEF TurnFit, Paid, PaidNext, q

LEMMA TurnNext ==
    ASSUME TypeInv, TypeInv', CalmInv, ShareInv, TurnInv, [Next]_vars
    PROVE  TurnInv'
<1> SUFFICES ASSUME Calm'
             PROVE  /\ \A s \in Shipments : Paid(s)' => shipment'[s].status = "COMPLETED"
                    /\ \A p \in Requests : TurnFit(req[p])'
  BY DEF TurnInv
<1>1. Calm /\ Alone
  BY CalmBefore DEF CalmInv
<1>2. /\ shipment \in [Shipments -> ShipmentDoc] /\ req \in [Requests -> RequestState]
      /\ \A s \in Shipments : Paid(s) => shipment[s].status = "COMPLETED"
      /\ \A p \in Requests : TurnFit(req[p])
  BY <1>1 DEF TypeInv, TypeOK, TurnInv
<1>3. disturbed \in Nat /\ disturbed' = 0
  BY LedgerAssumption DEF TypeInv, TypeOK, Calm
<1>4. CASE UNCHANGED vars
  BY <1>2, <1>4 DEF vars, TurnFit, Paid
<1>5. ~Crash
  BY <1>3 DEF Crash, Disturb
<1>6. ASSUME NEW s \in Shipments, NEW kind \in Sweeps, ReceiptSweep(s, kind)
      PROVE  /\ \A t \in Shipments : Paid(t)' => shipment'[t].status = "COMPLETED"
             /\ \A p \in Requests : TurnFit(req[p])'
  <2>1. Quiet /\ shipment[s].status # "COMPLETED"
    BY <1>6, SweepInTurn
  <2>2. /\ UNCHANGED <<tx, req>>
        /\ \A t \in Shipments \ {s} : shipment'[t] = shipment[t]
    BY <1>2, <1>6 DEF ReceiptSweep
  <2>3. \A p \in Requests : req'[p] = Idle
    BY <2>1, <2>2 DEF Quiet
  <2>4. \A p \in Requests : TurnFit(req[p])'
    BY <2>3, TurnIdle DEF TurnFit
  <2> QED BY <1>2, <2>1, <2>2, <2>4 DEF Paid
<1>7. ASSUME NEW r \in Requests, Begin(r)
      PROVE  /\ \A t \in Shipments : Paid(t)' => shipment'[t].status = "COMPLETED"
             /\ \A p \in Requests : TurnFit(req[p])'
  <2>1. /\ \A q \in Requests \ {r} : req'[q] = req[q]
        /\ UNCHANGED <<shipment, tx>>
    BY <1>7, BeginFrame
  <2>2. \A q \in Requests \ {r} : TurnFit(req[q])'
    BY <1>2, <2>1 DEF TurnFit, Paid
  <2>3. TurnFit(req[r])'
    BY <1>2, <1>7, <2>1, BeginTurn
  <2> QED BY <1>2, <2>1, <2>2, <2>3 DEF Paid
<1> QED BY <1>1, <1>4, <1>5, <1>6, <1>7, TurnContinue DEF Next

LEMMA TurnInit == Init => TurnInv
BY DEF Init, TurnInv, TurnFit, Idle, Paid, NoTx

-----------------------------------------------------------------------------
(* The books.  A wallet is ahead of its transactions by what the wallet        *)
(* updates between their two writes have saved and not entered yet.           *)

PendingEffect(j) ==
    CASE j.kind = "pend" -> j.amount [] j.kind \in {"post", "void"} -> -j.amount [] OTHER -> 0

CreditEffect(j) == IF j.kind \in {"post", "credit"} THEN j.amount ELSE 0

\* The wallet differs from its transactions by this much.
Balanced(a, pending, credited) ==
    /\ wallet[a].pending = Opening[a].pending + PendingTotal(a) + pending
    /\ wallet[a].credited = Opening[a].credited + PostedTotal(a) + credited
    /\ wallet[a].debited = Opening[a].debited + DebitTotal(a)
    /\ wallet[a].available = wallet[a].credited - wallet[a].debited

\* A wallet update applies to its transaction and has seen the current wallet.
JobFit(j, q) ==
    /\ j.kind # "debit"
    /\ j.kind \in {"post", "void"} =>
        tx[q.s][j.role].status = "PENDING" /\ tx[q.s][j.role].amount = j.amount
    /\ j.kind = "pend" => tx[q.s][j.role].status = "ABSENT" /\ j.amount >= 0
    /\ j.at = "save" => j.seen = wallet[Account(q.s, j.role)]

\* A handler updates each wallet at most once at a time.
JobsFit(q) ==
    /\ \A j, k \in q.jobs : j.role = k.role => j = k
    /\ \A j \in q.jobs : JobFit(j, q)
    /\ q.step \notin {"jobs", "pendingCompany"} => q.jobs = {}
    /\ q.step = "pendingCompany" =>
        \A j \in q.jobs : j.at = "load" /\ j.kind = "post" /\ j.role # "COMPANY"

\* The updates of this account whose transaction is still to be entered.
Noted(q, a) == {j \in q.jobs : j.at = "note" /\ Account(q.s, j.role) = a}

BooksFit(q, a) ==
    /\ \A j \in Noted(q, a) : Balanced(a, PendingEffect(j), CreditEffect(j))
    /\ Noted(q, a) = {} => Balanced(a, 0, 0)

BooksInv ==
    Calm => /\ \A s \in Shipments, role \in Roles :
                tx[s][role].status = "PENDING" => tx[s][role].amount >= 0
            /\ \A r \in Requests : JobsFit(req[r])
            /\ \A a \in Accounts :
                /\ Quiet => BooksFit(Idle, a)
                /\ \A r \in Requests : req[r] # Idle => BooksFit(req[r], a)

\* The two branches of a ticket and the company have wallets of their own.
LEMMA AccountsApart ==
    ASSUME NEW s \in Shipments, NEW role \in Roles, NEW other \in Roles, role # other
    PROVE  Account(s, role) # Account(s, other)
BY LedgerAssumption DEF Account, Roles

LEMMA FiniteEntries ==
    ASSUME NEW a
    PROVE  IsFiniteSet(Entries(a)) /\ Entries(a) \subseteq Shipments \X Roles
<1>1. Roles = (({} \cup {"SENDER"}) \cup {"RECEIVER"}) \cup {"COMPANY"}
  BY DEF Roles
<1>2. IsFiniteSet(Roles)
  BY <1>1, FS_EmptySet, FS_AddElement
<1>3. IsFiniteSet(Shipments \X Roles)
  BY <1>2, LedgerAssumption, FS_Product
<1>4. Entries(a) \subseteq Shipments \X Roles
  BY DEF Entries
<1> QED BY <1>3, <1>4, FS_Subset

LEMMA TicketNumbers ==
    ASSUME NEW t \in TxDoc
    PROVE  PendingOf(t) \in Int /\ PostedOf(t) \in Int /\ SumFunction(t.debits) \in Int
<1>1. t.amount \in Int /\ t.direct \in Seq(Int) /\ t.debits \in Seq(Int)
  BY DEF TxDoc
<1>2. SumFunction(t.direct) \in Int /\ SumFunction(t.debits) \in Int
  BY <1>1, SumSequence
<1> QED BY <1>1, <1>2 DEF PendingOf, PostedOf

\* The numbers the totals are sums of.
LEMMA EntryNumbers ==
    ASSUME TypeOK, NEW e \in Shipments \X Roles
    PROVE  /\ Pendings[e] = PendingOf(tx[e[1]][e[2]]) /\ Pendings[e] \in Int
           /\ Postings[e] = PostedOf(tx[e[1]][e[2]]) /\ Postings[e] \in Int
           /\ Reversals[e] = SumFunction(tx[e[1]][e[2]].debits) /\ Reversals[e] \in Int
<1>1. tx[e[1]][e[2]] \in TxDoc
  BY DEF TypeOK
<1> QED BY <1>1, TicketNumbers DEF Pendings, Postings, Reversals

LEMMA TotalsInt ==
    ASSUME TypeOK, NEW a
    PROVE  PendingTotal(a) \in Int /\ PostedTotal(a) \in Int /\ DebitTotal(a) \in Int
<1>1. \A e \in Entries(a) : Pendings[e] \in Int /\ Postings[e] \in Int /\ Reversals[e] \in Int
  BY FiniteEntries, EntryNumbers
<1> QED BY <1>1, FiniteEntries, SumInt DEF PendingTotal, PostedTotal, DebitTotal

LEMMA TotalsKept ==
    ASSUME UNCHANGED tx, NEW a
    PROVE  /\ PendingTotal(a)' = PendingTotal(a) /\ PostedTotal(a)' = PostedTotal(a)
           /\ DebitTotal(a)' = DebitTotal(a)
BY DEF PendingTotal, PostedTotal, DebitTotal, Pendings, Postings, Reversals

\* One entry changes: the totals of its account change with it, no others do.
LEMMA TotalsMove ==
    ASSUME TypeOK, TypeOK', NEW s \in Shipments, NEW role \in Roles, NEW a,
           \A t \in Shipments, other \in Roles :
               t # s \/ other # role => tx'[t][other] = tx[t][other]
    PROVE  /\ Account(s, role) = a =>
                /\ PendingTotal(a)' =
                     PendingTotal(a) - PendingOf(tx[s][role]) + PendingOf(tx'[s][role])
                /\ PostedTotal(a)' = PostedTotal(a) - PostedOf(tx[s][role]) + PostedOf(tx'[s][role])
                /\ DebitTotal(a)' = DebitTotal(a) - SumFunction(tx[s][role].debits)
                                                  + SumFunction(tx'[s][role].debits)
           /\ Account(s, role) # a =>
                /\ PendingTotal(a)' = PendingTotal(a) /\ PostedTotal(a)' = PostedTotal(a)
                /\ DebitTotal(a)' = DebitTotal(a)
<1> DEFINE x == <<s, role>>
           S == Entries(a)
<1>1. x \in Shipments \X Roles /\ (x \in S <=> Account(s, role) = a)
  BY DEF Entries
<1>2. IsFiniteSet(S) /\ S \subseteq Shipments \X Roles
  BY FiniteEntries
<1>3. ASSUME NEW e \in Shipments \X Roles
      PROVE  /\ Pendings[e] \in Int /\ Postings[e] \in Int /\ Reversals[e] \in Int
             /\ Pendings[e] = PendingOf(tx[e[1]][e[2]])
             /\ Postings[e] = PostedOf(tx[e[1]][e[2]])
             /\ Reversals[e] = SumFunction(tx[e[1]][e[2]].debits)
  BY EntryNumbers
<1>4. ASSUME NEW e \in Shipments \X Roles
      PROVE  /\ Pendings'[e] \in Int /\ Postings'[e] \in Int /\ Reversals'[e] \in Int
             /\ Pendings'[e] = PendingOf(tx'[e[1]][e[2]])
             /\ Postings'[e] = PostedOf(tx'[e[1]][e[2]])
             /\ Reversals'[e] = SumFunction(tx'[e[1]][e[2]].debits)
  <2>1. tx'[e[1]][e[2]] \in TxDoc
    BY DEF TypeOK
  <2> QED BY <2>1, TicketNumbers DEF Pendings, Postings, Reversals
<1>5. ASSUME NEW e \in Shipments \X Roles, e # x
      PROVE  tx'[e[1]][e[2]] = tx[e[1]][e[2]]
  <2>1. e[1] \in Shipments /\ e[2] \in Roles /\ (e[1] # s \/ e[2] # role)
    BY <1>5
  <2> QED BY <2>1
<1>6. ASSUME NEW e \in S
      PROVE  e # x => /\ Pendings'[e] = Pendings[e] /\ Postings'[e] = Postings[e]
                      /\ Reversals'[e] = Reversals[e]
  BY <1>2, <1>3, <1>4, <1>5
<1>7. /\ x[1] = s /\ x[2] = role
      /\ Entries(a)' = S
  BY DEF Entries, Account
<1>8. /\ PendingTotal(a) = SumFunctionOnSet(Pendings, S)
      /\ PostedTotal(a) = SumFunctionOnSet(Postings, S)
      /\ DebitTotal(a) = SumFunctionOnSet(Reversals, S)
      /\ PendingTotal(a)' = SumFunctionOnSet(Pendings', S)
      /\ PostedTotal(a)' = SumFunctionOnSet(Postings', S)
      /\ DebitTotal(a)' = SumFunctionOnSet(Reversals', S)
  BY DEF PendingTotal, PostedTotal, DebitTotal, Entries
<1>9. /\ Pendings[x] = PendingOf(tx[s][role]) /\ Pendings'[x] = PendingOf(tx'[s][role])
      /\ Postings[x] = PostedOf(tx[s][role]) /\ Postings'[x] = PostedOf(tx'[s][role])
      /\ Reversals[x] = SumFunction(tx[s][role].debits)
      /\ Reversals'[x] = SumFunction(tx'[s][role].debits)
  BY <1>1, <1>3, <1>4, <1>7
<1>10. \A e \in S : /\ Pendings[e] \in Int /\ Postings[e] \in Int /\ Reversals[e] \in Int
                    /\ Pendings'[e] \in Int /\ Postings'[e] \in Int /\ Reversals'[e] \in Int
  BY <1>2, <1>3, <1>4
<1> DEFINE f1 == Pendings
           f2 == Postings
           f3 == Reversals
           g1 == Pendings'
           g2 == Postings'
           g3 == Reversals'
<1> HIDE DEF S, x, f1, f2, f3, g1, g2, g3
<1>11. /\ x \in S => SumFunctionOnSet(g1, S) = SumFunctionOnSet(f1, S) - f1[x] + g1[x]
       /\ x \notin S => SumFunctionOnSet(g1, S) = SumFunctionOnSet(f1, S)
  <2>1. \A e \in S : f1[e] \in Int /\ g1[e] \in Int /\ (e # x => g1[e] = f1[e])
    BY <1>6, <1>10 DEF f1, g1
  <2> QED BY <1>2, <2>1, SumChange
<1>12. /\ x \in S => SumFunctionOnSet(g2, S) = SumFunctionOnSet(f2, S) - f2[x] + g2[x]
       /\ x \notin S => SumFunctionOnSet(g2, S) = SumFunctionOnSet(f2, S)
  <2>1. \A e \in S : f2[e] \in Int /\ g2[e] \in Int /\ (e # x => g2[e] = f2[e])
    BY <1>6, <1>10 DEF f2, g2
  <2> QED BY <1>2, <2>1, SumChange
<1>13. /\ x \in S => SumFunctionOnSet(g3, S) = SumFunctionOnSet(f3, S) - f3[x] + g3[x]
       /\ x \notin S => SumFunctionOnSet(g3, S) = SumFunctionOnSet(f3, S)
  <2>1. \A e \in S : f3[e] \in Int /\ g3[e] \in Int /\ (e # x => g3[e] = f3[e])
    BY <1>6, <1>10 DEF f3, g3
  <2> QED BY <1>2, <2>1, SumChange
<1> QED BY <1>1, <1>8, <1>9, <1>11, <1>12, <1>13 DEF f1, f2, f3, g1, g2, g3

\* What a wallet update brings to a wallet it has seen as it is.
LEMMA SavedMoved ==
    ASSUME NEW w \in WalletDoc, NEW kind \in {"pend", "credit", "post", "void"}, NEW amount \in Int,
           kind \in {"post", "void"} => w.pending - amount >= 0
    PROVE  LET u == Saved(w, w, Moved(w, kind, amount))
               j == [kind |-> kind, amount |-> amount]
           IN  /\ u.pending = w.pending + PendingEffect(j)
               /\ u.credited = w.credited + CreditEffect(j)
               /\ u.available = w.available + CreditEffect(j)
               /\ u.debited = w.debited
<1> DEFINE m == Moved(w, kind, amount)
           u == Saved(w, w, m)
<1>1. DOMAIN w = {"open", "available", "pending", "credited", "debited"}
  BY DEF WalletDoc
<1>2. /\ u.pending = m.pending /\ u.credited = m.credited /\ u.available = m.available
      /\ u.debited = m.debited
  BY <1>1 DEF Saved, Written
<1>3. /\ kind = "pend" => m = Pend(w, amount)
      /\ kind = "credit" => m = Credit(w, amount)
      /\ kind = "post" => m = Post(w, amount)
      /\ kind = "void" => m = Void(w, amount)
  BY DEF Moved
<1> HIDE DEF u, m
<1>4. /\ w.pending \in Int /\ w.credited \in Int /\ w.available \in Int /\ w.debited \in Int
      /\ Credit(w, amount).pending = w.pending
  BY DEF WalletDoc, Credit
<1>5. /\ m.debited = w.debited
      /\ m.pending = (IF kind = "pend" THEN w.pending + amount
                      ELSE IF kind = "credit" THEN w.pending ELSE w.pending - amount)
      /\ m.credited = (IF kind \in {"post", "credit"} THEN w.credited + amount ELSE w.credited)
      /\ m.available = (IF kind \in {"post", "credit"} THEN w.available + amount ELSE w.available)
  <2>1. CASE kind = "pend"
    BY <1>3, <2>1 DEF Pend, WalletDoc
  <2>2. CASE kind = "credit"
    BY <1>3, <2>2 DEF Credit, WalletDoc
  <2>3. CASE kind = "post"
    <3>1. AtLeastZero(w.pending - amount) = w.pending - amount
      BY <1>4, <2>3 DEF AtLeastZero
    <3>2. m = [Credit(w, amount) EXCEPT !.pending = AtLeastZero(w.pending - amount)]
      BY <1>3, <1>4, <2>3 DEF Post
    <3> QED BY <2>3, <3>1, <3>2 DEF Credit, WalletDoc
  <2>4. CASE kind = "void"
    <3>1. AtLeastZero(w.pending - amount) = w.pending - amount
      BY <1>4, <2>4 DEF AtLeastZero
    <3> QED BY <1>3, <2>4, <3>1 DEF Void, WalletDoc
  <2> QED BY <2>1, <2>2, <2>3, <2>4
<1>6. /\ m.pending = w.pending + PendingEffect([kind |-> kind, amount |-> amount])
      /\ m.credited = w.credited + CreditEffect([kind |-> kind, amount |-> amount])
      /\ m.available = w.available + CreditEffect([kind |-> kind, amount |-> amount])
  BY <1>4, <1>5 DEF PendingEffect, CreditEffect
<1> QED BY <1>2, <1>5, <1>6 DEF u, m

\* What it brings to the ticket's sums when its transaction is entered.
LEMMA EnteredMoved ==
    ASSUME NEW t \in TxDoc, NEW kind \in {"pend", "credit", "post", "void"}, NEW amount \in Int,
           kind \in {"post", "void"} => t.status = "PENDING" /\ t.amount = amount,
           kind = "pend" => t.status = "ABSENT"
    PROVE  LET u == Entered(t, kind, amount)
               j == [kind |-> kind, amount |-> amount]
           IN  /\ PendingOf(u) = PendingOf(t) + PendingEffect(j)
               /\ PostedOf(u) = PostedOf(t) + CreditEffect(j)
               /\ SumFunction(u.debits) = SumFunction(t.debits)
<1> DEFINE u == Entered(t, kind, amount)
           p == SumFunction(t.direct)
           n == SumFunction(u.direct)
<1>1. t.amount \in Int /\ t.direct \in Seq(Int) /\ t.debits \in Seq(Int)
  BY DEF TxDoc
<1>2. p \in Int /\ SumFunction(Append(t.direct, amount)) = p + amount
  BY <1>1, SumSequence
<1>3. /\ u.debits = t.debits
      /\ u.direct = (IF kind = "credit" THEN Append(t.direct, amount) ELSE t.direct)
      /\ u.amount = (IF kind = "pend" THEN amount ELSE t.amount)
      /\ u.status = (CASE kind = "pend" -> "PENDING" [] kind = "credit" -> t.status
                       [] kind = "post" -> "POSTED" [] kind = "void" -> "VOID")
  BY DEF Entered, TxDoc
<1>4. n = (IF kind = "credit" THEN p + amount ELSE p)
  BY <1>2, <1>3
<1>5. /\ PendingOf(u) = (IF u.status = "PENDING" THEN u.amount ELSE 0)
      /\ PendingOf(t) = (IF t.status = "PENDING" THEN t.amount ELSE 0)
      /\ PostedOf(u) = (IF u.status = "POSTED" THEN u.amount ELSE 0) + n
      /\ PostedOf(t) = (IF t.status = "POSTED" THEN t.amount ELSE 0) + p
  BY DEF PendingOf, PostedOf
<1>6. SumFunction(u.debits) = SumFunction(t.debits)
  BY <1>3
<1> HIDE DEF u, p, n
<1>7. p \in Int /\ t.amount \in Int
  BY <1>1, <1>2
<1>8. PendingOf(u) = PendingOf(t) + PendingEffect([kind |-> kind, amount |-> amount])
  BY <1>3, <1>5, <1>7 DEF PendingEffect
<1>9. PostedOf(u) = PostedOf(t) + CreditEffect([kind |-> kind, amount |-> amount])
  BY <1>3, <1>4, <1>5, <1>7 DEF CreditEffect
<1> QED BY <1>6, <1>8, <1>9 DEF u

\* What a step of a wallet update leaves of the handler's updates.
LEMMA ReplacedSlot ==
    ASSUME TypeInv, NEW r \in Requests, NEW j, NEW k, Replace(r, j, k)
    PROVE  /\ req'[r].jobs = (req[r].jobs \ {j}) \cup {k}
           /\ req'[r].s = req[r].s /\ req'[r].step = req[r].step
BY DEF TypeInv, TypeOK, RequestState, Replace

LEMMA EndedSlot ==
    ASSUME TypeInv, NEW r \in Requests, NEW j \in req[r].jobs, req[r].step = "jobs", EndJob(r, j)
    PROVE  /\ req'[r].jobs = req[r].jobs \ {j}
           /\ req'[r].jobs = {} \/ (req'[r].s = req[r].s /\ req'[r].step = "jobs")
           /\ req'[r].step = "pendingCompany" => req'[r].jobs = {}
<1>1. req \in [Requests -> RequestState] /\ req[r] \in RequestState
  BY DEF TypeInv, TypeOK
<1>2. CASE req[r].jobs # {j}
  <2> DEFINE slot == [req[r] EXCEPT !.jobs = @ \ {j}]
  <2>1. slot.jobs = req[r].jobs \ {j} /\ slot.s = req[r].s /\ slot.step = "jobs"
    BY <1>1 DEF RequestState
  <2>2. req' = [req EXCEPT ![r] = slot]
    BY <1>2 DEF EndJob
  <2> HIDE DEF slot
  <2>3. req'[r] = slot
    BY <1>1, <2>2
  <2> QED BY <2>1, <2>3
<1>3. CASE req[r].jobs = {j} /\ req[r].then = "idle"
  BY <1>1, <1>3 DEF EndJob, Finish, Idle
<1>4. CASE req[r].jobs = {j} /\ req[r].then # "idle"
  <2>1. req' = [req EXCEPT ![r].jobs = {}, ![r].step = req[r].then]
    BY <1>4 DEF EndJob
  <2>2. req'[r].jobs = {}
    BY <1>1, <2>1 DEF RequestState
  <2> QED BY <1>4, <2>2
<1> QED BY <1>2, <1>3, <1>4

\* What the books need after a step of the only handler.
BooksAfter(r) ==
    /\ \A s \in Shipments, role \in Roles :
        tx'[s][role].status = "PENDING" => tx'[s][role].amount >= 0
    /\ JobsFit(req[r])'
    /\ \A a \in Accounts : BooksFit(req[r], a)'

LEMMA BooksFitKept ==
    ASSUME NEW r \in Requests, NEW a \in Accounts, BooksFit(req[r], a),
           wallet'[a].pending = wallet[a].pending, wallet'[a].credited = wallet[a].credited,
           wallet'[a].debited = wallet[a].debited, wallet'[a].available = wallet[a].available,
           PendingTotal(a)' = PendingTotal(a), PostedTotal(a)' = PostedTotal(a),
           DebitTotal(a)' = DebitTotal(a),
           Noted(req[r], a)' = Noted(req[r], a)
    PROVE  BooksFit(req[r], a)'
BY DEF BooksFit, Balanced, PendingEffect, CreditEffect

\* A handler that goes on without touching a wallet or a transaction.
LEMMA BooksQuietly ==
    ASSUME NEW r \in Requests, UNCHANGED <<wallet, tx>>,
           \A s \in Shipments, role \in Roles :
               tx[s][role].status = "PENDING" => tx[s][role].amount >= 0,
           \A a \in Accounts : BooksFit(req[r], a),
           \A a \in Accounts : Noted(req[r], a)' = Noted(req[r], a),
           JobsFit(req[r])'
    PROVE  BooksAfter(r)
BY TotalsKept, BooksFitKept DEF BooksAfter

\* One update has gone on; the others still apply.
LEMMA FitReplaced ==
    ASSUME TypeInv, NEW r \in Requests, NEW j \in req[r].jobs, NEW k, Replace(r, j, k),
           JobsFit(req[r]), req[r].step = "jobs", UNCHANGED tx,
           k.role = j.role, k.kind = j.kind, k.amount = j.amount,
           k.at = "save" => k.seen = wallet'[Account(req[r].s, k.role)],
           \A i \in req[r].jobs : i # j => wallet'[Account(req[r].s, i.role)]
                                            = wallet[Account(req[r].s, i.role)]
    PROVE  JobsFit(req[r])'
<1> DEFINE q == req[r]
           p == req'[r]
<1>1. p.jobs = (q.jobs \ {j}) \cup {k} /\ p.s = q.s /\ p.step = "jobs"
  BY ReplacedSlot
<1> HIDE DEF p
<1>2. ASSUME NEW i \in q.jobs, i # j
      PROVE  JobFit(i, q) /\ i.role # j.role
  BY <1>2 DEF JobsFit
<1>3. JobFit(j, q)
  BY DEF JobsFit
<1>4. ASSUME NEW i \in p.jobs
      PROVE  /\ i.kind # "debit"
             /\ i.kind \in {"post", "void"} =>
                  tx'[p.s][i.role].status = "PENDING" /\ tx'[p.s][i.role].amount = i.amount
             /\ i.kind = "pend" => tx'[p.s][i.role].status = "ABSENT" /\ i.amount >= 0
             /\ i.at = "save" => i.seen = wallet'[Account(p.s, i.role)]
  <2>1. CASE i = k
    BY <1>1, <1>3, <2>1 DEF JobFit
  <2>2. CASE i # k
    <3>1. i \in q.jobs /\ i # j
      BY <1>1, <1>4, <2>2
    <3> QED BY <1>1, <1>2, <3>1 DEF JobFit
  <2> QED BY <2>1, <2>2
<1>5. \A i, h \in p.jobs : i.role = h.role => i = h
  <2>1. \A i, h \in q.jobs : i.role = h.role => i = h
    BY DEF JobsFit
  <2> QED BY <1>1, <2>1
<1>6. \A i \in p.jobs : JobFit(i, req[r])'
  BY <1>4 DEF JobFit, p, Account
<1> QED BY <1>1, <1>5, <1>6 DEF JobsFit, p

LEMMA FitEnded ==
    ASSUME TypeInv, NEW r \in Requests, NEW j \in req[r].jobs, EndJob(r, j),
           JobsFit(req[r]), req[r].step = "jobs", UNCHANGED wallet,
           \A i \in req[r].jobs : i # j => tx'[req[r].s][i.role] = tx[req[r].s][i.role]
    PROVE  JobsFit(req[r])'
<1> DEFINE q == req[r]
           p == req'[r]
<1>1. /\ p.jobs = q.jobs \ {j}
      /\ p.jobs = {} \/ (p.s = q.s /\ p.step = "jobs")
      /\ p.step = "pendingCompany" => p.jobs = {}
  BY EndedSlot
<1> HIDE DEF p
<1>2. ASSUME NEW i \in p.jobs
      PROVE  /\ i.kind # "debit"
             /\ i.kind \in {"post", "void"} =>
                  tx'[p.s][i.role].status = "PENDING" /\ tx'[p.s][i.role].amount = i.amount
             /\ i.kind = "pend" => tx'[p.s][i.role].status = "ABSENT" /\ i.amount >= 0
             /\ i.at = "save" => i.seen = wallet'[Account(p.s, i.role)]
  <2>1. p.s = q.s /\ i \in q.jobs /\ i # j
    BY <1>1, <1>2
  <2>2. JobFit(i, q)
    BY <2>1 DEF JobsFit
  <2> QED BY <2>1, <2>2 DEF JobFit
<1>3. \A i \in p.jobs : JobFit(i, req[r])'
  BY <1>2 DEF JobFit, p, Account
<1>4. \A i, h \in p.jobs : i.role = h.role => i = h
  BY <1>1 DEF JobsFit
<1> QED BY <1>1, <1>3, <1>4 DEF JobsFit, p

\* The account of a wallet update is nobody else's in its handler.
LEMMA JobAccounts ==
    ASSUME TypeInv, NEW r \in Requests, NEW j \in req[r].jobs, JobsFit(req[r]), req[r].step = "jobs"
    PROVE  /\ req[r].s \in Shipments /\ j \in Jobs /\ j.role \in Roles
           /\ Account(req[r].s, j.role) \in Accounts
           /\ \A i \in req[r].jobs : i # j =>
                /\ i.role \in Roles /\ i.role # j.role
                /\ Account(req[r].s, i.role) # Account(req[r].s, j.role)
<1>1. req[r] \in RequestState /\ SlotFit(req[r])
  BY DEF TypeInv, TypeOK
<1>2. req[r].s \in Shipments /\ \A i \in req[r].jobs : i \in Jobs /\ i.role \in Roles
  BY <1>1 DEF SlotFit, TicketSteps, RequestState, Jobs
<1>3. \A i \in req[r].jobs : i # j => i.role # j.role
  BY DEF JobsFit
<1> QED BY <1>2, <1>3, AccountsApart, AccountType

\* What BooksInv says of the handler under way.
BooksOf(r) ==
    /\ \A s \in Shipments, role \in Roles :
        tx[s][role].status = "PENDING" => tx[s][role].amount >= 0
    /\ JobsFit(req[r])
    /\ \A a \in Accounts : BooksFit(req[r], a)

LEMMA LoadBooks ==
    ASSUME TypeInv, NEW r \in Requests, BooksOf(r), NEW j \in req[r].jobs, LoadWallet(r, j)
    PROVE  BooksAfter(r)
<1> DEFINE q == req[r]
           w == wallet[Account(q.s, j.role)]
           k == IF w.open THEN [j EXCEPT !.at = "save", !.seen = w] ELSE [j EXCEPT !.at = "open"]
<1>1. q.step = "jobs" /\ j.at = "load" /\ UNCHANGED <<wallet, tx>> /\ Replace(r, j, k)
  BY DEF LoadWallet, Running, JobAccount
<1>2. j \in Jobs /\ JobsFit(q)
  BY <1>1, JobAccounts DEF BooksOf
<1>3. /\ k.role = j.role /\ k.kind = j.kind /\ k.amount = j.amount
      /\ k.at # "note" /\ (k.at = "save" => k.seen = w)
  BY <1>2 DEF Jobs
<1> HIDE DEF k
<1>4. JobsFit(req[r])'
  BY <1>1, <1>2, <1>3, FitReplaced
<1>5. ASSUME NEW a \in Accounts
      PROVE  Noted(req[r], a)' = Noted(req[r], a)
  BY <1>1, <1>3, ReplacedSlot DEF Noted, Account
<1> QED BY <1>1, <1>4, <1>5, BooksQuietly DEF BooksOf

LEMMA OpenBooks ==
    ASSUME TypeInv, NEW r \in Requests, BooksOf(r), NEW j \in req[r].jobs, OpenWallet(r, j)
    PROVE  BooksAfter(r)
<1> DEFINE q == req[r]
           b == Account(q.s, j.role)
           k == [j EXCEPT !.at = "save", !.seen = wallet'[b]]
<1>1. q.step = "jobs" /\ j.at = "open" /\ UNCHANGED tx
  BY DEF OpenWallet, Running
<1>2. /\ j \in Jobs /\ JobsFit(q) /\ b \in Accounts
      /\ \A i \in q.jobs : i # j => Account(q.s, i.role) # b
      /\ wallet \in [Accounts -> WalletDoc]
  BY <1>1, JobAccounts DEF BooksOf, TypeInv, TypeOK
<1>3. CASE wallet[b].open
  <2>1. EndJob(r, j) /\ UNCHANGED wallet
    BY <1>3 DEF OpenWallet, JobAccount
  <2>2. JobsFit(req[r])'
    BY <1>1, <1>2, <2>1, FitEnded
  <2>3. ASSUME NEW a \in Accounts
        PROVE  Noted(req[r], a)' = Noted(req[r], a)
    BY <1>1, <2>1, EndedSlot DEF Noted, Account
  <2> QED BY <1>1, <2>1, <2>2, <2>3, BooksQuietly DEF BooksOf
<1>4. CASE ~wallet[b].open
  <2>1. wallet' = [wallet EXCEPT ![b].open = TRUE] /\ Replace(r, j, k)
    BY <1>4 DEF OpenWallet, JobAccount
  <2>2. k.role = j.role /\ k.kind = j.kind /\ k.amount = j.amount /\ k.at = "save" /\ k.seen = wallet'[b]
    BY <1>2 DEF Jobs
  <2> HIDE DEF k
  <2>3. \A a \in Accounts \ {b} : wallet'[a] = wallet[a]
    BY <1>2, <2>1
  <2>4. \A i \in q.jobs : i # j => wallet'[Account(q.s, i.role)] = wallet[Account(q.s, i.role)]
    BY <1>1, <1>2, <2>1
  <2>5. JobsFit(req[r])'
    BY <1>1, <1>2, <2>1, <2>2, <2>4, FitReplaced
  <2>6. ASSUME NEW a \in Accounts
        PROVE  BooksFit(req[r], a)'
    <3>1. Noted(req[r], a)' = Noted(req[r], a)
      BY <1>1, <2>1, <2>2, ReplacedSlot DEF Noted, Account
    <3>2. /\ wallet'[a].pending = wallet[a].pending /\ wallet'[a].credited = wallet[a].credited
          /\ wallet'[a].debited = wallet[a].debited /\ wallet'[a].available = wallet[a].available
      BY <1>2, <2>1 DEF WalletDoc
    <3> QED BY <1>1, <3>1, <3>2, TotalsKept, BooksFitKept DEF BooksOf
  <2> QED BY <1>1, <2>5, <2>6 DEF BooksAfter, BooksOf
<1> QED BY <1>3, <1>4

\* A pending credit is part of what the wallet has pending.
LEMMA PendingCovered ==
    ASSUME NoNegativeShare, TypeOK, NEW s \in Shipments, NEW role \in Roles,
           \A t \in Shipments, other \in Roles :
               tx[t][other].status = "PENDING" => tx[t][other].amount >= 0,
           Balanced(Account(s, role), 0, 0), tx[s][role].status = "PENDING"
    PROVE  wallet[Account(s, role)].pending - tx[s][role].amount >= 0
<1> DEFINE a == Account(s, role)
           x == <<s, role>>
<1>1. IsFiniteSet(Entries(a)) /\ Entries(a) \subseteq Shipments \X Roles /\ x \in Entries(a)
  BY FiniteEntries DEF Entries
<1>2. ASSUME NEW e \in Shipments \X Roles
      PROVE  Pendings[e] \in Nat
  <2>1. tx[e[1]][e[2]] \in TxDoc /\ e[1] \in Shipments /\ e[2] \in Roles
    BY DEF TypeOK
  <2>2. PendingOf(tx[e[1]][e[2]]) \in Nat
    BY <2>1 DEF PendingOf, TxDoc
  <2> QED BY <2>2 DEF Pendings
<1>3. Pendings[x] = tx[s][role].amount
  BY DEF Pendings, PendingOf
<1>4. Pendings[x] <= PendingTotal(a)
  BY <1>1, <1>2, SumAtLeast DEF PendingTotal
<1>5. a \in Accounts /\ Opening[a].pending >= 0 /\ Opening[a].pending \in Int
  BY AccountType, LedgerAssumption DEF NoNegativeShare, WalletDoc
<1>6. PendingTotal(a) \in Int /\ tx[s][role].amount \in Int
  BY TotalsInt DEF TypeOK, TxDoc
<1>7. wallet[a].pending = Opening[a].pending + PendingTotal(a) + 0
  BY DEF Balanced
<1> HIDE DEF a, x
<1> QED BY <1>3, <1>4, <1>5, <1>6, <1>7 DEF a

LEMMA SaveBooks ==
    ASSUME NoNegativeShare, TypeInv, NEW r \in Requests, BooksOf(r), NEW j \in req[r].jobs,
           SaveWallet(r, j)
    PROVE  BooksAfter(r)
<1> DEFINE q == req[r]
           b == Account(q.s, j.role)
           w == wallet[b]
           u == Saved(w, w, Moved(w, j.kind, j.amount))
           k == [j EXCEPT !.at = "note", !.seen = NoWallet]
<1>1. q.step = "jobs" /\ j.at = "save" /\ UNCHANGED tx /\ Replace(r, j, k)
  BY DEF SaveWallet, Running
<1>2. /\ q.s \in Shipments /\ j \in Jobs /\ j.role \in Roles /\ JobsFit(q) /\ b \in Accounts
      /\ \A i \in q.jobs : i # j => Account(q.s, i.role) # b
      /\ wallet \in [Accounts -> WalletDoc]
  BY <1>1, JobAccounts DEF BooksOf, TypeInv, TypeOK
<1>3. JobFit(j, q) /\ j.seen = w
  BY <1>1, <1>2 DEF JobsFit, JobFit
<1>4. wallet' = [wallet EXCEPT ![b] = u]
  BY <1>3 DEF SaveWallet, JobAccount
<1>5. k.role = j.role /\ k.kind = j.kind /\ k.amount = j.amount /\ k.at = "note"
  BY <1>2 DEF Jobs
<1>6. Noted(q, b) = {}
  BY <1>1, <1>2 DEF Noted
<1>7. Balanced(b, 0, 0)
  BY <1>2, <1>6 DEF BooksOf, BooksFit
<1>8. j.kind \in {"post", "void"} => w.pending - j.amount >= 0
  BY <1>2, <1>3, <1>7, PendingCovered DEF BooksOf, JobFit, TypeInv
<1>9. j.kind \in {"pend", "credit", "post", "void"} /\ j.amount \in Int /\ w \in WalletDoc
  BY <1>2, <1>3 DEF JobFit, Jobs
<1>10. /\ u.pending = w.pending + PendingEffect(j)
       /\ u.credited = w.credited + CreditEffect(j)
       /\ u.available = w.available + CreditEffect(j)
       /\ u.debited = w.debited
  BY <1>8, <1>9, SavedMoved DEF PendingEffect, CreditEffect
<1>11. /\ PendingEffect(k) = PendingEffect(j) /\ PendingEffect(j) \in Int
       /\ CreditEffect(k) = CreditEffect(j) /\ CreditEffect(j) \in Int
  BY <1>5, <1>9 DEF PendingEffect, CreditEffect
<1> HIDE DEF k, u
<1>12. \A i \in q.jobs : i # j => wallet'[Account(q.s, i.role)] = wallet[Account(q.s, i.role)]
  BY <1>2, <1>4
<1>13. JobsFit(req[r])'
  BY <1>1, <1>2, <1>5, <1>12, FitReplaced
<1>14. /\ req'[r].jobs = (q.jobs \ {j}) \cup {k} /\ req'[r].s = q.s
  BY <1>1, ReplacedSlot
<1>15. ASSUME NEW a \in Accounts, a # b
       PROVE  BooksFit(req[r], a)'
  <2>1. Noted(req[r], a)' = Noted(req[r], a)
    BY <1>1, <1>5, <1>14, <1>15 DEF Noted, Account
  <2>2. wallet'[a] = wallet[a]
    BY <1>2, <1>4, <1>15
  <2> QED BY <1>1, <2>1, <2>2, TotalsKept, BooksFitKept DEF BooksOf
<1>16. ASSUME NEW a \in Accounts, a = b
       PROVE  BooksFit(req[r], a)'
  <2>1. \A i : i \in Noted(req[r], a)' <=> i = k
    BY <1>1, <1>2, <1>5, <1>14, <1>16 DEF Noted, Account
  <2>2. wallet'[a] = u
    BY <1>2, <1>4, <1>16
  <2>3. Balanced(a, PendingEffect(k), CreditEffect(k))'
    <3>1. /\ PendingTotal(a)' = PendingTotal(a) /\ PostedTotal(a)' = PostedTotal(a)
          /\ DebitTotal(a)' = DebitTotal(a)
      BY <1>1, TotalsKept
    <3>2. /\ PendingTotal(a) \in Int /\ PostedTotal(a) \in Int /\ DebitTotal(a) \in Int
          /\ Opening[a].pending \in Int /\ Opening[a].credited \in Int /\ Opening[a].debited \in Int
      BY TotalsInt, LedgerAssumption DEF TypeInv, WalletDoc
    <3> QED BY <1>7, <1>10, <1>11, <1>16, <2>2, <3>1, <3>2 DEF Balanced
  <2> QED BY <2>1, <2>3 DEF BooksFit
<1> QED BY <1>1, <1>13, <1>15, <1>16 DEF BooksAfter, BooksOf

LEMMA EnterBooks ==
    ASSUME TypeInv, TypeInv', ShareInv, NEW r \in Requests, BooksOf(r), NEW j \in req[r].jobs,
           EnterTransaction(r, j)
    PROVE  BooksAfter(r)
<1> DEFINE q == req[r]
           b == Account(q.s, j.role)
           t == tx[q.s][j.role]
           u == Entered(t, j.kind, j.amount)
<1>1. /\ q.step = "jobs" /\ j.at = "note" /\ UNCHANGED wallet /\ EndJob(r, j)
      /\ tx' = [tx EXCEPT ![q.s][j.role] = u]
  BY DEF EnterTransaction, Running
<1>2. /\ q.s \in Shipments /\ j \in Jobs /\ j.role \in Roles /\ JobsFit(q) /\ b \in Accounts
      /\ \A i \in q.jobs : i # j => i.role # j.role /\ Account(q.s, i.role) # b
      /\ tx \in [Shipments -> [Roles -> TxDoc]] /\ t \in TxDoc
  BY <1>1, JobAccounts DEF BooksOf, TypeInv, TypeOK
<1>3. JobFit(j, q)
  BY <1>2 DEF JobsFit
<1>4. j.kind \in {"pend", "credit", "post", "void"} /\ j.amount \in Int
  BY <1>2, <1>3 DEF JobFit, Jobs
<1>5. /\ PendingOf(u) = PendingOf(t) + PendingEffect(j)
      /\ PostedOf(u) = PostedOf(t) + CreditEffect(j)
      /\ SumFunction(u.debits) = SumFunction(t.debits)
  BY <1>2, <1>3, <1>4, EnteredMoved DEF JobFit, PendingEffect, CreditEffect
<1>6. u.status = "PENDING" => u.amount >= 0
  <2>1. /\ j.kind = "pend" => u.amount = j.amount
        /\ j.kind = "credit" => u.amount = t.amount /\ u.status = t.status
        /\ j.kind = "post" => u.status = "POSTED"
        /\ j.kind = "void" => u.status = "VOID"
    BY <1>2 DEF Entered, TxDoc
  <2>2. t.status = "PENDING" => t.amount >= 0
    BY <1>2 DEF BooksOf
  <2> HIDE DEF u
  <2> QED BY <1>3, <1>4, <2>1, <2>2 DEF JobFit
<1>7. PendingEffect(j) \in Int /\ CreditEffect(j) \in Int
  BY <1>4 DEF PendingEffect, CreditEffect
<1>8. PendingOf(t) \in Int /\ PostedOf(t) \in Int /\ SumFunction(t.debits) \in Int
  BY <1>2, TicketNumbers
<1> HIDE DEF u
<1>9. \A s \in Shipments, role \in Roles :
          tx'[s][role] = (IF s = q.s /\ role = j.role THEN u ELSE tx[s][role])
  BY <1>1, <1>2
<1>10. JobsFit(req[r])'
  BY <1>1, <1>2, <1>9, FitEnded
<1>11. /\ req'[r].jobs = q.jobs \ {j}
       /\ req'[r].jobs = {} \/ req'[r].s = q.s
  BY <1>1, EndedSlot
<1>12. \A s \in Shipments, role \in Roles :
           tx'[s][role].status = "PENDING" => tx'[s][role].amount >= 0
  BY <1>6, <1>9 DEF BooksOf
<1>13. ASSUME NEW a \in Accounts, a # b
       PROVE  BooksFit(req[r], a)'
  <2>1. Noted(req[r], a)' = Noted(req[r], a)
    BY <1>11, <1>13 DEF Noted, Account
  <2>2. /\ PendingTotal(a)' = PendingTotal(a) /\ PostedTotal(a)' = PostedTotal(a)
        /\ DebitTotal(a)' = DebitTotal(a)
    BY <1>2, <1>9, <1>13, TotalsMove DEF TypeInv
  <2> QED BY <1>1, <2>1, <2>2, BooksFitKept DEF BooksOf
<1>14. ASSUME NEW a \in Accounts, a = b
       PROVE  BooksFit(req[r], a)'
  <2>1. Noted(req[r], a)' = {}
    BY <1>2, <1>11, <1>14 DEF Noted, Account
  <2>2. /\ PendingTotal(a)' = PendingTotal(a) - PendingOf(t) + PendingOf(u)
        /\ PostedTotal(a)' = PostedTotal(a) - PostedOf(t) + PostedOf(u)
        /\ DebitTotal(a)' = DebitTotal(a) - SumFunction(t.debits) + SumFunction(u.debits)
    BY <1>2, <1>9, <1>14, TotalsMove DEF TypeInv
  <2>3. j \in Noted(q, a)
    BY <1>1, <1>14 DEF Noted
  <2>4. Balanced(a, PendingEffect(j), CreditEffect(j))
    BY <2>3 DEF BooksOf, BooksFit
  <2>5. /\ PendingTotal(a) \in Int /\ PostedTotal(a) \in Int /\ DebitTotal(a) \in Int
        /\ Opening[a].pending \in Int /\ Opening[a].credited \in Int /\ Opening[a].debited \in Int
    BY TotalsInt, LedgerAssumption DEF TypeInv, WalletDoc
  <2> HIDE DEF t
  <2>6. Balanced(a, 0, 0)'
    BY <1>1, <1>5, <1>7, <1>8, <2>2, <2>4, <2>5 DEF Balanced
  <2> QED BY <2>1, <2>6 DEF BooksFit
<1> QED BY <1>10, <1>12, <1>13, <1>14 DEF BooksAfter

-----------------------------------------------------------------------------
(* The wallet updates a handler sets off on.                                 *)

\* Updates that are all to begin, one per role.
Fresh(jobs, s) ==
    /\ \A j, k \in jobs : j.role = k.role => j = k
    /\ \A j \in jobs :
        /\ j.at = "load" /\ j.kind # "debit"
        /\ j.kind \in {"post", "void"} =>
            tx[s][j.role].status = "PENDING" /\ tx[s][j.role].amount = j.amount
        /\ j.kind = "pend" => tx[s][j.role].status = "ABSENT" /\ j.amount >= 0

LEMMA SettleFresh ==
    ASSUME NEW s, NEW roles, NEW kind \in {"post", "void"}
    PROVE  /\ Fresh(Settle(s, roles, kind), s)
           /\ \A j \in Settle(s, roles, kind) : j.kind = kind /\ j.role \in roles
<1> DEFINE J(role) == NewJob(role, 0, kind, tx[s][role].amount)
<1>1. \A role : /\ J(role).role = role /\ J(role).kind = kind /\ J(role).at = "load"
                /\ J(role).amount = tx[s][role].amount
  BY DEF NewJob
<1>2. ASSUME NEW j \in Settle(s, roles, kind)
      PROVE  j = J(j.role) /\ j.role \in roles /\ tx[s][j.role].status = "PENDING"
  <2>1. PICK role \in Pending(s, roles) : j = J(role)
    BY <1>2 DEF Settle
  <2> QED BY <1>1, <2>1 DEF Pending
<1> HIDE DEF J
<1> QED BY <1>1, <1>2 DEF Fresh

\* A handler without wallet updates under way ends up with fresh ones or none.
LEMMA FreshBooks ==
    ASSUME NEW r \in Requests, BooksOf(r), UNCHANGED <<wallet, tx>>,
           \A j \in req[r].jobs : j.at = "load",
           \/ req'[r].jobs = {}
           \/ /\ Fresh(req'[r].jobs, req'[r].s)
              /\ \/ req'[r].step = "jobs"
                 \/ /\ req'[r].step = "pendingCompany"
                    /\ \A j \in req'[r].jobs : j.kind = "post" /\ j.role # "COMPANY"
    PROVE  BooksAfter(r)
<1>1. JobsFit(req[r])'
  BY DEF Fresh, JobsFit, JobFit
<1>2. \A a \in Accounts : Noted(req[r], a)' = Noted(req[r], a)
  BY DEF Fresh, Noted
<1> QED BY <1>1, <1>2, BooksQuietly DEF BooksOf

\* What each way to go on does to the updates of a handler.
LEMMA JobsAfter ==
    ASSUME TypeInv, NEW r \in Requests
    PROVE  /\ \A step : Goto(r, step) => req'[r].jobs = req[r].jobs
           /\ Finish(r) => req'[r].jobs = {}
           /\ \A jobs, then : Launch(r, jobs, then) =>
                IF jobs = {} THEN req'[r].jobs \in {req[r].jobs, {}}
                ELSE req'[r].jobs = jobs /\ req'[r].step = "jobs" /\ req'[r].s = req[r].s
<1>1. req \in [Requests -> RequestState] /\ req[r] \in RequestState
  BY DEF TypeInv, TypeOK
<1>2. Idle.jobs = {}
  BY DEF Idle
<1>3. \A step : Goto(r, step) => req'[r].jobs = req[r].jobs
  BY <1>1 DEF Goto, RequestState
<1>4. Finish(r) => req'[r].jobs = {}
  BY <1>1, <1>2 DEF Finish
<1>5. ASSUME NEW jobs, NEW then, Launch(r, jobs, then)
      PROVE  IF jobs = {} THEN req'[r].jobs \in {req[r].jobs, {}}
             ELSE req'[r].jobs = jobs /\ req'[r].step = "jobs" /\ req'[r].s = req[r].s
  <2>1. CASE jobs = {}
    <3>1. Finish(r) \/ Goto(r, then)
      BY <1>5, <2>1 DEF Launch, Finish, Goto
    <3> QED BY <1>3, <1>4, <2>1, <3>1
  <2>2. CASE jobs # {}
    <3> DEFINE slot == [req[r] EXCEPT !.step = "jobs", !.jobs = jobs, !.then = then]
    <3>1. slot.jobs = jobs /\ slot.step = "jobs" /\ slot.s = req[r].s
      BY <1>1 DEF RequestState
    <3>2. req' = [req EXCEPT ![r] = slot]
      BY <1>5, <2>2 DEF Launch
    <3> HIDE DEF slot
    <3>3. req'[r] = slot
      BY <1>1, <3>2
    <3> QED BY <2>2, <3>1, <3>3
  <2> QED BY <2>1, <2>2
<1> QED BY <1>3, <1>4, <1>5

\* The shares of a new ticket are entered for the first time.
LEMMA SplitBooks ==
    ASSUME NoNegativeShare, TypeInv, ShareInv, NEW r \in Requests, BooksOf(r), SharesSplit(r),
           UNCHANGED <<wallet, tx>>
    PROVE  BooksAfter(r)
<1> DEFINE q == req[r]
<1>1. /\ q \in RequestState /\ SlotFit(q) /\ ShareFit(q) /\ JobsFit(q)
      /\ req \in [Requests -> RequestState]
  BY DEF TypeInv, TypeOK, ShareInv, BooksOf
<1>2. q.op = "create" /\ q.step \in {"share", "default"}
  BY DEF SharesSplit
<1>3. q.s \in Shipments /\ Untouched(q.s) /\ q.jobs = {}
  BY <1>1, <1>2 DEF SlotFit, ShareFit, JobsFit
<1>4. PICK v \in Versions : \E split \in Splits(CalculatePrice(Parcel[q.s]), Percent[v]) :
          req' = [req EXCEPT ![r].step = "jobs", ![r].then = "idle",
                             ![r].jobs = {NewJob(role, 0, "pend", split[role]) : role \in Roles}]
  BY DEF SharesSplit
<1>5. PICK split \in Splits(CalculatePrice(Parcel[q.s]), Percent[v]) :
          req' = [req EXCEPT ![r].step = "jobs", ![r].then = "idle",
                             ![r].jobs = {NewJob(role, 0, "pend", split[role]) : role \in Roles}]
  BY <1>4
<1> DEFINE J(role) == NewJob(role, 0, "pend", split[role])
           jobs == {J(role) : role \in Roles}
<1>6. \A role \in Roles : split[role] >= 0
  BY <1>3 DEF NoNegativeShare
<1>7. \A role : /\ J(role).role = role /\ J(role).kind = "pend" /\ J(role).at = "load"
                /\ J(role).amount = split[role]
  BY DEF NewJob
<1> HIDE DEF J
<1>8. Fresh(jobs, q.s)
  BY <1>3, <1>6, <1>7 DEF Fresh, Untouched
<1> HIDE DEF jobs
<1>9. req' = [req EXCEPT ![r].step = "jobs", ![r].then = "idle", ![r].jobs = jobs]
  BY <1>5 DEF jobs, J
<1>10. req'[r].jobs = jobs /\ req'[r].s = q.s /\ req'[r].step = "jobs"
  BY <1>1, <1>9 DEF RequestState
<1> QED BY <1>3, <1>8, <1>10, FreshBooks

\* Completing a ticket posts what is pending, or credits everybody.
LEMMA PendingBooks ==
    ASSUME TypeInv, NEW r \in Requests, BooksOf(r), FindPending(r)
    PROVE  BooksAfter(r)
<1> DEFINE q == req[r]
<1>1. /\ q \in RequestState /\ JobsFit(q) /\ req \in [Requests -> RequestState]
      /\ UNCHANGED <<wallet, tx>>
  BY DEF TypeInv, TypeOK, BooksOf, FindPending
<1>2. CASE q.step = "pendingBranch"
  <2> DEFINE posts == Settle(q.s, BranchRoles, "post")
  <2>1. Fresh(posts, q.s) /\ \A j \in posts : j.kind = "post" /\ j.role # "COMPANY"
    BY SettleFresh DEF BranchRoles
  <2> HIDE DEF posts
  <2>2. req' = [req EXCEPT ![r].jobs = posts, ![r].step = "pendingCompany"]
    BY <1>2 DEF FindPending, posts
  <2>3. req'[r].jobs = posts /\ req'[r].s = q.s /\ req'[r].step = "pendingCompany"
    BY <1>1, <2>2 DEF RequestState
  <2>4. q.jobs = {}
    BY <1>1, <1>2 DEF JobsFit
  <2> QED BY <1>1, <2>1, <2>3, <2>4, FreshBooks
<1>3. CASE q.step = "pendingCompany"
  <2> DEFINE company == Settle(q.s, {"COMPANY"}, "post")
             posts == q.jobs \cup company
             C(role) == NewJob(role, 0, "credit", q.split[role])
             credits == {C(role) : role \in Roles}
             jobs == IF posts = {} THEN credits ELSE posts
  <2>1. Fresh(company, q.s) /\ \A j \in company : j.kind = "post" /\ j.role = "COMPANY"
    BY SettleFresh
  <2>2. \A j \in q.jobs : j.at = "load" /\ j.kind = "post" /\ j.role # "COMPANY"
    BY <1>1, <1>3 DEF JobsFit
  <2>3. Launch(r, jobs, "idle")
    BY <1>3 DEF FindPending
  <2> HIDE DEF company
  <2>4. Fresh(posts, q.s)
    <3>1. \A j, k \in posts : j.role = k.role => j = k
      BY <1>1, <2>1, <2>2 DEF JobsFit, Fresh
    <3>2. ASSUME NEW j \in posts
          PROVE  /\ j.at = "load" /\ j.kind = "post"
                 /\ tx[q.s][j.role].status = "PENDING" /\ tx[q.s][j.role].amount = j.amount
      BY <1>1, <2>1, <2>2 DEF JobsFit, JobFit, Fresh
    <3> HIDE DEF posts
    <3> QED BY <3>1, <3>2 DEF Fresh
  <2> HIDE DEF posts
  <2>5. \A role : C(role).role = role /\ C(role).kind = "credit" /\ C(role).at = "load"
    BY DEF NewJob
  <2> HIDE DEF C
  <2>6. Fresh(credits, q.s) /\ credits # {}
    BY <2>5 DEF Fresh, Roles
  <2> HIDE DEF credits
  <2>7. Fresh(jobs, q.s) /\ jobs # {}
    BY <2>4, <2>6
  <2> HIDE DEF jobs
  <2>8. req'[r].jobs = jobs /\ req'[r].step = "jobs" /\ req'[r].s = q.s
    BY <2>3, <2>7, JobsAfter
  <2> QED BY <1>1, <2>2, <2>7, <2>8, FreshBooks
<1> QED BY <1>2, <1>3 DEF FindPending

\* Cancelling a ticket voids what is pending; in turn, nothing was posted.
LEMMA VoidBooks ==
    ASSUME TypeInv, NEW r \in Requests, BooksOf(r), TurnFit(req[r]), FindVoid(r) \/ FindReversed(r)
    PROVE  BooksAfter(r)
<1> DEFINE q == req[r]
<1>1. /\ q \in RequestState /\ SlotFit(q) /\ JobsFit(q) /\ req \in [Requests -> RequestState]
      /\ UNCHANGED <<wallet, tx>> /\ tx \in [Shipments -> [Roles -> TxDoc]]
  BY DEF TypeInv, TypeOK, BooksOf, FindVoid, FindReversed
<1>2. q.step \in {"voidBranch", "voidCompany", "reverseBranch", "reverseCompany"}
  BY DEF FindVoid, FindReversed
<1>3. q.jobs = {} /\ q.op = "cancel" /\ q.s \in Shipments
  BY <1>1, <1>2 DEF JobsFit, SlotFit, TicketSteps, RequestState
<1>4. \A role \in Roles : Posted(tx[q.s][role]) = <<>>
  BY <1>1, <1>3, PostedShare DEF TurnFit, Paid
<1>5. \A jobs, then : Launch(r, jobs, then) /\ Fresh(jobs, q.s) => BooksAfter(r)
  BY <1>1, <1>3, JobsAfter, FreshBooks
<1>6. Finish(r) => BooksAfter(r)
  BY <1>1, <1>3, JobsAfter, FreshBooks
<1>7. CASE FindVoid(r)
  BY <1>5, <1>7, SettleFresh DEF FindVoid
<1>8. CASE FindReversed(r) /\ q.step = "reverseBranch"
  <2>1. ~HasPosted(q.s, BranchRoles)
    BY <1>4 DEF HasPosted, BranchRoles, Roles
  <2> QED BY <1>6, <1>8, <2>1 DEF FindReversed
<1>9. CASE FindReversed(r) /\ q.step = "reverseCompany"
  <2> DEFINE jobs == {j \in Debits(q.s, "COMPANY") : j.n = 1}
  <2>1. jobs = {}
    BY <1>4 DEF Debits, Roles
  <2>2. Launch(r, jobs, "idle")
    BY <1>9 DEF FindReversed
  <2> QED BY <1>5, <2>1, <2>2 DEF Fresh
<1> QED BY <1>7, <1>8, <1>9 DEF FindReversed

\* The steps before and between the wallet updates.
LEMMA PlainBooks ==
    ASSUME NoNegativeShare, TypeInv, ShareInv, NEW r \in Requests, BooksOf(r),
           \/ InsertShipment(r) \/ SaveStage(r) \/ \E s \in req[r].batch : SaveAssigned(r, s)
           \/ GetCurrentConfig(r) \/ CreateDefaultConfig(r)
           \/ DeactivateVersions(r) \/ InsertVersion(r) \/ FindPosted(r)
    PROVE  BooksAfter(r)
<1> DEFINE q == req[r]
<1>1. /\ q \in RequestState /\ JobsFit(q) /\ req \in [Requests -> RequestState]
      /\ UNCHANGED <<wallet, tx>>
  BY DEF TypeInv, TypeOK, BooksOf, InsertShipment, SaveStage, SaveAssigned, GetCurrentConfig,
         CreateDefaultConfig, DeactivateVersions, InsertVersion, FindPosted
<1>2. q.step \notin {"jobs", "pendingCompany"}
  BY DEF InsertShipment, SaveStage, SaveAssigned, GetCurrentConfig, CreateDefaultConfig,
         DeactivateVersions, InsertVersion, FindPosted
<1>3. q.jobs = {}
  BY <1>1, <1>2 DEF JobsFit
<1>4. req'[r].jobs = {} => BooksAfter(r)
  BY <1>1, <1>3, FreshBooks
<1>5. /\ \A step : Goto(r, step) => BooksAfter(r)
      /\ Finish(r) => BooksAfter(r)
      /\ \A then : Launch(r, {}, then) => BooksAfter(r)
  BY <1>3, <1>4, JobsAfter
<1>6. ASSUME NEW v \in Versions, WithConfig(r, v), q.step \in {"share", "default"}
      PROVE  BooksAfter(r)
  <2>1. CASE q.op = "publish"
    <3>1. req' = [req EXCEPT ![r].step = "deactivate", ![r].version = v]
      BY <1>6, <2>1 DEF WithConfig
    <3>2. req'[r].jobs = {}
      BY <1>1, <1>3, <3>1 DEF RequestState
    <3> QED BY <1>4, <3>2
  <2>2. CASE q.op = "create"
    <3>1. SharesSplit(r)
      <4>1. PICK split \in Splits(CalculatePrice(Parcel[q.s]), Percent[v]) :
                Launch(r, {NewJob(role, 0, "pend", split[role]) : role \in Roles}, "idle")
        BY <1>6, <2>2 DEF WithConfig
      <4> DEFINE jobs == {NewJob(role, 0, "pend", split[role]) : role \in Roles}
      <4>2. jobs # {}
        BY DEF Roles
      <4>3. req' = [req EXCEPT ![r].step = "jobs", ![r].then = "idle", ![r].jobs = jobs]
        BY <4>1, <4>2 DEF Launch
      <4> QED BY <1>6, <2>2, <4>3 DEF SharesSplit
    <3> QED BY <1>1, <3>1, SplitBooks
  <2>3. CASE q.op \notin {"publish", "create"}
    <3>1. PICK split : req' = [req EXCEPT ![r].step = "postedBranch", ![r].split = split]
      BY <1>6, <2>3 DEF WithConfig
    <3>2. req'[r].jobs = {}
      BY <1>1, <1>3, <3>1 DEF RequestState
    <3> QED BY <1>4, <3>2
  <2> QED BY <2>1, <2>2, <2>3
<1>7. CASE InsertShipment(r) \/ SaveStage(r) \/ DeactivateVersions(r) \/ InsertVersion(r)
  BY <1>5, <1>7 DEF InsertShipment, SaveStage, DeactivateVersions, InsertVersion
<1>8. ASSUME NEW s \in q.batch, SaveAssigned(r, s)
      PROVE  BooksAfter(r)
  <2>1. CASE q.batch = {s}
    BY <1>5, <1>8, <2>1 DEF SaveAssigned
  <2>2. CASE q.batch # {s}
    <3>1. req' = [req EXCEPT ![r].batch = @ \ {s}]
      BY <1>8, <2>2 DEF SaveAssigned
    <3>2. req'[r].jobs = {}
      BY <1>1, <1>3, <3>1 DEF RequestState
    <3> QED BY <1>4, <3>2
  <2> QED BY <2>1, <2>2
<1>9. CASE GetCurrentConfig(r)
  <2>1. Active # {} => Max(Active) \in Versions
    BY LatestVersion DEF Active
  <2> QED BY <1>5, <1>6, <1>9, <2>1 DEF GetCurrentConfig
<1>10. CASE CreateDefaultConfig(r)
  BY <1>5, <1>6, <1>10, VersionFacts DEF CreateDefaultConfig
<1>11. CASE FindPosted(r)
  <2>1. CASE q.step = "postedBranch"
    <3>1. req' = [req EXCEPT ![r].posted = HasPosted(q.s, BranchRoles), ![r].step = "postedCompany"]
      BY <1>11, <2>1 DEF FindPosted
    <3>2. req'[r].jobs = {}
      BY <1>1, <1>3, <3>1 DEF RequestState
    <3> QED BY <1>4, <3>2
  <2>2. CASE q.step # "postedBranch"
    BY <1>5, <1>11, <2>2 DEF FindPosted
  <2> QED BY <2>1, <2>2
<1> QED BY <1>7, <1>8, <1>9, <1>10, <1>11

LEMMA ContinueBooks ==
    ASSUME NoNegativeShare, TypeInv, TypeInv', ShareInv, NEW r \in Requests, BooksOf(r),
           TurnFit(req[r]), Continue(r)
    PROVE  BooksAfter(r)
BY PlainBooks, PendingBooks, VoidBooks, LoadBooks, OpenBooks, SaveBooks, EnterBooks DEF Continue

\* The books when nobody is under way.
LEMMA BooksIdle ==
    ASSUME NEW a
    PROVE  /\ BooksFit(Idle, a) <=> Balanced(a, 0, 0)
           /\ BooksFit(Idle, a)' <=> Balanced(a, 0, 0)'
BY DEF BooksFit, Noted, Idle

LEMMA BooksNext ==
    ASSUME NoNegativeShare, TypeInv, TypeInv', CalmInv, ShareInv, TurnInv, BooksInv, [Next]_vars
    PROVE  BooksInv'
<1> SUFFICES ASSUME Calm'
             PROVE  /\ \A s \in Shipments, role \in Roles :
                        tx'[s][role].status = "PENDING" => tx'[s][role].amount >= 0
                    /\ \A r \in Requests : JobsFit(req[r])'
                    /\ \A a \in Accounts :
                        /\ Quiet' => BooksFit(Idle, a)'
                        /\ \A r \in Requests : req'[r] # Idle => BooksFit(req[r], a)'
  BY DEF BooksInv, Idle
<1>1. Calm /\ Alone
  BY CalmBefore DEF CalmInv
<1>2. /\ \A s \in Shipments, role \in Roles :
           tx[s][role].status = "PENDING" => tx[s][role].amount >= 0
      /\ \A r \in Requests : JobsFit(req[r]) /\ TurnFit(req[r])
      /\ \A a \in Accounts :
          /\ Quiet => BooksFit(Idle, a)
          /\ \A r \in Requests : req[r] # Idle => BooksFit(req[r], a)
  BY <1>1 DEF BooksInv, TurnInv
<1>3. disturbed \in Nat /\ disturbed' = 0
  BY LedgerAssumption DEF TypeInv, TypeOK, Calm
<1>4. JobsFit(Idle)'
  BY DEF JobsFit, Idle
<1>5. CASE UNCHANGED <<wallet, tx, req>>
  <2>1. /\ \A r \in Requests : JobsFit(req[r])'
        /\ \A a \in Accounts : \A q : BooksFit(q, a) => BooksFit(q, a)'
    BY <1>2, <1>5, TotalsKept DEF JobsFit, JobFit, BooksFit, Balanced, Noted
  <2> QED BY <1>2, <1>5, <2>1 DEF Quiet
<1>6. ~Crash
  BY <1>3 DEF Crash, Disturb
<1>7. ASSUME NEW r \in Requests, Begin(r)
      PROVE  /\ \A s \in Shipments, role \in Roles :
                 tx'[s][role].status = "PENDING" => tx'[s][role].amount >= 0
             /\ \A p \in Requests : JobsFit(req[p])'
             /\ \A a \in Accounts :
                 /\ Quiet' => BooksFit(Idle, a)'
                 /\ \A p \in Requests : req'[p] # Idle => BooksFit(req[p], a)'
  <2>1. /\ \A q \in Requests \ {r} : req'[q] = req[q]
        /\ UNCHANGED <<wallet, tx>> /\ req'[r].jobs = {} /\ Quiet
        /\ req'[r].step \notin {"jobs", "pendingCompany"}
    BY <1>3, <1>7, BeginFrame
  <2>2. \A q \in Requests \ {r} : req'[q] = Idle
    BY <2>1 DEF Quiet
  <2>3. JobsFit(req[r])'
    BY <2>1 DEF JobsFit
  <2>4. \A a \in Accounts : Balanced(a, 0, 0)'
    BY <1>2, <2>1, TotalsKept, BooksIdle DEF Balanced
  <2>5. \A a \in Accounts : BooksFit(req[r], a)'
    BY <2>1, <2>4 DEF BooksFit, Noted
  <2>6. \A p \in Requests : JobsFit(req[p])'
    BY <1>4, <2>2, <2>3 DEF JobsFit, Idle
  <2> QED BY <1>2, <2>1, <2>2, <2>4, <2>5, <2>6, BooksIdle
<1>8. ASSUME NEW r \in Requests, Continue(r)
      PROVE  /\ \A s \in Shipments, role \in Roles :
                 tx'[s][role].status = "PENDING" => tx'[s][role].amount >= 0
             /\ \A p \in Requests : JobsFit(req[p])'
             /\ \A a \in Accounts :
                 /\ Quiet' => BooksFit(Idle, a)'
                 /\ \A p \in Requests : req'[p] # Idle => BooksFit(req[p], a)'
  <2>1. req[r] # Idle
    BY <1>8, ContinueFrame DEF Idle
  <2>2. \A p \in Requests \ {r} : req'[p] = Idle
    BY <1>1, <1>8, <2>1, ContinueFrame DEF Keeps, Alone
  <2>3. BooksAfter(r)
    BY <1>2, <1>8, <2>1, ContinueBooks DEF BooksOf
  <2>4. \A p \in Requests : JobsFit(req[p])'
    BY <1>4, <2>2, <2>3 DEF BooksAfter, JobsFit, Idle
  <2>5. ASSUME NEW a \in Accounts, Quiet'
        PROVE  BooksFit(Idle, a)'
    <3>1. req'[r] = Idle /\ BooksFit(req[r], a)'
      BY <2>3, <2>5 DEF Quiet, BooksAfter, Idle
    <3> QED BY <3>1 DEF BooksFit, Noted, Idle
  <2> QED BY <2>2, <2>3, <2>4, <2>5 DEF BooksAfter
<1>9. ASSUME NEW s \in Shipments, NEW kind \in Sweeps, ReceiptSweep(s, kind)
      PROVE  UNCHANGED <<wallet, tx, req>>
  BY <1>9 DEF ReceiptSweep
<1>10. CASE UNCHANGED vars
  BY <1>5, <1>10 DEF vars
<1> QED BY <1>5, <1>6, <1>7, <1>8, <1>9, <1>10 DEF Next

LEMMA BooksInit ==
    ASSUME Init
    PROVE  BooksInv
<1>1. \A s \in Shipments, role \in Roles : tx[s][role] = NoTx
  BY DEF Init
<1>2. JobsFit(Idle)
  BY DEF JobsFit, Idle
<1>3. ASSUME NEW e \in Shipments \X Roles
      PROVE  Pendings[e] = 0 /\ Postings[e] = 0 /\ Reversals[e] = 0
  <2>1. tx[e[1]][e[2]] = NoTx
    BY <1>1
  <2>2. PendingOf(NoTx) = 0 /\ PostedOf(NoTx) = 0 /\ SumFunction(NoTx.debits) = 0
    BY SumSequence DEF PendingOf, PostedOf, NoTx
  <2> QED BY <2>1, <2>2 DEF Pendings, Postings, Reversals
<1>4. ASSUME NEW a \in Accounts
      PROVE  Balanced(a, 0, 0)
  <2>1. \A e \in Entries(a) : Pendings[e] = 0 /\ Postings[e] = 0 /\ Reversals[e] = 0
    BY <1>3, FiniteEntries
  <2>2. PendingTotal(a) = 0 /\ PostedTotal(a) = 0 /\ DebitTotal(a) = 0
    BY <2>1, FiniteEntries, SumZero DEF PendingTotal, PostedTotal, DebitTotal
  <2>3. wallet[a] = Opening[a] /\ Opening[a] \in WalletDoc
        /\ Opening[a].available = Opening[a].credited - Opening[a].debited
    BY LedgerAssumption DEF Init
  <2> QED BY <2>2, <2>3 DEF Balanced, WalletDoc
<1>5. \A r \in Requests : req[r] = Idle
  BY DEF Init
<1> QED BY <1>1, <1>2, <1>4, <1>5, BooksIdle DEF BooksInv, NoTx

\* BooksBalance for every set of tickets, branches and slots, all prices and
\* percentages that leave nobody a negative share, and any wallets that earlier
\* tickets left: between handlers that run one at a time, what addPendingCredit,
\* the posting and voiding of credits and the immediate credits saved in a wallet
\* is what their transactions add up to.
THEOREM LedgerBooksBalance ==
    ASSUME NoNegativeShare
    PROVE  Spec => []BooksBalance
<1>1. Init => TypeInv /\ ConfigInv /\ CalmInv /\ ShareInv /\ TurnInv /\ BooksInv
  BY InitType, ConfigInit, CalmInit, ShareInit, TurnInit, BooksInit
<1>2. ASSUME TypeInv, ConfigInv, CalmInv, ShareInv, TurnInv, BooksInv, [Next]_vars
      PROVE  TypeInv' /\ ConfigInv' /\ CalmInv' /\ ShareInv' /\ TurnInv' /\ BooksInv'
  <2>1. TypeInv'
    BY <1>2, NextType
  <2> QED BY <1>2, <2>1, ConfigNext, CalmNext, ShareNext, TurnNext, BooksNext
<1>3. TypeInv /\ BooksInv => BooksBalance
  <2>1. ASSUME NEW a \in Accounts, TypeInv, Balanced(a, 0, 0)
        PROVE  /\ wallet[a].pending = Opening[a].pending + PendingTotal(a)
               /\ wallet[a].credited = Opening[a].credited + PostedTotal(a)
               /\ wallet[a].debited = Opening[a].debited + DebitTotal(a)
               /\ wallet[a].available = wallet[a].credited - wallet[a].debited
    BY <2>1, TotalsInt, LedgerAssumption DEF Balanced, TypeInv, WalletDoc
  <2> QED BY <2>1, BooksIdle DEF BooksInv, BooksBalance
<1>4. Spec => [](TypeInv /\ ConfigInv /\ CalmInv /\ ShareInv /\ TurnInv /\ BooksInv)
  BY <1>1, <1>2, PTL DEF Spec
<1> QED BY <1>3, <1>4, PTL

=============================================================================
