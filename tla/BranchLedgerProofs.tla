-------------------------- MODULE BranchLedgerProofs --------------------------
(***************************************************************************)
(* Machine-checked theorems about BranchLedger, for every set of tickets,   *)
(* branches and request slots, all prices and percentages, any wallets that *)
(* earlier tickets left and any number of overlaps, late sweeps and crashes.*)
(***************************************************************************)
EXTENDS BranchLedger, SumProofs

-----------------------------------------------------------------------------
(* Types.  TypeOK alone is not inductive: a handler saves and settles the   *)
(* ticket it was called for, and only what its operation calls for.         *)

TicketSteps == {"insert", "save", "postedBranch", "postedCompany", "pendingBranch",
                "pendingCompany", "voidBranch", "voidCompany", "reverseBranch",
                "reverseCompany", "jobs"}

\* The steps, the wallet updates and the stages of each operation.
SlotFit(q) ==
    /\ q.step \in TicketSteps => q.s \in Shipments
    /\ q.step \in {"share", "default"} /\ q.op # "publish" => q.s \in Shipments
    /\ q.step \in {"deactivate", "activate"} => q.version \in Versions
    /\ q.op = "none" => q.step = "idle"
    /\ q.op = "create" => q.step \in {"insert", "share", "default", "jobs"}
    /\ q.op = "assign" => q.step = "assign"
    /\ q.op = "stage" => q.step = "save" /\ q.status \notin {"ABSENT", "COMPLETED", "CANCELLED"}
    /\ q.op = "complete" => q.step \in {"save", "share", "default", "postedBranch",
                                        "postedCompany", "pendingBranch", "pendingCompany", "jobs"}
    /\ q.op = "cancel" => q.step \in {"save", "voidBranch", "voidCompany", "reverseBranch",
                                      "reverseCompany", "jobs"}
    /\ q.op = "publish" => q.step \in {"share", "default", "deactivate", "activate"}
    /\ q.step = "save" /\ q.op = "complete" => q.status = "COMPLETED"
    /\ q.step = "save" /\ q.op = "cancel" => q.status = "CANCELLED"
    /\ \A j \in q.jobs : 
        \/ q.op = "create" /\ j.kind = "pend"
        \/ q.op = "complete" /\ j.kind \in {"post", "credit"}
        \/ q.op = "cancel" /\ j.kind \in {"void", "debit"}
    /\ q.op # "cancel" => q.then = "idle"
    /\ q.then \in {"idle", "voidCompany", "reverseBranch", "reverseCompany"}

TypeInv == TypeOK /\ \A r \in Requests : SlotFit(req[r])

LEMMA NoWalletType == NoWallet \in WalletDoc
BY DEF NoWallet, WalletDoc

LEMMA NoTxType == NoTx \in TxDoc
BY DEF NoTx, TxDoc

LEMMA IdleType == Idle \in RequestState
<1>1. "ABSENT" \in {"ABSENT"} \cup Range(Stages) /\ NoShipment \in ShipmentDoc
  BY DEF NoShipment, ShipmentDoc
<1> QED BY <1>1 DEF Idle, RequestState, Steps

LEMMA SavedType ==
    ASSUME NEW w \in WalletDoc, NEW seen \in WalletDoc, NEW moved \in WalletDoc
    PROVE  Saved(w, seen, moved) \in WalletDoc
BY DEF Saved, Written, WalletDoc

LEMMA MovedType ==
    ASSUME NEW w \in WalletDoc, NEW kind \in {"pend", "credit", "post", "void", "debit"},
           NEW amount \in Int
    PROVE  Moved(w, kind, amount) \in WalletDoc
<1>1. \A x \in Int : AtLeastZero(x) \in Int
  BY DEF AtLeastZero
<1>2. ASSUME NEW u \in WalletDoc
      PROVE  Credit(u, amount) \in WalletDoc /\ Void(u, amount) \in WalletDoc
  <2>1. u.available + amount \in Int /\ u.credited + amount \in Int /\ u.pending - amount \in Int
    BY DEF WalletDoc
  <2>2. AtLeastZero(u.pending - amount) \in Int
    BY <1>1, <2>1
  <2> QED BY <2>1, <2>2 DEF Credit, Void, WalletDoc
<1>3. Post(w, amount) = Void(Credit(w, amount), amount)
  BY DEF Post, Void
<1>4. Pend(w, amount) \in WalletDoc /\ Debit(w, amount) \in WalletDoc
  <2>1. w.pending + amount \in Int /\ w.debited + amount \in Int /\ w.available - amount \in Int
    BY DEF WalletDoc
  <2>2. AtLeastZero(w.available - amount) \in Int
    BY <1>1, <2>1
  <2> QED BY <2>1, <2>2 DEF Pend, Debit, WalletDoc
<1> QED BY <1>2, <1>3, <1>4 DEF Moved

LEMMA EnteredType ==
    ASSUME NEW t \in TxDoc, NEW kind \in {"pend", "credit", "post", "void", "debit"},
           NEW amount \in Int
    PROVE  Entered(t, kind, amount) \in TxDoc
<1>1. Append(t.direct, amount) \in Seq(Int) /\ Append(t.debits, amount) \in Seq(Int)
  BY DEF TxDoc
<1>2. /\ [t EXCEPT !.status = "PENDING", !.amount = amount] \in TxDoc
      /\ [t EXCEPT !.status = "POSTED"] \in TxDoc
      /\ [t EXCEPT !.status = "VOID"] \in TxDoc
  BY DEF TxDoc
<1>3. /\ [t EXCEPT !.direct = Append(@, amount)] \in TxDoc
      /\ [t EXCEPT !.debits = Append(@, amount)] \in TxDoc
  BY <1>1 DEF TxDoc
<1> QED BY <1>2, <1>3 DEF Entered

LEMMA PriceType ==
    ASSUME NEW s \in Shipments
    PROVE  CalculatePrice(Parcel[s]) \in Int
BY LedgerAssumption DEF CalculatePrice, ResolveWeightTier

\* The shares of a price add up to its nearest cents, whatever their rounding.
LEMMA SplitSum ==
    ASSUME NEW price \in Int, NEW v \in Versions, NEW split \in Splits(price, Percent[v])
    PROVE  /\ split \in [Roles -> Int]
           /\ Rounds(price, Cent, split["SENDER"] + split["RECEIVER"] + split["COMPANY"])
<1>1. Percent[v] \in [SENDER : 0..100, RECEIVER : 0..100, COMPANY : 0..100]
  BY LedgerAssumption DEF Versions
<1>0. /\ Percent[v].SENDER \in Int /\ Percent[v].RECEIVER \in Int
      /\ Cent \in Nat \ {0} /\ 100 * Cent \in Nat \ {0}
  <2>1. Cent \in Nat \ {0}
    BY LedgerAssumption, Zenon
  <2> QED BY <1>1, <2>1
<1>2. /\ price * Percent[v].SENDER \in Int /\ price * Percent[v].RECEIVER \in Int
  BY <1>0
<1>3. PICK a \in BranchShare(price, Percent[v].SENDER),
           b \in BranchShare(price, Percent[v].RECEIVER) :
        \E c \in Nearest(price - Cent * (a + b), Cent) :
            split = [SENDER |-> a, RECEIVER |-> b, COMPANY |-> c]
  BY DEF Splits
<1>4. PICK c \in Nearest(price - Cent * (a + b), Cent) :
          split = [SENDER |-> a, RECEIVER |-> b, COMPANY |-> c]
  BY <1>3
<1>5. a \in Int /\ b \in Int
  BY <1>0, <1>2, NearestType DEF BranchShare
<1>6. price - Cent * (a + b) \in Int
  BY <1>0, <1>5
<1>7. c \in Int /\ Rounds(price - Cent * (a + b), Cent, c)
  BY <1>0, <1>6, NearestType
<1>8. Rounds(price, Cent, (a + b) + c)
  <2>1. a + b \in Int
    BY <1>5
  <2> QED BY <1>0, <1>7, <2>1, RoundsShift
<1>9. split \in [Roles -> Int]
  BY <1>4, <1>5, <1>7 DEF Roles
<1> QED BY <1>4, <1>8, <1>9

LEMMA SlotStep ==
    ASSUME TypeInv, NEW r \in Requests, NEW slot \in RequestState, SlotFit(slot),
           req' = [req EXCEPT ![r] = slot]
    PROVE  req' \in [Requests -> RequestState] /\ \A q \in Requests : SlotFit(req'[q])
BY DEF TypeInv, TypeOK

LEMMA StepNames ==
    {"idle", "insert", "share", "jobs", "pendingCompany", "voidCompany", "reverseBranch",
     "reverseCompany"} \subseteq Steps
BY DEF Steps

\* A handler sets off on wallet updates.
LEMMA LaunchedType ==
    ASSUME NEW q \in RequestState, NEW jobs \in SUBSET Jobs, NEW then \in Steps
    PROVE  [q EXCEPT !.step = "jobs", !.jobs = jobs, !.then = then] \in RequestState
BY StepNames DEF RequestState

LEMMA IdleFit == SlotFit(Idle)
BY DEF Idle, SlotFit, TicketSteps

LEMMA JobType ==
    ASSUME NEW role \in Roles, NEW n \in Nat, NEW amount \in Int,
           NEW kind \in {"pend", "credit", "post", "void", "debit"}
    PROVE  /\ NewJob(role, n, kind, amount) \in Jobs
           /\ NewJob(role, n, kind, amount).kind = kind
BY NoWalletType DEF NewJob, Jobs

LEMMA BeginType ==
    ASSUME TypeInv, NEW r \in Requests, Begin(r)
    PROVE  TypeInv'
<1>1. ASSUME NEW slot \in RequestState, SlotFit(slot), Start(r, slot),
             UNCHANGED <<shipment, swept, config, wallet, tx>>
      PROVE  TypeInv'
  BY <1>1, SlotStep, LedgerAssumption DEF TypeInv, TypeOK, Start, Disturb
<1>2. \A s \in Shipments : shipment[s] \in ShipmentDoc
  BY DEF TypeInv, TypeOK
<1> DEFINE moves == {"RECEIVED_AT_SENDER_WAREHOUSE", "IN_TRANSIT",
                     "RECEIVED_AT_RECEIVER_WAREHOUSE", "READY_FOR_PICKUP"}
<1>3. moves \cup {"COMPLETED", "CANCELLED"} \subseteq Range(Stages)
  BY DEF Range, Stages
<1>4. ASSUME NEW s \in Shipments, NEW op \in {"stage", "complete", "cancel"}, NEW guard,
             NEW status \in moves \cup {"COMPLETED", "CANCELLED"},
             op = "stage" => status \in moves,
             op = "complete" => status = "COMPLETED",
             op = "cancel" => status = "CANCELLED",
             BeginStage(r, s, op, guard, status)
      PROVE  TypeInv'
  <2> DEFINE slot == [Idle EXCEPT !.step = "save", !.op = op, !.s = s, !.status = status,
                                  !.seen = shipment[s]]
  <2>1. slot \in RequestState
    BY <1>2, <1>3, IdleType DEF RequestState, Steps
  <2>2. SlotFit(slot)
    BY <1>4 DEF SlotFit, Idle, TicketSteps
  <2>3. Start(r, slot) /\ UNCHANGED <<shipment, swept, config, wallet, tx>>
    BY <1>4 DEF BeginStage
  <2> HIDE DEF slot
  <2> QED BY <1>1, <2>1, <2>2, <2>3
<1>5. ASSUME NEW s \in Shipments, BeginCreate(r, s)
      PROVE  TypeInv'
  <2> DEFINE slot == [Idle EXCEPT !.step = "insert", !.op = "create", !.s = s]
  <2>1. slot \in RequestState
    BY IdleType DEF RequestState, Steps
  <2>2. SlotFit(slot)
    BY DEF SlotFit, Idle, TicketSteps
  <2>3. Start(r, slot) /\ UNCHANGED <<shipment, swept, config, wallet, tx>>
    BY <1>5 DEF BeginCreate
  <2> HIDE DEF slot
  <2> QED BY <1>1, <2>1, <2>2, <2>3
<1>6. ASSUME NEW batch \in SUBSET Shipments, BeginAssign(r, batch)
      PROVE  TypeInv'
  <2> DEFINE slot == [Idle EXCEPT !.step = "assign", !.op = "assign", !.batch = batch]
  <2>1. slot \in RequestState
    BY IdleType DEF RequestState, Steps
  <2>2. SlotFit(slot)
    BY DEF SlotFit, Idle, TicketSteps
  <2>3. Start(r, slot) /\ UNCHANGED <<shipment, swept, config, wallet, tx>>
    BY <1>6 DEF BeginAssign
  <2> HIDE DEF slot
  <2> QED BY <1>1, <2>1, <2>2, <2>3
<1>7. CASE CreateNewVersion(r)
  <2> DEFINE slot == [Idle EXCEPT !.step = "share", !.op = "publish"]
  <2>1. slot \in RequestState
    BY IdleType DEF RequestState, Steps
  <2>2. SlotFit(slot)
    BY DEF SlotFit, Idle, TicketSteps
  <2>3. Start(r, slot) /\ UNCHANGED <<shipment, swept, config, wallet, tx>>
    BY <1>7 DEF CreateNewVersion
  <2> HIDE DEF slot
  <2> QED BY <1>1, <2>1, <2>2, <2>3
<1>8. ASSUME NEW s \in Shipments,
             \/ ReceiveAtSenderWarehouse(r, s) \/ CollectAssignedShipmentForDriver(r, s)
             \/ DispatchShipment(r, s) \/ DispatchAssignedShipmentForDriver(r, s)
             \/ ReceiveAtDestinationWarehouse(r, s) \/ ArriveAssignedShipmentForDriver(r, s)
             \/ MarkReadyForPickup(r, s)
      PROVE  TypeInv'
  BY <1>4, <1>8
     DEF ReceiveAtSenderWarehouse, CollectAssignedShipmentForDriver, DispatchShipment,
         DispatchAssignedShipmentForDriver, ReceiveAtDestinationWarehouse,
         ArriveAssignedShipmentForDriver, MarkReadyForPickup
<1>9. ASSUME NEW s \in Shipments, CompleteShipment(r, s) \/ CancelShipment(r, s)
      PROVE  TypeInv'
  BY <1>4, <1>9 DEF CompleteShipment, CancelShipment
<1> QED BY <1>5, <1>6, <1>7, <1>8, <1>9 DEF Begin

\* A configuration serves the handler that asked for it.
LEMMA WithConfigType ==
    ASSUME TypeInv, NEW r \in Requests, NEW v \in Versions,
           req[r].step \in {"share", "default"}, WithConfig(r, v)
    PROVE  req' \in [Requests -> RequestState] /\ \A q \in Requests : SlotFit(req'[q])
<1> DEFINE q == req[r]
<1>1. q \in RequestState /\ SlotFit(q)
  BY DEF TypeInv, TypeOK
<1>2. CASE q.op = "publish"
  <2> DEFINE slot == [q EXCEPT !.step = "deactivate", !.version = v]
  <2>1. slot \in RequestState
    BY <1>1 DEF RequestState, Steps
  <2>2. SlotFit(slot)
    BY <1>1, <1>2 DEF SlotFit, RequestState, TicketSteps
  <2>3. req' = [req EXCEPT ![r] = slot]
    BY <1>2 DEF WithConfig
  <2> QED BY <2>1, <2>2, <2>3, SlotStep
<1>3. CASE q.op # "publish"
  <2>1. q.op \in {"create", "complete"} /\ q.s \in Shipments
    BY <1>1, <1>3 DEF SlotFit, RequestState
  <2>2. PICK split \in Splits(CalculatePrice(Parcel[q.s]), Percent[v]) :
            IF q.op = "create"
            THEN Launch(r, {NewJob(role, 0, "pend", split[role]) : role \in Roles}, "idle")
            ELSE req' = [req EXCEPT ![r].step = "postedBranch", ![r].split = split]
    BY <1>3 DEF WithConfig
  <2>3. split \in [Roles -> Int]
    BY <2>1, PriceType, SplitSum
  <2>4. CASE q.op = "create"
    <3> DEFINE jobs == {NewJob(role, 0, "pend", split[role]) : role \in Roles}
               slot == [q EXCEPT !.step = "jobs", !.jobs = jobs, !.then = "idle"]
    <3>1. \A j \in jobs : j \in Jobs /\ j.kind = "pend"
      BY <2>3, JobType
    <3>2. jobs # {}
      BY DEF Roles
    <3>3. req' = [req EXCEPT ![r] = slot]
      BY <2>2, <2>4, <3>2 DEF Launch
    <3> HIDE DEF jobs
    <3>4. slot \in RequestState
      <4>1. jobs \in SUBSET Jobs /\ "idle" \in Steps
        BY <3>1, StepNames
      <4> QED BY <1>1, <4>1, LaunchedType
    <3>5. SlotFit(slot)
      BY <1>1, <2>1, <2>4, <3>1 DEF SlotFit, RequestState, TicketSteps
    <3> QED BY <3>3, <3>4, <3>5, SlotStep
  <2>5. CASE q.op = "complete"
    <3> DEFINE slot == [q EXCEPT !.step = "postedBranch", !.split = split]
    <3>1. slot \in RequestState
      BY <1>1, <2>3 DEF RequestState, Steps
    <3>2. SlotFit(slot)
      BY <1>1, <2>1, <2>5 DEF SlotFit, RequestState, TicketSteps
    <3>3. req' = [req EXCEPT ![r] = slot]
      BY <2>2, <2>5
    <3> QED BY <3>1, <3>2, <3>3, SlotStep
  <2> QED BY <2>1, <2>4, <2>5
<1> QED BY <1>2, <1>3

LEMMA LaunchType ==
    ASSUME TypeInv, NEW r \in Requests, NEW jobs \in SUBSET Jobs, NEW then \in Steps,
           req[r].step \in TicketSteps,
           Launch(r, jobs, then),
           \A j \in jobs : \/ req[r].op = "complete" /\ j.kind \in {"post", "credit"}
                           \/ req[r].op = "cancel" /\ j.kind \in {"void", "debit"},
           \/ req[r].op = "complete" /\ jobs # {} /\ then = "idle"
           \/ /\ req[r].op = "cancel"
              /\ then \in {"idle", "voidCompany", "reverseBranch", "reverseCompany"}
    PROVE  req' \in [Requests -> RequestState] /\ \A q \in Requests : SlotFit(req'[q])
<1> DEFINE q == req[r]
<1>1. q \in RequestState /\ SlotFit(q) /\ q.s \in Shipments
  BY DEF TypeInv, TypeOK, SlotFit
<1>2. CASE jobs = {} /\ then = "idle"
  <2>1. req' = [req EXCEPT ![r] = Idle]
    BY <1>2 DEF Launch
  <2> QED BY <2>1, SlotStep, IdleType, IdleFit
<1>3. CASE jobs = {} /\ then # "idle"
  <2> DEFINE slot == [q EXCEPT !.step = then]
  <2>1. slot \in RequestState
    BY <1>1 DEF RequestState
  <2>2. SlotFit(slot)
    BY <1>1, <1>3 DEF SlotFit, RequestState, TicketSteps
  <2>3. req' = [req EXCEPT ![r] = slot]
    BY <1>3 DEF Launch
  <2> QED BY <2>1, <2>2, <2>3, SlotStep
<1>4. CASE jobs # {}
  <2> DEFINE slot == [q EXCEPT !.step = "jobs", !.jobs = jobs, !.then = then]
  <2>1. slot \in RequestState
    BY <1>1, LaunchedType
  <2>2. SlotFit(slot)
    BY <1>1 DEF SlotFit, RequestState, TicketSteps
  <2>3. req' = [req EXCEPT ![r] = slot]
    BY <1>4 DEF Launch
  <2> QED BY <2>1, <2>2, <2>3, SlotStep
<1> QED BY <1>2, <1>3, <1>4

\* A handler takes its next step, or ends.
LEMMA GotoType ==
    ASSUME TypeInv, NEW r \in Requests, NEW step \in Steps, Goto(r, step),
           SlotFit([req[r] EXCEPT !.step = step])
    PROVE  req' \in [Requests -> RequestState] /\ \A q \in Requests : SlotFit(req'[q])
<1>1. [req[r] EXCEPT !.step = step] \in RequestState
  BY DEF TypeInv, TypeOK, RequestState
<1>2. req' = [req EXCEPT ![r] = [req[r] EXCEPT !.step = step]]
  BY DEF Goto
<1> QED BY <1>1, <1>2, SlotStep

LEMMA FinishType ==
    ASSUME TypeInv, NEW r \in Requests, Finish(r)
    PROVE  req' \in [Requests -> RequestState] /\ \A q \in Requests : SlotFit(req'[q])
BY SlotStep, IdleType, IdleFit DEF Finish

\* The transactions of a ticket and what a handler makes of them.
LEMMA PostedType ==
    ASSUME NEW t \in TxDoc
    PROVE  Posted(t) \in Seq(Int)
<1>1. t.direct \in Seq(Int) /\ t.amount \in Int
  BY DEF TxDoc
<1>2. <<t.amount>> \in Seq(Int)
  BY <1>1
<1> QED BY <1>1, <1>2 DEF Posted

LEMMA SettleType ==
    ASSUME TypeOK, NEW s \in Shipments, NEW roles \in SUBSET Roles,
           NEW kind \in {"post", "void"}
    PROVE  /\ Settle(s, roles, kind) \in SUBSET Jobs
           /\ \A j \in Settle(s, roles, kind) : j.kind = kind
<1>1. \A role \in Roles : tx[s][role] \in TxDoc
  BY DEF TypeOK
<1>2. \A role \in Pending(s, roles) : role \in Roles /\ tx[s][role].amount \in Int
  BY <1>1 DEF Pending, TxDoc
<1> QED BY <1>2, JobType DEF Settle

LEMMA DebitsType ==
    ASSUME TypeOK, NEW s \in Shipments, NEW role \in Roles
    PROVE  /\ Debits(s, role) \in SUBSET Jobs
           /\ \A j \in Debits(s, role) : j.kind = "debit"
<1> DEFINE amounts == Posted(tx[s][role])
<1>1. amounts \in Seq(Int)
  BY PostedType DEF TypeOK
<1>2. \A n \in DOMAIN amounts : n \in Nat /\ amounts[n] \in Int
  BY <1>1
<1>3. Debits(s, role) = {NewJob(role, n, "debit", amounts[n]) : n \in DOMAIN amounts}
  BY DEF Debits
<1> HIDE DEF amounts
<1> QED BY <1>2, <1>3, JobType

LEMMA ReplaceType ==
    ASSUME TypeInv, NEW r \in Requests, NEW j \in req[r].jobs, NEW k \in Jobs,
           k.kind = j.kind, Replace(r, j, k)
    PROVE  req' \in [Requests -> RequestState] /\ \A q \in Requests : SlotFit(req'[q])
<1> DEFINE slot == [req[r] EXCEPT !.jobs = (@ \ {j}) \cup {k}]
<1>1. req[r] \in RequestState /\ SlotFit(req[r])
  BY DEF TypeInv, TypeOK
<1>2. slot \in RequestState
  BY <1>1 DEF RequestState
<1>3. SlotFit(slot)
  BY <1>1 DEF SlotFit, RequestState
<1>4. req' = [req EXCEPT ![r] = slot]
  BY DEF Replace
<1> QED BY <1>2, <1>3, <1>4, SlotStep

LEMMA EndJobType ==
    ASSUME TypeInv, NEW r \in Requests, NEW j \in req[r].jobs, req[r].step = "jobs", EndJob(r, j)
    PROVE  req' \in [Requests -> RequestState] /\ \A q \in Requests : SlotFit(req'[q])
<1>1. req[r] \in RequestState /\ SlotFit(req[r]) /\ req[r].s \in Shipments
  BY DEF TypeInv, TypeOK, SlotFit, TicketSteps
<1>2. CASE req[r].jobs # {j}
  <2> DEFINE slot == [req[r] EXCEPT !.jobs = @ \ {j}]
  <2>1. slot \in RequestState
    BY <1>1 DEF RequestState
  <2>2. SlotFit(slot)
    BY <1>1 DEF SlotFit, RequestState
  <2>3. req' = [req EXCEPT ![r] = slot]
    BY <1>2 DEF EndJob
  <2> QED BY <2>1, <2>2, <2>3, SlotStep
<1>3. CASE req[r].jobs = {j} /\ req[r].then = "idle"
  BY <1>3, FinishType DEF EndJob
<1>4. CASE req[r].jobs = {j} /\ req[r].then # "idle"
  <2> DEFINE slot == [req[r] EXCEPT !.jobs = {}, !.step = req[r].then]
  <2>1. slot \in RequestState
    BY <1>1 DEF RequestState
  <2>2. SlotFit(slot)
    BY <1>1, <1>4 DEF SlotFit, RequestState, TicketSteps
  <2>3. req' = [req EXCEPT ![r] = slot]
    BY <1>4 DEF EndJob
  <2> QED BY <2>1, <2>2, <2>3, SlotStep
<1> QED BY <1>2, <1>3, <1>4

LEMMA AccountType ==
    ASSUME NEW s \in Shipments, NEW role \in Roles
    PROVE  Account(s, role) \in Accounts
BY LedgerAssumption DEF Account, Accounts

LEMMA JobsType ==
    ASSUME TypeInv, NEW r \in Requests, NEW j \in req[r].jobs,
           LoadWallet(r, j) \/ OpenWallet(r, j) \/ SaveWallet(r, j) \/ EnterTransaction(r, j)
    PROVE  TypeInv'
<1> DEFINE a == JobAccount(r, j)
<1>1. /\ req[r] \in RequestState /\ SlotFit(req[r])
      /\ req[r].step = "jobs" /\ req[r].s \in Shipments /\ j \in Jobs
  BY DEF TypeInv, TypeOK, SlotFit, TicketSteps, RequestState, LoadWallet, OpenWallet, SaveWallet,
         EnterTransaction, Running
<1>2. a \in Accounts /\ wallet[a] \in WalletDoc
  BY <1>1, AccountType DEF JobAccount, Jobs, TypeInv, TypeOK
<1>3. CASE LoadWallet(r, j)
  <2> DEFINE k == IF wallet[a].open THEN [j EXCEPT !.at = "save", !.seen = wallet[a]]
                                    ELSE [j EXCEPT !.at = "open"]
  <2>1. k \in Jobs /\ k.kind = j.kind
    BY <1>1, <1>2 DEF Jobs
  <2>2. Replace(r, j, k)
    BY <1>3 DEF LoadWallet
  <2> HIDE DEF k
  <2> QED BY <1>3, <2>1, <2>2, ReplaceType DEF LoadWallet, TypeInv, TypeOK
<1>4. CASE OpenWallet(r, j) /\ wallet[a].open
  BY <1>1, <1>4, EndJobType DEF OpenWallet, TypeInv, TypeOK
<1>5. CASE OpenWallet(r, j) /\ ~wallet[a].open
  <2> DEFINE k == [j EXCEPT !.at = "save", !.seen = wallet'[a]]
  <2>1. wallet' = [wallet EXCEPT ![a].open = TRUE]
    BY <1>5 DEF OpenWallet
  <2>2. wallet' \in [Accounts -> WalletDoc]
    BY <1>2, <2>1 DEF TypeInv, TypeOK, WalletDoc
  <2>3. k \in Jobs /\ k.kind = j.kind
    BY <1>1, <1>2, <2>2 DEF Jobs
  <2>4. Replace(r, j, k)
    BY <1>5 DEF OpenWallet
  <2> HIDE DEF k
  <2> QED BY <1>5, <2>2, <2>3, <2>4, ReplaceType DEF OpenWallet, TypeInv, TypeOK
<1>6. CASE SaveWallet(r, j)
  <2> DEFINE k == [j EXCEPT !.at = "note", !.seen = NoWallet]
             saved == Saved(wallet[a], j.seen, Moved(j.seen, j.kind, j.amount))
  <2>1. saved \in WalletDoc
    BY <1>1, <1>2, MovedType, SavedType DEF Jobs
  <2>2. wallet' = [wallet EXCEPT ![a] = saved]
    BY <1>6 DEF SaveWallet
  <2>3. k \in Jobs /\ k.kind = j.kind
    BY <1>1, NoWalletType DEF Jobs
  <2>4. Replace(r, j, k)
    BY <1>6 DEF SaveWallet
  <2> HIDE DEF k, saved
  <2> QED BY <1>2, <1>6, <2>1, <2>2, <2>3, <2>4, ReplaceType DEF SaveWallet, TypeInv, TypeOK
<1>7. CASE EnterTransaction(r, j)
  <2> DEFINE s == req[r].s
             entered == Entered(tx[s][j.role], j.kind, j.amount)
  <2>1. tx[s][j.role] \in TxDoc /\ j.role \in Roles
    BY <1>1 DEF TypeInv, TypeOK, Jobs
  <2>2. entered \in TxDoc
    BY <1>1, <2>1, EnteredType DEF Jobs
  <2>3. tx' = [tx EXCEPT ![s][j.role] = entered]
    BY <1>7 DEF EnterTransaction
  <2> HIDE DEF entered
  <2>4. tx' \in [Shipments -> [Roles -> TxDoc]]
    BY <1>1, <2>1, <2>2, <2>3 DEF TypeInv, TypeOK
  <2> QED BY <1>1, <1>7, <2>4, EndJobType DEF EnterTransaction, TypeInv, TypeOK
<1> QED BY <1>3, <1>4, <1>5, <1>6, <1>7

\* A set of versions has a latest one.
LEMMA LatestVersion ==
    ASSUME NEW S \in SUBSET Versions, S # {}
    PROVE  Max(S) \in S /\ \A v \in S : v <= Max(S)
<1> DEFINE n == MaxVersions + 1
           T == {k \in Nat : \E v \in S : k = n - v}
<1>1. n \in Nat /\ \A v \in S : v \in Nat /\ v <= n
  BY LedgerAssumption DEF Versions
<1>2. T \subseteq Nat /\ T # {}
  BY <1>1
<1>3. PICK m \in T : \A k \in T : <<k, m>> \notin OpToRel(<, Nat)
  BY <1>2, WFMin, NatLessThanWellFounded, Zenon
<1>4. \A k \in Nat : k \in T => ~(k < m)
  <2> HIDE DEF T
  <2> QED BY <1>2, <1>3, Zenon DEF OpToRel
<1>5. PICK top \in S : m = n - top
  BY <1>3
<1>6. \A v \in S : n - v \in T
  BY <1>1
<1>7. \A v \in S : v <= top
  BY <1>1, <1>2, <1>4, <1>5, <1>6
<1>8. \E x \in S : \A y \in S : x >= y
  BY <1>1, <1>5, <1>7
<1> QED BY <1>1, <1>8 DEF Max

LEMMA ConfigType ==
    ASSUME TypeInv, NEW r \in Requests,
           \/ GetCurrentConfig(r) \/ CreateDefaultConfig(r)
           \/ DeactivateVersions(r) \/ InsertVersion(r)
    PROVE  TypeInv'
<1>1. req[r] \in RequestState /\ SlotFit(req[r])
  BY DEF TypeInv, TypeOK
<1>2. CASE GetCurrentConfig(r) /\ Active = {}
  <2>1. Goto(r, "default") /\ "default" \in Steps
    BY <1>2 DEF GetCurrentConfig, Steps
  <2>2. SlotFit([req[r] EXCEPT !.step = "default"])
    BY <1>1, <1>2 DEF GetCurrentConfig, SlotFit, RequestState, TicketSteps
  <2> QED BY <1>2, <2>1, <2>2, GotoType DEF GetCurrentConfig, TypeInv, TypeOK
<1>3. CASE GetCurrentConfig(r) /\ Active # {}
  <2>1. Max(Active) \in Versions
    BY <1>3, LatestVersion DEF Active
  <2> QED BY <1>3, <2>1, WithConfigType DEF GetCurrentConfig, TypeInv, TypeOK
<1>4. CASE CreateDefaultConfig(r)
  <2>1. 1 \in Versions
    BY LedgerAssumption DEF Versions
  <2>2. config' \in [Versions -> {"ABSENT", "ACTIVE", "INACTIVE"}]
    BY <1>4, <2>1 DEF CreateDefaultConfig, TypeInv, TypeOK
  <2>3. req' \in [Requests -> RequestState] /\ \A q \in Requests : SlotFit(req'[q])
    BY <1>4, <2>1, WithConfigType, FinishType DEF CreateDefaultConfig
  <2> QED BY <1>4, <2>2, <2>3 DEF CreateDefaultConfig, TypeInv, TypeOK
<1>5. CASE DeactivateVersions(r)
  <2>1. Goto(r, "activate") /\ "activate" \in Steps
    BY <1>5 DEF DeactivateVersions, Steps
  <2>2. SlotFit([req[r] EXCEPT !.step = "activate"])
    BY <1>1, <1>5 DEF DeactivateVersions, SlotFit, RequestState, TicketSteps
  <2> QED BY <1>5, <2>1, <2>2, GotoType DEF DeactivateVersions, TypeInv, TypeOK
<1>6. CASE InsertVersion(r)
  BY <1>6, FinishType DEF InsertVersion, TypeInv, TypeOK
<1> QED BY <1>2, <1>3, <1>4, <1>5, <1>6

LEMMA FindType ==
    ASSUME TypeInv, NEW r \in Requests,
           FindPosted(r) \/ FindPending(r) \/ FindVoid(r) \/ FindReversed(r)
    PROVE  TypeInv'
<1> DEFINE q == req[r]
<1>1. q \in RequestState /\ SlotFit(q) /\ q.step \in TicketSteps /\ q.s \in Shipments
  BY DEF TypeInv, TypeOK, FindPosted, FindPending, FindVoid, FindReversed, SlotFit, TicketSteps
<1>2. SUFFICES req' \in [Requests -> RequestState] /\ \A p \in Requests : SlotFit(req'[p])
  BY DEF FindPosted, FindPending, FindVoid, FindReversed, TypeInv, TypeOK
<1>3. BranchRoles \subseteq Roles /\ {"COMPANY"} \subseteq Roles
  BY DEF BranchRoles, Roles
<1>4. \A kind \in {"post", "void"} : \A roles \in {BranchRoles, {"COMPANY"}} :
          /\ Settle(q.s, roles, kind) \in SUBSET Jobs
          /\ \A j \in Settle(q.s, roles, kind) : j.kind = kind
  BY <1>1, <1>3, SettleType DEF TypeInv
<1>5. {"idle", "pendingCompany", "voidCompany", "reverseBranch", "reverseCompany"} \subseteq Steps
  BY DEF Steps
<1>6. CASE FindPosted(r) /\ q.step = "postedBranch"
  <2> DEFINE slot == [q EXCEPT !.posted = HasPosted(q.s, BranchRoles), !.step = "postedCompany"]
  <2>1. HasPosted(q.s, BranchRoles) \in BOOLEAN
    BY DEF HasPosted
  <2>2. slot \in RequestState
    BY <1>1, <2>1 DEF RequestState, Steps
  <2>3. SlotFit(slot)
    BY <1>1, <1>6 DEF SlotFit, RequestState, TicketSteps
  <2>4. req' = [req EXCEPT ![r] = slot]
    BY <1>6 DEF FindPosted
  <2> QED BY <2>2, <2>3, <2>4, SlotStep
<1>7. CASE FindPosted(r) /\ q.step = "postedCompany"
  <2>1. SlotFit([q EXCEPT !.step = "pendingBranch"]) /\ "pendingBranch" \in Steps
    BY <1>1, <1>7 DEF SlotFit, RequestState, TicketSteps, Steps
  <2> QED BY <1>7, <2>1, FinishType, GotoType DEF FindPosted
<1>8. CASE FindPending(r) /\ q.step = "pendingBranch"
  <2> DEFINE jobs == Settle(q.s, BranchRoles, "post")
             slot == [q EXCEPT !.jobs = jobs, !.step = "pendingCompany"]
  <2>1. jobs \in SUBSET Jobs /\ \A j \in jobs : j.kind = "post"
    BY <1>4
  <2>2. req' = [req EXCEPT ![r] = slot]
    BY <1>8 DEF FindPending
  <2> HIDE DEF jobs
  <2>3. slot \in RequestState
    BY <1>1, <2>1 DEF RequestState, Steps
  <2>4. SlotFit(slot)
    BY <1>1, <1>8, <2>1 DEF SlotFit, RequestState, TicketSteps
  <2> QED BY <2>2, <2>3, <2>4, SlotStep
<1>9. CASE FindPending(r) /\ q.step = "pendingCompany"
  <2> DEFINE posts == q.jobs \cup Settle(q.s, {"COMPANY"}, "post")
             credits == {NewJob(role, 0, "credit", q.split[role]) : role \in Roles}
             jobs == IF posts = {} THEN credits ELSE posts
  <2>1. q.op = "complete" /\ q.jobs \in SUBSET Jobs
    BY <1>1, <1>9 DEF SlotFit, RequestState
  <2>2. \A role \in Roles : q.split[role] \in Int
    BY <1>1 DEF RequestState
  <2>3. credits \in SUBSET Jobs /\ credits # {} /\ \A j \in credits : j.kind = "credit"
    BY <2>2, JobType DEF Roles
  <2>4. posts \in SUBSET Jobs /\ \A j \in posts : j.kind \in {"post", "credit"}
    BY <1>1, <1>4, <2>1 DEF SlotFit
  <2>5. Launch(r, jobs, "idle")
    BY <1>9 DEF FindPending
  <2> HIDE DEF posts, credits
  <2>6. jobs \in SUBSET Jobs /\ jobs # {} /\ \A j \in jobs : j.kind \in {"post", "credit"}
    BY <2>3, <2>4
  <2> HIDE DEF jobs
  <2> QED BY <1>1, <1>5, <2>1, <2>5, <2>6, LaunchType
<1>10. CASE FindVoid(r)
  <2>1. q.op = "cancel"
    BY <1>1, <1>10 DEF FindVoid, SlotFit, RequestState
  <2>2. CASE q.step = "voidBranch"
    BY <1>1, <1>4, <1>5, <1>10, <2>1, <2>2, LaunchType DEF FindVoid
  <2>3. CASE q.step = "voidCompany"
    BY <1>1, <1>4, <1>5, <1>10, <2>1, <2>3, LaunchType DEF FindVoid
  <2> QED BY <1>10, <2>2, <2>3 DEF FindVoid
<1>11. CASE FindReversed(r)
  <2>1. q.op = "cancel"
    BY <1>1, <1>11 DEF FindReversed, SlotFit, RequestState
  <2>2. \A role \in Roles : /\ Debits(q.s, role) \in SUBSET Jobs
                            /\ \A j \in Debits(q.s, role) : j.kind = "debit"
    BY <1>1, DebitsType DEF TypeInv
  <2>3. CASE q.step = "reverseBranch"
    <3> DEFINE jobs == UNION {Debits(q.s, role) : role \in BranchRoles}
    <3>1. jobs \in SUBSET Jobs /\ \A j \in jobs : j.kind = "debit"
      BY <1>3, <2>2
    <3>2. Launch(r, jobs, "reverseCompany") \/ Finish(r)
      BY <1>11, <2>3 DEF FindReversed
    <3> HIDE DEF jobs
    <3> QED BY <1>1, <1>5, <2>1, <3>1, <3>2, LaunchType, FinishType
  <2>4. CASE q.step = "reverseCompany"
    <3> DEFINE jobs == {j \in Debits(q.s, "COMPANY") : j.n = 1}
    <3>1. jobs \in SUBSET Jobs /\ \A j \in jobs : j.kind = "debit"
      BY <1>3, <2>2
    <3>2. Launch(r, jobs, "idle")
      BY <1>11, <2>4 DEF FindReversed
    <3> HIDE DEF jobs
    <3> QED BY <1>1, <1>5, <2>1, <3>1, <3>2, LaunchType
  <2> QED BY <1>11, <2>3, <2>4 DEF FindReversed
<1> QED BY <1>6, <1>7, <1>8, <1>9, <1>10, <1>11 DEF FindPosted, FindPending

LEMMA StampType ==
    /\ \A status : Stamp(status) \subseteq {"receivedAtReceiverWarehouseAt", "completedAt", "cancelledAt"}
    /\ Stamp("RECEIVED_AT_RECEIVER_WAREHOUSE") = {"receivedAtReceiverWarehouseAt"}
    /\ Stamp("COMPLETED") = {"completedAt"}
    /\ Stamp("CANCELLED") = {"cancelledAt"}
BY DEF Stamp

LEMMA StageNames ==
    {"CREATED", "ASSIGNED", "RECEIVED_AT_SENDER_WAREHOUSE", "IN_TRANSIT",
     "RECEIVED_AT_RECEIVER_WAREHOUSE", "READY_FOR_PICKUP", "COMPLETED", "CANCELLED"}
        \subseteq Range(Stages)
BY DEF Range, Stages

\* A write to one ticket.
LEMMA DocType ==
    ASSUME TypeInv, NEW s \in Shipments,
           NEW status \in {"ABSENT"} \cup Range(Stages), NEW assigned \in BOOLEAN,
           NEW stamps \in SUBSET {"receivedAtReceiverWarehouseAt", "completedAt", "cancelledAt"},
           shipment' = [shipment EXCEPT ![s].status = status, ![s].assigned = assigned,
                                        ![s].stamps = stamps]
    PROVE  shipment' \in [Shipments -> ShipmentDoc]
<1> DEFINE doc == [shipment[s] EXCEPT !.status = status, !.assigned = assigned, !.stamps = stamps]
<1>1. shipment \in [Shipments -> ShipmentDoc]
  BY DEF TypeInv, TypeOK
<1>2. doc \in ShipmentDoc
  BY <1>1 DEF ShipmentDoc
<1>3. shipment' = [shipment EXCEPT ![s] = doc]
  BY <1>1
<1> HIDE DEF doc
<1> QED BY <1>1, <1>2, <1>3

LEMMA TicketType ==
    ASSUME TypeInv, NEW r \in Requests,
           \/ InsertShipment(r) \/ SaveStage(r)
           \/ \E s \in req[r].batch : SaveAssigned(r, s)
    PROVE  TypeInv'
<1> DEFINE q == req[r]
<1>1. q \in RequestState /\ SlotFit(q)
  BY DEF TypeInv, TypeOK
<1>2. CASE InsertShipment(r)
  <2>1. q.s \in Shipments /\ q.op = "create"
    BY <1>1, <1>2 DEF InsertShipment, SlotFit, TicketSteps, RequestState
  <2>2. shipment' \in [Shipments -> ShipmentDoc]
    <3>1. "CREATED" \in {"ABSENT"} \cup Range(Stages)
      BY StageNames
    <3>2. shipment' = [shipment EXCEPT ![q.s].status = "CREATED"]
      BY <1>2 DEF InsertShipment
    <3> DEFINE doc == [shipment[q.s] EXCEPT !.status = "CREATED"]
    <3>3. shipment \in [Shipments -> ShipmentDoc]
      BY DEF TypeInv, TypeOK
    <3>4. doc \in ShipmentDoc
      BY <2>1, <3>1, <3>3 DEF ShipmentDoc
    <3>5. shipment' = [shipment EXCEPT ![q.s] = doc]
      BY <2>1, <3>2, <3>3
    <3> HIDE DEF doc
    <3> QED BY <2>1, <3>3, <3>4, <3>5
  <2>3. SlotFit([q EXCEPT !.step = "share"]) /\ "share" \in Steps
    BY <1>1, <2>1 DEF SlotFit, TicketSteps, RequestState, Steps
  <2> QED BY <1>2, <2>2, <2>3, GotoType DEF InsertShipment, TypeInv, TypeOK
<1>3. CASE SaveStage(r)
  <2> DEFINE doc == shipment[q.s]
             status == Written(doc.status, q.seen.status, q.status)
             stamps == doc.stamps \cup Stamp(q.status)
             then == AfterSave(q.op)
  <2>1. q.s \in Shipments /\ q.step = "save" /\ q.op \in {"stage", "complete", "cancel"}
    BY <1>1, <1>3 DEF SaveStage, SlotFit, TicketSteps, RequestState
  <2>2. status \in {"ABSENT"} \cup Range(Stages) /\ stamps \subseteq {"receivedAtReceiverWarehouseAt", "completedAt", "cancelledAt"}
    BY <1>1, <2>1, StampType DEF Written, RequestState, TypeInv, TypeOK, ShipmentDoc
  <2>3. shipment' = [shipment EXCEPT ![q.s].status = status, ![q.s].stamps = stamps]
    BY <1>3 DEF SaveStage
  <2>4. shipment' \in [Shipments -> ShipmentDoc]
    <3> HIDE DEF status, stamps
    <3> QED BY <2>1, <2>2, <2>3 DEF TypeInv, TypeOK, ShipmentDoc
  <2>5. Launch(r, {}, then)
    BY <1>3 DEF SaveStage
  <2>6. req' \in [Requests -> RequestState] /\ \A p \in Requests : SlotFit(req'[p])
    <3>1. CASE q.op = "stage"
      <4>1. then = "idle"
        BY <3>1 DEF AfterSave
      <4>2. Finish(r)
        BY <2>5, <4>1 DEF Launch, Finish
      <4> QED BY <4>2, FinishType
    <3>2. CASE q.op = "complete"
      <4>1. then = "share"
        BY <3>2 DEF AfterSave
      <4>2. Goto(r, "share")
        BY <2>5, <4>1 DEF Launch, Goto
      <4>3. SlotFit([q EXCEPT !.step = "share"]) /\ "share" \in Steps
        BY <1>1, <2>1, <3>2 DEF SlotFit, TicketSteps, RequestState, Steps
      <4> QED BY <4>2, <4>3, GotoType
    <3>3. CASE q.op = "cancel"
      <4>1. then = "voidBranch"
        BY <3>3 DEF AfterSave
      <4>2. Goto(r, "voidBranch")
        BY <2>5, <4>1 DEF Launch, Goto
      <4>3. SlotFit([q EXCEPT !.step = "voidBranch"]) /\ "voidBranch" \in Steps
        BY <1>1, <2>1, <3>3 DEF SlotFit, TicketSteps, RequestState, Steps
      <4> QED BY <4>2, <4>3, GotoType
    <3> QED BY <2>1, <3>1, <3>2, <3>3
  <2> QED BY <1>3, <2>4, <2>6 DEF SaveStage, TypeInv, TypeOK
<1>4. ASSUME NEW s \in q.batch, SaveAssigned(r, s)
      PROVE  TypeInv'
  <2>1. s \in Shipments
    BY <1>1 DEF RequestState
  <2>2. shipment' \in [Shipments -> ShipmentDoc]
    <3>1. "ASSIGNED" \in {"ABSENT"} \cup Range(Stages)
      BY StageNames
    <3>2. shipment' = [shipment EXCEPT ![s].status = "ASSIGNED", ![s].assigned = TRUE]
      BY <1>4 DEF SaveAssigned
    <3> QED BY <2>1, <3>1, <3>2 DEF TypeInv, TypeOK, ShipmentDoc
  <2>3. req' \in [Requests -> RequestState] /\ \A p \in Requests : SlotFit(req'[p])
    <3> DEFINE slot == [q EXCEPT !.batch = @ \ {s}]
    <3>1. slot \in RequestState
      BY <1>1 DEF RequestState
    <3>2. SlotFit(slot)
      BY <1>1 DEF SlotFit, RequestState
    <3>3. Finish(r) \/ req' = [req EXCEPT ![r] = slot]
      BY <1>4 DEF SaveAssigned
    <3> HIDE DEF slot
    <3> QED BY <3>1, <3>2, <3>3, SlotStep, FinishType
  <2> QED BY <1>4, <2>2, <2>3 DEF SaveAssigned, TypeInv, TypeOK
<1> QED BY <1>2, <1>3, <1>4

LEMMA SweepType ==
    ASSUME TypeInv, NEW s \in Shipments, NEW kind \in Sweeps, ReceiptSweep(s, kind)
    PROVE  TypeInv'
<1> DEFINE doc == shipment[s]
           status == SweepStatus(kind)
           stamps == doc.stamps \cup Stamp(status)
           assigned == kind # "unlink" /\ (doc.assigned \/ kind = "link")
<1>1. kind \in {"link", "depart", "arrive", "unlink"} /\ doc \in ShipmentDoc
  BY LedgerAssumption DEF TypeInv, TypeOK
<1>2. status \in Range(Stages)
  BY <1>1 DEF SweepStatus, Range, Stages
<1>3. stamps \subseteq {"receivedAtReceiverWarehouseAt", "completedAt", "cancelledAt"}
  BY <1>1, StampType DEF ShipmentDoc
<1>4. assigned \in BOOLEAN
  BY <1>1 DEF ShipmentDoc
<1>5. shipment' = [shipment EXCEPT ![s].status = status, ![s].assigned = assigned,
                                   ![s].stamps = stamps]
  BY DEF ReceiptSweep
<1>6. shipment' \in [Shipments -> ShipmentDoc]
  <2> HIDE DEF doc, status, stamps, assigned
  <2> QED BY <1>2, <1>3, <1>4, <1>5, DocType
<1>7. swept' \in [Shipments -> SUBSET Sweeps] /\ disturbed' \in 0..MaxDisturbances
  BY LedgerAssumption DEF ReceiptSweep, Disturb, TypeInv, TypeOK
<1> QED BY <1>6, <1>7 DEF ReceiptSweep, TypeInv, TypeOK

LEMMA NextType == TypeInv /\ [Next]_vars => TypeInv'
<1> SUFFICES ASSUME TypeInv, [Next]_vars
             PROVE  TypeInv'
  OBVIOUS
<1>1. CASE UNCHANGED vars
  BY <1>1 DEF vars, TypeInv, TypeOK
<1>2. CASE Crash
  <2>1. req' \in [Requests -> RequestState] /\ \A q \in Requests : SlotFit(req'[q])
    BY <1>2, IdleType, IdleFit DEF Crash
  <2>2. disturbed' \in 0..MaxDisturbances
    BY <1>2, LedgerAssumption DEF Crash, Disturb, TypeInv, TypeOK
  <2> QED BY <1>2, <2>1, <2>2 DEF Crash, TypeInv, TypeOK
<1>3. ASSUME NEW r \in Requests, Continue(r)
      PROVE  TypeInv'
  BY <1>3, TicketType, ConfigType, FindType, JobsType DEF Continue
<1> QED BY <1>1, <1>2, <1>3, BeginType, SweepType DEF Next

LEMMA InitType == Init => TypeInv
<1>1. NoShipment \in ShipmentDoc
  BY DEF NoShipment, ShipmentDoc
<1> QED BY <1>1, IdleType, IdleFit, NoTxType, LedgerAssumption DEF Init, TypeInv, TypeOK

\* Every document, suspended handler and bound keeps its type, and each
\* handler makes only the wallet updates of its operation, for the ticket it
\* was called for.
THEOREM LedgerTypeCorrect == Spec => []TypeOK
<1>1. TypeInv => TypeOK
  BY DEF TypeInv
<1> QED BY <1>1, InitType, NextType, PTL DEF Spec

-----------------------------------------------------------------------------
(* What the proofs below need to know of every step.                        *)

\* A handler keeps to its own slot, its operation and its purpose, or ends.
SameCall(slot, r) ==
    slot.op = req[r].op /\ slot.s = req[r].s /\ slot.status = req[r].status

Keeps(r) ==
    /\ \A q \in Requests \ {r} : req'[q] = req[q]
    /\ req'[r] = Idle \/ SameCall(req'[r], r)

LEMMA KeepsStep ==
    ASSUME TypeInv, NEW r \in Requests
    PROVE  /\ \A step : Goto(r, step) => Keeps(r)
           /\ Finish(r) => Keeps(r)
           /\ \A jobs, then : Launch(r, jobs, then) => Keeps(r)
           /\ \A j, k : Replace(r, j, k) => Keeps(r)
           /\ \A j : EndJob(r, j) => Keeps(r)
           /\ \A v : WithConfig(r, v) => Keeps(r)
<1>1. req \in [Requests -> RequestState] /\ r \in DOMAIN req
  BY DEF TypeInv, TypeOK
<1>2. req[r] \in RequestState
  BY <1>1
<1>3. ASSUME NEW slot, SameCall(slot, r), req' = [req EXCEPT ![r] = slot]
      PROVE  Keeps(r)
  BY <1>1, <1>3 DEF Keeps, SameCall
<1>4. \A step : Goto(r, step) => Keeps(r)
  <2>1. \A step : SameCall([req[r] EXCEPT !.step = step], r)
    BY <1>2 DEF RequestState, SameCall
  <2> QED BY <1>3, <2>1 DEF Goto
<1>5. Finish(r) => Keeps(r)
  BY <1>1 DEF Finish, Keeps
<1>6. \A jobs, then : Launch(r, jobs, then) => Keeps(r)
  <2> TAKE jobs, then
  <2> DEFINE slot == [req[r] EXCEPT !.step = "jobs", !.jobs = jobs, !.then = then]
  <2>1. SameCall(slot, r)
    BY <1>2 DEF RequestState, SameCall
  <2>2. Launch(r, jobs, then) => Finish(r) \/ Goto(r, then) \/ req' = [req EXCEPT ![r] = slot]
    BY DEF Launch, Goto, Finish
  <2> HIDE DEF slot
  <2> QED BY <1>3, <1>4, <1>5, <2>1, <2>2
<1>7. \A j, k : Replace(r, j, k) => Keeps(r)
  <2> TAKE j, k
  <2> DEFINE slot == [req[r] EXCEPT !.jobs = (@ \ {j}) \cup {k}]
  <2>1. SameCall(slot, r)
    BY <1>2 DEF RequestState, SameCall
  <2>2. Replace(r, j, k) => req' = [req EXCEPT ![r] = slot]
    BY DEF Replace
  <2> HIDE DEF slot
  <2> QED BY <1>3, <2>1, <2>2
<1>8. \A j : EndJob(r, j) => Keeps(r)
  <2> TAKE j
  <2> DEFINE rest == [req[r] EXCEPT !.jobs = @ \ {j}]
             slot == [req[r] EXCEPT !.jobs = {}, !.step = req[r].then]
  <2>1. SameCall(rest, r) /\ SameCall(slot, r)
    BY <1>2 DEF RequestState, SameCall
  <2>2. EndJob(r, j) => \/ Finish(r)
                       \/ req' = [req EXCEPT ![r] = rest]
                       \/ req' = [req EXCEPT ![r] = slot]
    BY DEF EndJob
  <2> HIDE DEF slot, rest
  <2> QED BY <1>3, <1>5, <2>1, <2>2
<1>9. \A v : WithConfig(r, v) => Keeps(r)
  <2> SUFFICES ASSUME NEW v, WithConfig(r, v)
               PROVE  Keeps(r)
    OBVIOUS
  <2>1. CASE req[r].op = "publish"
    <3> DEFINE slot == [req[r] EXCEPT !.step = "deactivate", !.version = v]
    <3>1. SameCall(slot, r)
      BY <1>2 DEF RequestState, SameCall
    <3>2. req' = [req EXCEPT ![r] = slot]
      BY <2>1 DEF WithConfig
    <3> HIDE DEF slot
    <3> QED BY <1>3, <3>1, <3>2
  <2>2. CASE req[r].op # "publish"
    <3>1. PICK split : \/ \E jobs : Launch(r, jobs, "idle")
                       \/ req' = [req EXCEPT ![r].step = "postedBranch", ![r].split = split]
      BY <2>2 DEF WithConfig
    <3> DEFINE slot == [req[r] EXCEPT !.step = "postedBranch", !.split = split]
    <3>2. SameCall(slot, r)
      BY <1>2 DEF RequestState, SameCall
    <3>3. CASE req' = [req EXCEPT ![r] = slot]
      <4> HIDE DEF slot
      <4> QED BY <1>3, <3>2, <3>3
    <3> QED BY <1>6, <3>1, <3>3
  <2> QED BY <2>1, <2>2
<1> QED BY <1>4, <1>5, <1>6, <1>7, <1>8, <1>9

\* A handler that goes on was suspended and disturbs nothing.
LEMMA ContinueFrame ==
    ASSUME TypeInv, NEW r \in Requests, Continue(r)
    PROVE  Keeps(r) /\ req[r].step # "idle" /\ UNCHANGED <<swept, disturbed>>
<1>0. req \in [Requests -> RequestState] /\ r \in DOMAIN req
  BY DEF TypeInv, TypeOK
<1>1. req[r] \in RequestState
  BY <1>0
<1>2. ASSUME NEW slot, SameCall(slot, r), req' = [req EXCEPT ![r] = slot]
      PROVE  Keeps(r)
  BY <1>0, <1>2 DEF Keeps, SameCall
<1>3. CASE InsertShipment(r) \/ SaveStage(r)
  BY <1>3, KeepsStep DEF InsertShipment, SaveStage
<1>4. ASSUME NEW s \in req[r].batch, SaveAssigned(r, s)
      PROVE  Keeps(r) /\ req[r].step # "idle" /\ UNCHANGED <<swept, disturbed>>
  <2> DEFINE slot == [req[r] EXCEPT !.batch = @ \ {s}]
  <2>1. SameCall(slot, r)
    BY <1>1 DEF RequestState, SameCall
  <2>2. Finish(r) \/ req' = [req EXCEPT ![r] = slot]
    BY <1>4 DEF SaveAssigned
  <2>3. Keeps(r)
    <3> HIDE DEF slot
    <3> QED BY <1>2, <2>1, <2>2, KeepsStep
  <2> QED BY <1>4, <2>3 DEF SaveAssigned
<1>5. CASE GetCurrentConfig(r) \/ CreateDefaultConfig(r)
  BY <1>5, KeepsStep DEF GetCurrentConfig, CreateDefaultConfig
<1>6. CASE DeactivateVersions(r) \/ InsertVersion(r)
  BY <1>6, KeepsStep DEF DeactivateVersions, InsertVersion
<1>7. CASE FindPosted(r) /\ req[r].step = "postedBranch"
  <2> DEFINE slot == [req[r] EXCEPT !.posted = HasPosted(req[r].s, BranchRoles),
                                    !.step = "postedCompany"]
  <2>1. SameCall(slot, r)
    BY <1>1 DEF RequestState, SameCall
  <2>2. req' = [req EXCEPT ![r] = slot]
    BY <1>7 DEF FindPosted
  <2>3. Keeps(r)
    <3> HIDE DEF slot
    <3> QED BY <1>2, <2>1, <2>2
  <2> QED BY <1>7, <2>3 DEF FindPosted
<1>8. CASE FindPosted(r) /\ req[r].step # "postedBranch"
  BY <1>8, KeepsStep DEF FindPosted
<1>9. CASE FindPending(r) /\ req[r].step = "pendingBranch"
  <2> DEFINE slot == [req[r] EXCEPT !.jobs = Settle(req[r].s, BranchRoles, "post"),
                                    !.step = "pendingCompany"]
  <2>1. SameCall(slot, r)
    BY <1>1 DEF RequestState, SameCall
  <2>2. req' = [req EXCEPT ![r] = slot]
    BY <1>9 DEF FindPending
  <2>3. Keeps(r)
    <3> HIDE DEF slot
    <3> QED BY <1>2, <2>1, <2>2
  <2> QED BY <1>9, <2>3 DEF FindPending
<1>10. CASE FindPending(r) /\ req[r].step # "pendingBranch"
  BY <1>10, KeepsStep DEF FindPending
<1>11. CASE FindVoid(r) \/ FindReversed(r)
  BY <1>11, KeepsStep DEF FindVoid, FindReversed
<1>12. ASSUME NEW j \in req[r].jobs,
              LoadWallet(r, j) \/ OpenWallet(r, j) \/ SaveWallet(r, j) \/ EnterTransaction(r, j)
       PROVE  Keeps(r) /\ req[r].step # "idle" /\ UNCHANGED <<swept, disturbed>>
  BY <1>12, KeepsStep DEF LoadWallet, OpenWallet, SaveWallet, EnterTransaction, Running
<1> QED BY <1>3, <1>4, <1>5, <1>6, <1>7, <1>8, <1>9, <1>10, <1>11, <1>12 DEF Continue

\* A handler that starts does nothing else.
LEMMA BeginFrame ==
    ASSUME TypeInv, NEW r \in Requests, Begin(r)
    PROVE  /\ \A q \in Requests \ {r} : req'[q] = req[q]
           /\ req[r] = Idle
           /\ disturbed' = disturbed + (IF ~Quiet THEN 1 ELSE 0)
           /\ UNCHANGED <<shipment, swept, config, wallet, tx>>
           /\ \/ req'[r].op = "publish" /\ CreateNewVersion(r)
              \/ req'[r].op = "assign"
              \/ req'[r].op = "create" /\ \E s \in Shipments : req'[r].s = s /\ BeginCreate(r, s)
              \/ /\ req'[r].op \in {"stage", "complete", "cancel"}
                 /\ req'[r].seen = shipment[req'[r].s]
           /\ req'[r].step \in {"insert", "assign", "save", "share"}
           /\ req'[r].jobs = {}
<1>1. req \in [Requests -> RequestState]
  BY DEF TypeInv, TypeOK
<1> USE <1>1 DEF Start, Disturb, Idle
<1>2. CASE CreateNewVersion(r)
  BY <1>2 DEF CreateNewVersion
<1>3. ASSUME NEW batch \in SUBSET Shipments, BeginAssign(r, batch)
      PROVE  /\ \A q \in Requests \ {r} : req'[q] = req[q]
             /\ req[r] = Idle
             /\ disturbed' = disturbed + (IF ~Quiet THEN 1 ELSE 0)
             /\ UNCHANGED <<shipment, swept, config, wallet, tx>>
             /\ req'[r].op = "assign" /\ req'[r].step = "assign" /\ req'[r].jobs = {}
  BY <1>3 DEF BeginAssign
<1>4. ASSUME NEW s \in Shipments, BeginCreate(r, s)
      PROVE  /\ \A q \in Requests \ {r} : req'[q] = req[q]
             /\ req[r] = Idle
             /\ disturbed' = disturbed + (IF ~Quiet THEN 1 ELSE 0)
             /\ UNCHANGED <<shipment, swept, config, wallet, tx>>
             /\ req'[r].op = "create" /\ req'[r].step = "insert" /\ req'[r].s = s
             /\ req'[r].jobs = {}
  BY <1>4 DEF BeginCreate
<1>5. ASSUME NEW s \in Shipments, NEW op \in {"stage", "complete", "cancel"}, NEW guard, NEW status,
             BeginStage(r, s, op, guard, status)
      PROVE  /\ \A q \in Requests \ {r} : req'[q] = req[q]
             /\ req[r] = Idle
             /\ disturbed' = disturbed + (IF ~Quiet THEN 1 ELSE 0)
             /\ UNCHANGED <<shipment, swept, config, wallet, tx>>
             /\ req'[r].op = op /\ req'[r].step = "save" /\ req'[r].jobs = {}
             /\ req'[r].s = s /\ req'[r].seen = shipment[s]
  BY <1>5 DEF BeginStage
<1>6. ASSUME NEW s \in Shipments,
             \/ ReceiveAtSenderWarehouse(r, s) \/ CollectAssignedShipmentForDriver(r, s)
             \/ DispatchShipment(r, s) \/ DispatchAssignedShipmentForDriver(r, s)
             \/ ReceiveAtDestinationWarehouse(r, s) \/ ArriveAssignedShipmentForDriver(r, s)
             \/ MarkReadyForPickup(r, s) \/ CompleteShipment(r, s) \/ CancelShipment(r, s)
      PROVE  \E op \in {"stage", "complete", "cancel"} : \E guard, status :
                 BeginStage(r, s, op, guard, status)
  BY <1>6
     DEF ReceiveAtSenderWarehouse, CollectAssignedShipmentForDriver, DispatchShipment,
         DispatchAssignedShipmentForDriver, ReceiveAtDestinationWarehouse,
         ArriveAssignedShipmentForDriver, MarkReadyForPickup, CompleteShipment, CancelShipment
<1> QED BY <1>2, <1>3, <1>4, <1>5, <1>6 DEF Begin

-----------------------------------------------------------------------------
(* The configuration in force.  A version is published on top of the one     *)
(* that was active when its publisher looked, and its number is unique: by   *)
(* then every earlier version has been retired, or there is a later one and  *)
(* the insert fails.                                                         *)

VersionsInOrder ==
    \A v, w \in Versions : v < w /\ config[w] # "ABSENT" => config[v] = "INACTIVE"

\* A publisher has a version to follow, and retires it before it inserts.
PublisherFit(q) ==
    /\ q.step \in {"deactivate", "activate"} => config[q.version] # "ABSENT"
    /\ q.step = "activate" /\ q.version + 1 \in Versions /\ config[q.version + 1] = "ABSENT"
        => config[q.version] = "INACTIVE"

ConfigInv == VersionsInOrder /\ \A r \in Requests : PublisherFit(req[r])

LEMMA VersionFacts ==
    /\ 1 \in Versions /\ \A v \in Versions : v \in Nat /\ v >= 1
    /\ \A v \in Versions, n \in Nat : 1 <= n /\ n <= v => n \in Versions
BY LedgerAssumption DEF Versions

\* Nothing happens to the configurations and nobody starts to replace them.
LEMMA ConfigStutter ==
    ASSUME ConfigInv, UNCHANGED config,
           \A r \in Requests : req'[r] = req[r] \/ req'[r].step \notin {"deactivate", "activate"}
    PROVE  ConfigInv'
BY DEF ConfigInv, VersionsInOrder, PublisherFit

\* Only four steps touch the configurations or a publisher's slot.
LEMMA AwayFromConfig ==
    ASSUME TypeInv, TypeInv', NEW r \in Requests, Continue(r),
           ~GetCurrentConfig(r), ~CreateDefaultConfig(r),
           ~DeactivateVersions(r), ~InsertVersion(r)
    PROVE  /\ UNCHANGED config
           /\ req[r].op # "publish"
           /\ req'[r].step \notin {"deactivate", "activate"}
<1>1. SlotFit(req[r]) /\ SlotFit(req'[r]) /\ req[r] \in RequestState /\ req'[r] \in RequestState
  BY DEF TypeInv, TypeOK
<1>2. \/ InsertShipment(r) \/ SaveStage(r)
      \/ \E s \in req[r].batch : SaveAssigned(r, s)
      \/ FindPosted(r) \/ FindPending(r) \/ FindVoid(r) \/ FindReversed(r)
      \/ \E j \in req[r].jobs :
          LoadWallet(r, j) \/ OpenWallet(r, j) \/ SaveWallet(r, j) \/ EnterTransaction(r, j)
  BY DEF Continue
<1>3. UNCHANGED config
  BY <1>2 DEF InsertShipment, SaveStage, SaveAssigned, FindPosted, FindPending, FindVoid,
              FindReversed, LoadWallet, OpenWallet, SaveWallet, EnterTransaction
<1>4. req[r].step \notin {"share", "default", "deactivate", "activate"}
  BY <1>2 DEF InsertShipment, SaveStage, SaveAssigned, FindPosted, FindPending, FindVoid,
              FindReversed, LoadWallet, OpenWallet, SaveWallet, EnterTransaction, Running
<1>5. req[r].op # "publish"
  BY <1>1, <1>4 DEF SlotFit
<1>6. req'[r] = Idle \/ req'[r].op = req[r].op
  BY ContinueFrame DEF Keeps, SameCall
<1>7. req'[r].step \notin {"deactivate", "activate"}
  BY <1>1, <1>5, <1>6 DEF SlotFit, RequestState, Idle
<1> QED BY <1>3, <1>5, <1>7

\* The handler that asked for a configuration got v.
LEMMA ConfigGiven ==
    ASSUME TypeInv, TypeInv', NEW r \in Requests, NEW v \in Versions, WithConfig(r, v)
    PROVE  \/ req[r].op = "publish" /\ req' = [req EXCEPT ![r].step = "deactivate", ![r].version = v]
           \/ req[r].op # "publish" /\ req'[r].step \notin {"deactivate", "activate"}
<1>1. SlotFit(req'[r]) /\ req'[r] \in RequestState
  BY DEF TypeInv, TypeOK
<1>2. CASE req[r].op = "publish"
  BY <1>2 DEF WithConfig
<1>3. CASE req[r].op # "publish"
  <2>1. req'[r] = Idle \/ req'[r].op = req[r].op
    BY KeepsStep DEF Keeps, SameCall
  <2> QED BY <1>1, <1>3, <2>1 DEF SlotFit, RequestState, Idle
<1> QED BY <1>2, <1>3

LEMMA ConfigStep ==
    ASSUME TypeInv, TypeInv', ConfigInv, NEW r \in Requests, Continue(r)
    PROVE  ConfigInv'
<1>1. /\ req \in [Requests -> RequestState] /\ SlotFit(req[r])
      /\ config \in [Versions -> {"ABSENT", "ACTIVE", "INACTIVE"}]
  BY DEF TypeInv, TypeOK
<1>2. \A q \in Requests \ {r} : req'[q] = req[q]
  BY ContinueFrame DEF Keeps, SameCall
<1>3. CASE ~GetCurrentConfig(r) /\ ~CreateDefaultConfig(r) /\ ~DeactivateVersions(r) /\ ~InsertVersion(r)
  BY <1>2, <1>3, AwayFromConfig, ConfigStutter
<1>4. CASE GetCurrentConfig(r) /\ Active = {}
  <2>1. Goto(r, "default") /\ UNCHANGED config
    BY <1>4 DEF GetCurrentConfig
  <2>2. req'[r].step = "default"
    BY <1>1, <2>1 DEF Goto, RequestState
  <2> QED BY <1>2, <2>1, <2>2, ConfigStutter
<1>5. CASE GetCurrentConfig(r) /\ Active # {}
  <2> DEFINE v == Max(Active)
  <2>1. v \in Versions /\ config[v] = "ACTIVE"
    BY <1>5, LatestVersion DEF Active
  <2>2. WithConfig(r, v) /\ UNCHANGED config
    BY <1>5 DEF GetCurrentConfig
  <2> HIDE DEF v
  <2>3. CASE req[r].op # "publish"
    BY <1>2, <2>1, <2>2, <2>3, ConfigGiven, ConfigStutter
  <2>4. CASE req[r].op = "publish"
    <3>1. req' = [req EXCEPT ![r].step = "deactivate", ![r].version = v]
      BY <2>1, <2>2, <2>4, ConfigGiven
    <3>2. req'[r].step = "deactivate" /\ req'[r].version = v
      BY <1>1, <3>1 DEF RequestState
    <3> QED BY <1>2, <2>1, <2>2, <3>2 DEF ConfigInv, VersionsInOrder, PublisherFit
  <2> QED BY <2>3, <2>4
<1>6. CASE CreateDefaultConfig(r) /\ config[1] # "ABSENT"
  <2>1. Finish(r) /\ UNCHANGED config
    BY <1>6 DEF CreateDefaultConfig
  <2>2. req'[r].step = "idle"
    BY <1>1, <2>1 DEF Finish, Idle
  <2> QED BY <1>2, <2>1, <2>2, ConfigStutter
<1>7. CASE CreateDefaultConfig(r) /\ config[1] = "ABSENT"
  <2>1. config' = [config EXCEPT ![1] = "ACTIVE"] /\ WithConfig(r, 1)
    BY <1>7 DEF CreateDefaultConfig
  <2>2. \A w \in Versions : config[w] = "ABSENT"
    BY <1>1, <1>7, VersionFacts DEF ConfigInv, VersionsInOrder
  <2>3. \A q \in Requests \ {r} : req[q].step \notin {"deactivate", "activate"}
    BY <2>2 DEF ConfigInv, PublisherFit, TypeInv, SlotFit
  <2>4. VersionsInOrder'
    BY <1>1, <2>1, <2>2, VersionFacts DEF VersionsInOrder
  <2>5. config'[1] = "ACTIVE"
    BY <1>1, <2>1, VersionFacts
  <2>6. CASE req[r].op # "publish"
    BY <1>2, <2>1, <2>3, <2>4, <2>6, ConfigGiven, VersionFacts DEF ConfigInv, PublisherFit
  <2>7. CASE req[r].op = "publish"
    <3>1. req' = [req EXCEPT ![r].step = "deactivate", ![r].version = 1]
      BY <2>1, <2>7, ConfigGiven, VersionFacts
    <3>2. req'[r].step = "deactivate" /\ req'[r].version = 1
      BY <1>1, <3>1 DEF RequestState
    <3> QED BY <1>2, <2>3, <2>4, <2>5, <3>2 DEF ConfigInv, PublisherFit
  <2> QED BY <2>6, <2>7
<1>8. CASE DeactivateVersions(r)
  <2>1. config' = [v \in Versions |-> IF v \in Active THEN "INACTIVE" ELSE config[v]]
    BY <1>8 DEF DeactivateVersions
  <2>2. \A v \in Versions : /\ config'[v] = "ABSENT" <=> config[v] = "ABSENT"
                            /\ config'[v] # "ABSENT" => config'[v] = "INACTIVE"
    BY <1>1, <2>1 DEF Active
  <2>3. req'[r].step = "activate" /\ req'[r].version = req[r].version /\ req[r].step = "deactivate"
    BY <1>1, <1>8 DEF DeactivateVersions, Goto, RequestState
  <2>4. VersionsInOrder'
    BY <2>2 DEF ConfigInv, VersionsInOrder
  <2>5. \A q \in Requests : req[q].step \in {"deactivate", "activate"} => req[q].version \in Versions
    BY DEF TypeInv, SlotFit
  <2>6. \A q \in Requests : PublisherFit(req[q])'
    BY <1>2, <2>2, <2>3, <2>5 DEF ConfigInv, PublisherFit
  <2> QED BY <2>4, <2>6 DEF ConfigInv
<1>9. CASE InsertVersion(r)
  <2> DEFINE v == req[r].version
             next == v + 1
  <2>1. v \in Versions /\ v \in Nat /\ config[v] # "ABSENT" /\ req[r].step = "activate"
    BY <1>1, <1>9, VersionFacts DEF InsertVersion, SlotFit, ConfigInv, PublisherFit
  <2>2. config' = [config EXCEPT ![next] = IF @ = "ABSENT" THEN "ACTIVE" ELSE @]
    BY <1>9 DEF InsertVersion
  <2>3. req'[r].step = "idle"
    BY <1>1, <1>9 DEF InsertVersion, Finish, Idle
  <2>4. CASE next \notin Versions \/ config[next] # "ABSENT"
    <3>1. UNCHANGED config
      BY <1>1, <2>2, <2>4
    <3> QED BY <1>2, <2>3, <3>1, ConfigStutter
  <2>5. CASE next \in Versions /\ config[next] = "ABSENT"
    <3>1. config[v] = "INACTIVE"
      BY <2>1, <2>5 DEF ConfigInv, PublisherFit
    <3>2. \A w \in Versions : w < next => config[w] = "INACTIVE"
      BY <2>1, <2>5, <3>1, VersionFacts DEF ConfigInv, VersionsInOrder
    <3>3. \A w \in Versions : w > next => config[w] = "ABSENT"
      BY <2>1, <2>5, VersionFacts DEF ConfigInv, VersionsInOrder
    <3>4. config' = [config EXCEPT ![next] = "ACTIVE"]
      BY <1>1, <2>2, <2>5
    <3>5. VersionsInOrder'
      BY <1>1, <2>1, <2>5, <3>2, <3>3, <3>4, VersionFacts DEF ConfigInv, VersionsInOrder
    <3>6. \A q \in Requests : req[q].step \in {"deactivate", "activate"} => req[q].version \in Versions
      BY DEF TypeInv, SlotFit
    <3>7. \A q \in Requests : PublisherFit(req[q])'
      BY <1>1, <1>2, <2>3, <2>5, <3>4, <3>6, VersionFacts DEF ConfigInv, PublisherFit
    <3> QED BY <3>5, <3>7 DEF ConfigInv
  <2> QED BY <2>4, <2>5
<1> QED BY <1>3, <1>4, <1>5, <1>6, <1>7, <1>8, <1>9

LEMMA ConfigNext == TypeInv /\ TypeInv' /\ ConfigInv /\ [Next]_vars => ConfigInv'
<1> SUFFICES ASSUME TypeInv, TypeInv', ConfigInv, [Next]_vars
             PROVE  ConfigInv'
  OBVIOUS
<1>1. CASE UNCHANGED vars
  BY <1>1, ConfigStutter DEF vars
<1>2. CASE Crash
  BY <1>2, ConfigStutter DEF Crash, Idle
<1>3. ASSUME NEW s \in Shipments, NEW kind \in Sweeps, ReceiptSweep(s, kind)
      PROVE  ConfigInv'
  BY <1>3, ConfigStutter DEF ReceiptSweep
<1>4. ASSUME NEW r \in Requests, Begin(r)
      PROVE  ConfigInv'
  BY <1>4, BeginFrame, ConfigStutter
<1> QED BY <1>1, <1>2, <1>3, <1>4, ConfigStep DEF Next

LEMMA ConfigInit == Init => ConfigInv
BY DEF Init, ConfigInv, VersionsInOrder, PublisherFit, Idle

\* However publishers and the creation of the default interleave, crash or fail
\* on a version number that is taken, at most one configuration is active.
THEOREM OneConfigurationActive == Spec => []OneActiveVersion
<1>1. TypeInv /\ ConfigInv => OneActiveVersion
  <2> SUFFICES ASSUME TypeInv, ConfigInv
               PROVE  OneActiveVersion
    OBVIOUS
  <2>1. \A v, w \in Active : v = w
    BY VersionFacts DEF Active, ConfigInv, VersionsInOrder
  <2>2. CASE Active = {}
    BY <2>2, FS_EmptySet DEF OneActiveVersion
  <2>3. ASSUME NEW v \in Active
        PROVE  OneActiveVersion
    <3>1. Active = {v}
      BY <2>1, <2>3
    <3> QED BY <3>1, FS_Singleton DEF OneActiveVersion
  <2> QED BY <2>2, <2>3
<1> QED BY <1>1, InitType, NextType, ConfigInit, ConfigNext, PTL DEF Spec

-----------------------------------------------------------------------------
(* Handlers that run one at a time.  A publisher retires the active version  *)
(* before it inserts the next: only in between is none in force, and its     *)
(* insert succeeds, for nobody else can take the number.                     *)

Alone == \A p, q \in Requests : p = q \/ req[p] = Idle \/ req[q] = Idle

\* A publisher follows the latest version, and has room for one more.
PublisherAlone(q) ==
    /\ q.op = "publish" => MaxVersions > 0 /\ config[MaxVersions + 1] = "ABSENT"
    /\ q.step \in {"deactivate", "activate"} => q.op = "publish"
    /\ q.step = "deactivate" => config[q.version] = "ACTIVE"
    /\ q.step = "activate" => \A w \in Versions : w > q.version => config[w] = "ABSENT"

InForce == Published # {} => Active # {} \/ \E r \in Requests : req[r].step = "activate"

CalmInv == Calm => Alone /\ InForce /\ \A r \in Requests : PublisherAlone(req[r])

LEMMA CalmBefore ==
    ASSUME TypeInv, TypeInv', [Next]_vars, Calm'
    PROVE  Calm
<1>1. disturbed \in Nat /\ disturbed' = 0
  BY LedgerAssumption DEF TypeInv, TypeOK, Calm
<1>2. ASSUME NEW r \in Requests, Begin(r)
      PROVE  disturbed' >= disturbed
  BY <1>1, <1>2, BeginFrame
<1>3. ASSUME NEW r \in Requests, Continue(r)
      PROVE  disturbed' >= disturbed
  BY <1>1, <1>3, ContinueFrame
<1>4. ASSUME NEW s \in Shipments, NEW kind \in Sweeps, ReceiptSweep(s, kind)
      PROVE  disturbed' >= disturbed
  BY <1>1, <1>4 DEF ReceiptSweep, Disturb
<1>5. ASSUME Crash
      PROVE  disturbed' >= disturbed
  BY <1>1, <1>5 DEF Crash, Disturb
<1>6. CASE UNCHANGED vars
  BY <1>1, <1>6 DEF vars, Calm
<1>7. CASE Next
  <2>1. disturbed' >= disturbed
    BY <1>2, <1>3, <1>4, <1>5, <1>7 DEF Next
  <2> QED BY <1>1, <2>1 DEF Calm
<1> QED BY <1>6, <1>7

LEMMA PublishedFacts ==
    ASSUME TypeInv, ConfigInv, Cardinality(Published) < MaxVersions
    PROVE  MaxVersions > 0 /\ config[MaxVersions + 1] = "ABSENT"
<1> DEFINE n == MaxVersions + 1
<1>1. n \in Nat /\ Versions = 1..n /\ MaxVersions \in Nat
  BY LedgerAssumption DEF Versions
<1>2. IsFiniteSet(1..n) /\ Cardinality(1..n) = n
  BY <1>1, FS_Interval
<1>3. Published \subseteq 1..n
  BY <1>1 DEF Published
<1>4. Cardinality(Published) \in Nat
  BY <1>2, <1>3, FS_Subset, FS_CardinalityType
<1>5. ASSUME config[n] # "ABSENT"
      PROVE  FALSE
  <2>1. \A v \in 1..n : config[v] # "ABSENT"
    BY <1>1, <1>5 DEF ConfigInv, VersionsInOrder
  <2>2. Published = 1..n
    BY <1>1, <2>1 DEF Published
  <2> QED BY <1>1, <1>2, <2>2
<1> QED BY <1>1, <1>4, <1>5

LEMMA CalmContinue ==
    ASSUME TypeInv, TypeInv', ConfigInv, Calm, Calm', CalmInv, NEW r \in Requests, Continue(r)
    PROVE  Alone' /\ InForce' /\ \A q \in Requests : PublisherAlone(req[q])'
<1>1. /\ req \in [Requests -> RequestState] /\ SlotFit(req[r]) /\ PublisherAlone(req[r])
      /\ config \in [Versions -> {"ABSENT", "ACTIVE", "INACTIVE"}]
  BY DEF TypeInv, TypeOK, CalmInv
<1>2. \A q \in Requests \ {r} : req'[q] = Idle /\ req[q] = Idle
  <2>1. req[r] # Idle
    BY ContinueFrame DEF Idle
  <2> QED BY <2>1, ContinueFrame DEF CalmInv, Alone, Keeps, SameCall
<1>3. Alone'
  BY <1>2 DEF Alone
<1>4. PublisherAlone(Idle)'
  BY DEF PublisherAlone, Idle
<1>5. SUFFICES InForce' /\ PublisherAlone(req[r])'
  BY <1>2, <1>3, <1>4
<1>6. InForce /\ \A q \in Requests : req[q].step = "activate" => q = r
  BY <1>2 DEF CalmInv, Idle
<1>7. CASE ~GetCurrentConfig(r) /\ ~CreateDefaultConfig(r) /\ ~DeactivateVersions(r) /\ ~InsertVersion(r)
  <2>1. UNCHANGED config /\ req[r].op # "publish" /\ req'[r].step \notin {"deactivate", "activate"}
    BY <1>7, AwayFromConfig
  <2>2. req[r].step # "activate"
    BY <1>1, <2>1 DEF PublisherAlone
  <2>3. req'[r].op # "publish"
    BY <2>1, ContinueFrame DEF Keeps, SameCall, Idle
  <2> QED BY <1>6, <2>1, <2>2, <2>3 DEF InForce, Published, Active, PublisherAlone
<1>8. CASE GetCurrentConfig(r) /\ Active = {}
  <2>1. Goto(r, "default") /\ UNCHANGED config
    BY <1>8 DEF GetCurrentConfig
  <2>2. req'[r].step = "default" /\ req'[r].op = req[r].op
    BY <1>1, <2>1 DEF Goto, RequestState
  <2>3. Published = {}
    BY <1>6, <1>8 DEF InForce, GetCurrentConfig
  <2> QED BY <1>1, <2>1, <2>2, <2>3 DEF InForce, Published, PublisherAlone
<1>9. CASE GetCurrentConfig(r) /\ Active # {}
  <2> DEFINE v == Max(Active)
  <2>1. v \in Versions /\ config[v] = "ACTIVE"
    BY <1>9, LatestVersion DEF Active
  <2>2. WithConfig(r, v) /\ UNCHANGED config
    BY <1>9 DEF GetCurrentConfig
  <2> HIDE DEF v
  <2>3. InForce'
    BY <2>1, <2>2 DEF InForce, Active
  <2>4. CASE req[r].op # "publish"
    <3>1. req'[r].op # "publish" /\ req'[r].step \notin {"deactivate", "activate"}
      <4>1. Idle.op # "publish"
        BY DEF Idle
      <4> QED BY <2>1, <2>2, <2>4, <4>1, ConfigGiven, KeepsStep DEF Keeps, SameCall
    <3> QED BY <2>3, <3>1 DEF PublisherAlone
  <2>5. CASE req[r].op = "publish"
    <3>1. req' = [req EXCEPT ![r].step = "deactivate", ![r].version = v]
      BY <2>1, <2>2, <2>5, ConfigGiven
    <3>2. req'[r].step = "deactivate" /\ req'[r].version = v /\ req'[r].op = "publish"
      BY <1>1, <2>5, <3>1 DEF RequestState
    <3> QED BY <1>1, <2>1, <2>2, <2>3, <2>5, <3>2 DEF PublisherAlone
  <2> QED BY <2>4, <2>5
<1>10. CASE CreateDefaultConfig(r) /\ config[1] # "ABSENT"
  <2>1. Finish(r) /\ UNCHANGED config /\ req[r].step = "default"
    BY <1>10 DEF CreateDefaultConfig
  <2>2. req'[r] = Idle
    BY <1>1, <2>1 DEF Finish
  <2> QED BY <1>4, <1>6, <2>1, <2>2 DEF InForce, Published, Active
<1>11. CASE CreateDefaultConfig(r) /\ config[1] = "ABSENT"
  <2>1. config' = [config EXCEPT ![1] = "ACTIVE"] /\ WithConfig(r, 1)
    BY <1>11 DEF CreateDefaultConfig
  <2>2. config'[1] = "ACTIVE"
    BY <1>1, <2>1, VersionFacts
  <2>3. InForce'
    BY <2>2, VersionFacts DEF InForce, Active
  <2>4. CASE req[r].op # "publish"
    <3>1. req'[r].op # "publish" /\ req'[r].step \notin {"deactivate", "activate"}
      <4>1. Idle.op # "publish"
        BY DEF Idle
      <4> QED BY <2>1, <2>4, <4>1, ConfigGiven, KeepsStep, VersionFacts DEF Keeps, SameCall
    <3> QED BY <2>3, <3>1 DEF PublisherAlone
  <2>5. CASE req[r].op = "publish"
    <3>1. req' = [req EXCEPT ![r].step = "deactivate", ![r].version = 1]
      BY <2>1, <2>5, ConfigGiven, VersionFacts
    <3>2. req'[r].step = "deactivate" /\ req'[r].version = 1 /\ req'[r].op = "publish"
      BY <1>1, <2>5, <3>1 DEF RequestState
    <3>3. config'[MaxVersions + 1] = "ABSENT" /\ MaxVersions > 0
      BY <1>1, <2>1, <2>5, LedgerAssumption DEF PublisherAlone
    <3> QED BY <2>2, <2>3, <3>2, <3>3 DEF PublisherAlone
  <2> QED BY <2>4, <2>5
<1>12. CASE DeactivateVersions(r)
  <2>1. config' = [v \in Versions |-> IF v \in Active THEN "INACTIVE" ELSE config[v]]
    BY <1>12 DEF DeactivateVersions
  <2>2. \A v \in Versions : config'[v] = "ABSENT" <=> config[v] = "ABSENT"
    BY <1>1, <2>1 DEF Active
  <2>3. /\ req'[r].step = "activate" /\ req'[r].version = req[r].version
        /\ req[r].step = "deactivate" /\ req'[r].op = req[r].op
    BY <1>1, <1>12 DEF DeactivateVersions, Goto, RequestState
  <2>4. req[r].version \in Versions /\ config[req[r].version] = "ACTIVE" /\ req[r].op = "publish"
    BY <1>1, <2>3 DEF SlotFit, PublisherAlone
  <2>5. \A w \in Versions : w > req[r].version => config[w] = "ABSENT"
    BY <1>1, <2>4, VersionFacts DEF ConfigInv, VersionsInOrder
  <2>6. MaxVersions + 1 \in Versions
    BY LedgerAssumption DEF Versions
  <2> QED BY <1>1, <2>2, <2>3, <2>4, <2>5, <2>6 DEF InForce, PublisherAlone
<1>13. CASE InsertVersion(r)
  <2> DEFINE v == req[r].version
             next == v + 1
  <2>1. /\ v \in Versions /\ v \in Nat /\ config[v] # "ABSENT" /\ req[r].step = "activate"
        /\ req[r].op = "publish"
    BY <1>1, <1>13, VersionFacts DEF InsertVersion, SlotFit, ConfigInv, PublisherFit, PublisherAlone
  <2>2. v # MaxVersions + 1
    BY <1>1, <2>1 DEF PublisherAlone
  <2>3. next \in Versions
    BY <2>1, <2>2, LedgerAssumption DEF Versions
  <2>4. config[next] = "ABSENT"
    BY <1>1, <2>1, <2>3 DEF PublisherAlone
  <2>5. config' = [config EXCEPT ![next] = IF @ = "ABSENT" THEN "ACTIVE" ELSE @]
    BY <1>13 DEF InsertVersion
  <2>6. config'[next] = "ACTIVE"
    BY <1>1, <2>3, <2>4, <2>5
  <2>7. req'[r] = Idle
    BY <1>1, <1>13 DEF InsertVersion, Finish
  <2> QED BY <1>4, <2>3, <2>6, <2>7 DEF InForce, Active
<1> QED BY <1>7, <1>8, <1>9, <1>10, <1>11, <1>12, <1>13

LEMMA CalmNext == TypeInv /\ TypeInv' /\ ConfigInv /\ CalmInv /\ [Next]_vars => CalmInv'
<1> SUFFICES ASSUME TypeInv, TypeInv', ConfigInv, CalmInv, [Next]_vars, Calm'
             PROVE  Alone' /\ InForce' /\ \A r \in Requests : PublisherAlone(req[r])'
  BY DEF CalmInv
<1>1. Calm
  BY CalmBefore
<1>2. Alone /\ InForce /\ \A r \in Requests : PublisherAlone(req[r])
  BY <1>1 DEF CalmInv
<1>3. ASSUME UNCHANGED <<config, req>>
      PROVE  Alone' /\ InForce' /\ \A r \in Requests : PublisherAlone(req[r])'
  BY <1>2, <1>3 DEF Alone, InForce, Published, Active, PublisherAlone
<1>4. ~Crash
  BY <1>1, LedgerAssumption DEF Crash, Disturb, Calm
<1>5. ASSUME NEW s \in Shipments, NEW kind \in Sweeps, ReceiptSweep(s, kind)
      PROVE  Alone' /\ InForce' /\ \A r \in Requests : PublisherAlone(req[r])'
  BY <1>3, <1>5 DEF ReceiptSweep
<1>6. ASSUME NEW r \in Requests, Begin(r)
      PROVE  Alone' /\ InForce' /\ \A q \in Requests : PublisherAlone(req[q])'
  <2>1. \A q \in Requests : req[q] = Idle
    BY <1>1, <1>6, BeginFrame DEF Calm, Quiet
  <2>2. UNCHANGED config /\ \A q \in Requests \ {r} : req'[q] = Idle
    BY <1>6, <2>1, BeginFrame
  <2>3. Alone'
    BY <2>2 DEF Alone
  <2>4. InForce'
    BY <1>2, <2>1, <2>2 DEF InForce, Published, Active, Idle
  <2>5. PublisherAlone(Idle)'
    BY DEF PublisherAlone, Idle
  <2>6. PublisherAlone(req[r])'
    <3>1. req'[r].step \notin {"deactivate", "activate"}
      BY <1>6, BeginFrame
    <3>2. CASE req'[r].op # "publish"
      BY <3>1, <3>2 DEF PublisherAlone
    <3>3. CASE req'[r].op = "publish"
      <4>1. CreateNewVersion(r)
        BY <1>6, <3>3, BeginFrame
      <4>2. Publishers = {}
        BY <2>1 DEF Publishers, Idle
      <4>3. Cardinality(Published) < MaxVersions
        <5>1. Cardinality(Publishers) = 0
          BY <4>2, FS_EmptySet
        <5>2. Cardinality(Published) + 0 < MaxVersions
          BY <4>1, <5>1 DEF CreateNewVersion
        <5>3. IsFiniteSet(Versions)
          BY FS_Interval, LedgerAssumption DEF Versions
        <5>4. Cardinality(Published) \in Nat
          BY <5>3, FS_Subset, FS_CardinalityType DEF Published
        <5> QED BY <5>2, <5>4
      <4>4. MaxVersions > 0 /\ config[MaxVersions + 1] = "ABSENT"
        BY <4>3, PublishedFacts
      <4> QED BY <2>2, <3>1, <4>4 DEF PublisherAlone
    <3> QED BY <3>2, <3>3
  <2> QED BY <2>2, <2>3, <2>4, <2>5, <2>6
<1>7. CASE UNCHANGED vars
  BY <1>3, <1>7 DEF vars
<1> QED BY <1>1, <1>4, <1>5, <1>6, <1>7, CalmContinue DEF Next

LEMMA CalmInit == Init => CalmInv
BY DEF Init, CalmInv, Alone, InForce, Published, PublisherAlone, Idle

\* As long as handlers run one at a time, a configuration is in force between
\* two of them once one was made: the publisher's insert never fails.
THEOREM ConfigurationInForce == Spec => []ConfigInForce
<1>1. TypeInv /\ CalmInv => ConfigInForce
  BY DEF ConfigInForce, CalmInv, InForce, Quiet, Idle
<1> QED BY <1>1, InitType, NextType, ConfigInit, ConfigNext, CalmInit, CalmNext, PTL DEF Spec

-----------------------------------------------------------------------------
(* Money with a cause.  A stage can be overwritten by a late receipt, but no  *)
(* step takes a stamp away: what a handler found when it started still holds  *)
(* of the stamps when it settles.                                             *)

Arrived == "receivedAtReceiverWarehouseAt"

\* The stamps that a handler relies on or has made.
StampFit(q) ==
    /\ q.op \in {"stage", "complete", "cancel"} \/ q.status = "ABSENT"
    /\ q.status \in {"READY_FOR_PICKUP", "COMPLETED"} => Arrived \in shipment[q.s].stamps
    /\ q.op = "complete" /\ q.step # "save" => {Arrived, "completedAt"} \subseteq shipment[q.s].stamps
    /\ q.op = "cancel" /\ q.step # "save" => "cancelledAt" \in shipment[q.s].stamps

StampInv ==
    /\ \A s \in Shipments :
        shipment[s].status \in {"RECEIVED_AT_RECEIVER_WAREHOUSE", "READY_FOR_PICKUP", "COMPLETED"}
            => Arrived \in shipment[s].stamps
    /\ \A r \in Requests : StampFit(req[r])

StampsKept == \A s \in Shipments : shipment[s].stamps \subseteq shipment'[s].stamps

\* The ticket a handler was called for, and what it found there.
LEMMA CallFacts ==
    ASSUME TypeInv, NEW r \in Requests, Begin(r)
    PROVE  /\ req'[r].op \in {"stage", "complete", "cancel"} \/ req'[r].status = "ABSENT"
           /\ req'[r].op \in {"complete", "cancel"} => req'[r].step = "save"
           /\ req'[r].status \in {"READY_FOR_PICKUP", "COMPLETED"} =>
                  shipment[req'[r].s].status \in {"RECEIVED_AT_RECEIVER_WAREHOUSE", "READY_FOR_PICKUP"}
<1>1. req \in [Requests -> RequestState]
  BY DEF TypeInv, TypeOK
<1> USE <1>1 DEF Start, Idle
<1>2. CASE CreateNewVersion(r)
  BY <1>2 DEF CreateNewVersion
<1>3. ASSUME NEW batch \in SUBSET Shipments, BeginAssign(r, batch)
      PROVE  req'[r].op = "assign" /\ req'[r].status = "ABSENT"
  BY <1>3 DEF BeginAssign
<1>4. ASSUME NEW s \in Shipments, BeginCreate(r, s)
      PROVE  req'[r].op = "create" /\ req'[r].status = "ABSENT"
  BY <1>4 DEF BeginCreate
<1>5. ASSUME NEW s \in Shipments, NEW op, NEW guard, NEW status, BeginStage(r, s, op, guard, status)
      PROVE  /\ req'[r].step = "save" /\ req'[r].s = s /\ req'[r].status = status
             /\ req'[r].op = op /\ guard
  BY <1>5 DEF BeginStage
<1>6. ASSUME NEW s \in Shipments,
             \/ ReceiveAtSenderWarehouse(r, s) \/ CollectAssignedShipmentForDriver(r, s)
             \/ DispatchShipment(r, s) \/ DispatchAssignedShipmentForDriver(r, s)
             \/ ReceiveAtDestinationWarehouse(r, s) \/ ArriveAssignedShipmentForDriver(r, s)
      PROVE  /\ req'[r].step = "save" /\ req'[r].op = "stage"
             /\ req'[r].status \notin {"READY_FOR_PICKUP", "COMPLETED"}
  BY <1>5, <1>6
     DEF ReceiveAtSenderWarehouse, CollectAssignedShipmentForDriver, DispatchShipment,
         DispatchAssignedShipmentForDriver, ReceiveAtDestinationWarehouse,
         ArriveAssignedShipmentForDriver
<1>7. ASSUME NEW s \in Shipments, MarkReadyForPickup(r, s) \/ CompleteShipment(r, s)
      PROVE  /\ req'[r].step = "save" /\ req'[r].s = s /\ req'[r].op \in {"stage", "complete"}
             /\ shipment[s].status \in {"RECEIVED_AT_RECEIVER_WAREHOUSE", "READY_FOR_PICKUP"}
  <2>1. shipment[s].status \in {"RECEIVED_AT_RECEIVER_WAREHOUSE", "READY_FOR_PICKUP"}
    BY <1>7 DEF MarkReadyForPickup, CompleteShipment, BeginStage
  <2>2. req'[r].step = "save" /\ req'[r].s = s /\ req'[r].op \in {"stage", "complete"}
    BY <1>5, <1>7 DEF MarkReadyForPickup, CompleteShipment
  <2> QED BY <2>1, <2>2
<1>8. ASSUME NEW s \in Shipments, CancelShipment(r, s)
      PROVE  req'[r].step = "save" /\ req'[r].op = "cancel" /\ req'[r].status = "CANCELLED"
  BY <1>5, <1>8 DEF CancelShipment
<1> QED BY <1>2, <1>3, <1>4, <1>6, <1>7, <1>8 DEF Begin

\* Only three steps of handlers write a ticket.
LEMMA AwayFromTicket ==
    ASSUME NEW r \in Requests, Continue(r),
           ~InsertShipment(r), ~SaveStage(r), \A s \in req[r].batch : ~SaveAssigned(r, s)
    PROVE  UNCHANGED shipment /\ req[r].step # "save"
<1>1. \/ GetCurrentConfig(r) \/ CreateDefaultConfig(r) \/ DeactivateVersions(r) \/ InsertVersion(r)
      \/ FindPosted(r) \/ FindPending(r) \/ FindVoid(r) \/ FindReversed(r)
      \/ \E j \in req[r].jobs :
          LoadWallet(r, j) \/ OpenWallet(r, j) \/ SaveWallet(r, j) \/ EnterTransaction(r, j)
  BY DEF Continue
<1> QED BY <1>1 DEF GetCurrentConfig, CreateDefaultConfig, DeactivateVersions, InsertVersion,
                    FindPosted, FindPending, FindVoid, FindReversed, LoadWallet, OpenWallet,
                    SaveWallet, EnterTransaction, Running

\* With every stamp kept, what was found remains.
LEMMA StampFitKept ==
    ASSUME TypeInv, TypeInv', StampsKept, NEW r \in Requests, StampFit(req[r]),
           \/ req'[r] = req[r]
           \/ req'[r] = Idle
           \/ SameCall(req'[r], r) /\ req[r].step # "save"
    PROVE  StampFit(req[r])'
<1>1. SlotFit(req[r]) /\ SlotFit(req'[r]) /\ req[r] \in RequestState
  BY DEF TypeInv, TypeOK
<1>2. CASE req'[r] = Idle
  BY <1>2 DEF StampFit, Idle
<1>3. CASE req'[r] = req[r] \/ (SameCall(req'[r], r) /\ req[r].step # "save")
  <2>1. req[r].op \in {"stage", "complete", "cancel"} => req[r].s \in Shipments
    BY <1>1 DEF SlotFit, TicketSteps
  <2>2. req[r].op \notin {"stage", "complete", "cancel"} => req[r].status = "ABSENT"
    BY DEF StampFit
  <2>3. /\ req'[r].op = req[r].op /\ req'[r].s = req[r].s /\ req'[r].status = req[r].status
        /\ req[r].step = "save" => req'[r].step = "save"
    BY <1>3 DEF SameCall
  <2>4. req[r].op \in {"stage", "complete", "cancel"} => shipment[req[r].s].stamps \subseteq shipment'[req[r].s].stamps
    BY <2>1 DEF StampsKept
  <2>5. req'[r].op \in {"stage", "complete", "cancel"} \/ req'[r].status = "ABSENT"
    BY <2>2, <2>3
  <2>6. req'[r].status \in {"READY_FOR_PICKUP", "COMPLETED"} => Arrived \in shipment'[req'[r].s].stamps
    BY <2>2, <2>3, <2>4 DEF StampFit
  <2>7. req'[r].op = "complete" /\ req'[r].step # "save" => {Arrived, "completedAt"} \subseteq shipment'[req'[r].s].stamps
    BY <2>3, <2>4 DEF StampFit
  <2>8. req'[r].op = "cancel" /\ req'[r].step # "save" => "cancelledAt" \in shipment'[req'[r].s].stamps
    BY <2>3, <2>4 DEF StampFit
  <2> QED BY <2>5, <2>6, <2>7, <2>8 DEF StampFit
<1> QED BY <1>2, <1>3

LEMMA StampNext == TypeInv /\ TypeInv' /\ StampInv /\ [Next]_vars => StampInv' /\ StampsKept
<1> SUFFICES ASSUME TypeInv, TypeInv', StampInv, [Next]_vars
             PROVE  StampInv' /\ StampsKept
  OBVIOUS
<1> DEFINE Late == {"RECEIVED_AT_RECEIVER_WAREHOUSE", "READY_FOR_PICKUP", "COMPLETED"}
<1>1. /\ req \in [Requests -> RequestState] /\ \A r \in Requests : SlotFit(req[r])
      /\ shipment \in [Shipments -> ShipmentDoc]
  BY DEF TypeInv, TypeOK
<1>2. \A s \in Shipments : shipment[s].status \in Late => Arrived \in shipment[s].stamps
  BY DEF StampInv
<1>3. ASSUME UNCHANGED shipment,
             \A r \in Requests : \/ req'[r] = req[r] \/ req'[r] = Idle
                                 \/ SameCall(req'[r], r) /\ req[r].step # "save"
      PROVE  StampInv' /\ StampsKept
  <2>1. StampsKept
    BY <1>3 DEF StampsKept
  <2>2. \A r \in Requests : StampFit(req[r])'
    BY <1>3, <2>1, StampFitKept DEF StampInv
  <2> QED BY <1>2, <1>3, <2>1, <2>2 DEF StampInv
<1>4. CASE UNCHANGED vars
  BY <1>3, <1>4 DEF vars
<1>5. CASE Crash
  BY <1>3, <1>5 DEF Crash
<1>6. ASSUME NEW r \in Requests, Begin(r)
      PROVE  StampInv' /\ StampsKept
  <2>1. UNCHANGED shipment /\ \A q \in Requests \ {r} : req'[q] = req[q]
    BY <1>6, BeginFrame
  <2>2. StampsKept
    BY <2>1 DEF StampsKept
  <2>3. StampFit(req[r])'
    <3>1. SlotFit(req'[r])
      BY DEF TypeInv
    <3>2. req'[r].status \in {"READY_FOR_PICKUP", "COMPLETED"} => req'[r].s \in Shipments
      BY <1>6, <3>1, CallFacts DEF SlotFit, TicketSteps
    <3> QED BY <1>2, <1>6, <2>1, <3>2, CallFacts DEF StampFit
  <2>4. \A q \in Requests : StampFit(req[q])'
    BY <2>1, <2>2, <2>3, StampFitKept DEF StampInv
  <2> QED BY <1>2, <2>1, <2>2, <2>4 DEF StampInv
<1>7. ASSUME NEW s \in Shipments, NEW kind \in Sweeps, ReceiptSweep(s, kind)
      PROVE  StampInv' /\ StampsKept
  <2> DEFINE status == SweepStatus(kind)
             stamps == shipment[s].stamps \cup Stamp(status)
  <2>1. shipment' = [shipment EXCEPT ![s].status = status,
                                     ![s].assigned = kind # "unlink" /\ (@ \/ kind = "link"),
                                     ![s].stamps = stamps]
    BY <1>7 DEF ReceiptSweep
  <2>2. status \in Late => Arrived \in stamps
    BY LedgerAssumption, StampType DEF SweepStatus, Arrived
  <2>3. shipment[s].stamps \subseteq stamps
    OBVIOUS
  <2> HIDE DEF status, stamps
  <2>4. /\ shipment'[s].status = status /\ shipment'[s].stamps = stamps
        /\ \A t \in Shipments \ {s} : shipment'[t] = shipment[t]
    BY <1>1, <2>1 DEF ShipmentDoc
  <2>5. StampsKept
    BY <2>3, <2>4 DEF StampsKept
  <2>6. \A t \in Shipments : shipment'[t].status \in Late => Arrived \in shipment'[t].stamps
    BY <1>2, <2>2, <2>4
  <2>7. \A q \in Requests : StampFit(req[q])'
    BY <1>7, <2>5, StampFitKept DEF ReceiptSweep, StampInv
  <2> QED BY <2>5, <2>6, <2>7 DEF StampInv
<1>8. ASSUME NEW r \in Requests, Continue(r)
      PROVE  StampInv' /\ StampsKept
  <2> DEFINE q == req[r]
  <2>1. \A p \in Requests \ {r} : req'[p] = req[p]
    BY <1>8, ContinueFrame DEF Keeps
  <2>2. q \in RequestState /\ SlotFit(q) /\ StampFit(q) /\ (req'[r] = Idle \/ SameCall(req'[r], r))
    BY <1>1, <1>8, ContinueFrame DEF Keeps, StampInv
  <2>3. CASE ~InsertShipment(r) /\ ~SaveStage(r) /\ \A s \in q.batch : ~SaveAssigned(r, s)
    <3>1. UNCHANGED shipment /\ q.step # "save"
      BY <1>8, <2>3, AwayFromTicket
    <3> QED BY <1>3, <2>1, <2>2, <3>1
  <2>4. ASSUME NEW s \in Shipments, q.step # "save", shipment'[s].status \notin Late,
               shipment'[s].stamps = shipment[s].stamps,
               \A t \in Shipments \ {s} : shipment'[t] = shipment[t]
        PROVE  StampInv' /\ StampsKept
    <3>2. StampsKept
      BY <2>4 DEF StampsKept
    <3>3. \A t \in Shipments : shipment'[t].status \in Late => Arrived \in shipment'[t].stamps
      BY <1>2, <2>4
    <3>4. \A p \in Requests : StampFit(req[p])'
      BY <2>1, <2>2, <2>4, <3>2, StampFitKept DEF StampInv
    <3> QED BY <3>2, <3>3, <3>4 DEF StampInv
  <2>5. CASE InsertShipment(r)
    <3>1. q.s \in Shipments
      BY <2>2, <2>5 DEF InsertShipment, SlotFit, TicketSteps
    <3>2. q.step # "save" /\ shipment' = [shipment EXCEPT ![q.s].status = "CREATED"]
      BY <2>5 DEF InsertShipment
    <3>3. /\ shipment'[q.s].status = "CREATED" /\ shipment'[q.s].stamps = shipment[q.s].stamps
          /\ \A t \in Shipments \ {q.s} : shipment'[t] = shipment[t]
      BY <1>1, <3>1, <3>2 DEF ShipmentDoc
    <3> QED BY <2>4, <3>1, <3>2, <3>3
  <2>6. ASSUME NEW s \in q.batch, SaveAssigned(r, s)
        PROVE  StampInv' /\ StampsKept
    <3>1. s \in Shipments
      BY <2>2 DEF RequestState
    <3>2. /\ q.step # "save"
          /\ shipment' = [shipment EXCEPT ![s].status = "ASSIGNED", ![s].assigned = TRUE]
      BY <2>6 DEF SaveAssigned
    <3>3. /\ shipment'[s].status = "ASSIGNED" /\ shipment'[s].stamps = shipment[s].stamps
          /\ \A t \in Shipments \ {s} : shipment'[t] = shipment[t]
      BY <1>1, <3>1, <3>2 DEF ShipmentDoc
    <3> QED BY <2>4, <3>1, <3>2, <3>3
  <2>7. CASE SaveStage(r)
    <3> DEFINE s == q.s
               status == Written(shipment[s].status, q.seen.status, q.status)
               stamps == shipment[s].stamps \cup Stamp(q.status)
    <3>1. s \in Shipments /\ q.step = "save"
      BY <2>2, <2>7 DEF SaveStage, SlotFit, TicketSteps
    <3>2. shipment' = [shipment EXCEPT ![s].status = status, ![s].stamps = stamps]
      BY <2>7 DEF SaveStage
    <3>3. status = shipment[s].status \/ status = q.status
      BY DEF Written
    <3>4. shipment[s].stamps \subseteq stamps /\ Stamp(q.status) \subseteq stamps
      OBVIOUS
    <3> HIDE DEF status, stamps
    <3>5. /\ shipment'[s].status = status /\ shipment'[s].stamps = stamps
          /\ \A t \in Shipments \ {s} : shipment'[t] = shipment[t]
      BY <1>1, <3>1, <3>2 DEF ShipmentDoc
    <3>6. q.status \in Late => Arrived \in stamps
      BY <2>2, <3>4, StampType DEF StampFit, Arrived
    <3>7. status \in Late => Arrived \in stamps
      BY <1>2, <3>1, <3>3, <3>4, <3>6
    <3>8. StampsKept
      BY <3>4, <3>5 DEF StampsKept
    <3>9. StampFit(req[r])'
      <4>1. CASE req'[r] = Idle
        BY <4>1 DEF StampFit, Idle
      <4>2. CASE SameCall(req'[r], r)
        <5>1. q.op = "complete" => q.status = "COMPLETED"
          BY <2>2, <3>1 DEF SlotFit
        <5>2. q.op = "cancel" => q.status = "CANCELLED"
          BY <2>2, <3>1 DEF SlotFit
        <5>3. q.op = "complete" => {Arrived, "completedAt"} \subseteq stamps
          BY <3>4, <3>6, <5>1, StampType
        <5>4. q.op = "cancel" => "cancelledAt" \in stamps
          BY <3>4, <5>2, StampType
        <5> QED BY <2>2, <3>5, <3>6, <4>2, <5>3, <5>4 DEF StampFit, SameCall
      <4> QED BY <2>2, <4>1, <4>2
    <3>10. \A p \in Requests : StampFit(req[p])'
      BY <2>1, <3>8, <3>9, StampFitKept DEF StampInv
    <3>11. \A t \in Shipments : shipment'[t].status \in Late => Arrived \in shipment'[t].stamps
      BY <1>2, <3>5, <3>7
    <3> QED BY <3>8, <3>10, <3>11 DEF StampInv
  <2> QED BY <2>3, <2>5, <2>6, <2>7
<1> QED BY <1>4, <1>5, <1>6, <1>7, <1>8 DEF Next

LEMMA StampInit == Init => StampInv
BY DEF Init, StampInv, StampFit, Idle, NoShipment

\* Which transactions of a ticket hold posted money.
LEMMA PostedShare ==
    ASSUME NEW t \in TxDoc
    PROVE  Posted(t) # <<>> <=> t.status = "POSTED" \/ t.direct # <<>>
<1>1. t.direct \in Seq(Int) /\ <<t.amount>> \in Seq(Int) /\ Len(<<t.amount>>) = 1
  BY DEF TxDoc
<1>2. CASE t.status = "POSTED"
  <2>1. Posted(t) = <<t.amount>> \o t.direct
    BY <1>2 DEF Posted
  <2>2. Len(<<t.amount>> \o t.direct) = 1 + Len(t.direct) /\ Len(t.direct) \in Nat
    BY <1>1
  <2>3. Len(Posted(t)) # 0
    BY <2>1, <2>2
  <2> QED BY <1>2, <2>3
<1>3. CASE t.status # "POSTED"
  <2>1. Posted(t) = <<>> \o t.direct
    BY <1>3 DEF Posted
  <2>2. <<>> \o t.direct = t.direct
    BY <1>1
  <2> QED BY <1>3, <2>1, <2>2
<1> QED BY <1>2, <1>3

\* What a wallet update enters.
LEMMA EnteredCause ==
    ASSUME NEW t \in TxDoc, NEW kind \in {"pend", "credit", "post", "void", "debit"},
           NEW amount \in Int
    PROVE  LET u == Entered(t, kind, amount)
           IN  /\ u.status = "VOID" => t.status = "VOID" \/ kind = "void"
               /\ u.status = "POSTED" => t.status = "POSTED" \/ kind = "post"
               /\ u.direct # <<>> => t.direct # <<>> \/ kind = "credit"
BY DEF Entered, TxDoc

LEMMA CauseJob ==
    ASSUME TypeInv, TypeInv', StampInv, SettledWithCause, StampsKept,
           NEW r \in Requests, NEW j \in req[r].jobs, EnterTransaction(r, j)
    PROVE  SettledWithCause'
<1> DEFINE q == req[r]
           u == Entered(tx[q.s][j.role], j.kind, j.amount)
<1>1. /\ q \in RequestState /\ SlotFit(q) /\ StampFit(q) /\ q.step = "jobs" /\ j \in q.jobs
      /\ tx \in [Shipments -> [Roles -> TxDoc]]
  BY DEF TypeInv, TypeOK, StampInv, EnterTransaction, Running
<1>2. q.s \in Shipments /\ j \in Jobs /\ j.role \in Roles /\ tx[q.s][j.role] \in TxDoc
  BY <1>1 DEF SlotFit, TicketSteps, RequestState, Jobs
<1>3. tx' = [tx EXCEPT ![q.s][j.role] = u] /\ UNCHANGED shipment
  BY DEF EnterTransaction
<1>4. /\ u.status = "VOID" => tx[q.s][j.role].status = "VOID" \/ j.kind = "void"
      /\ u.status = "POSTED" => tx[q.s][j.role].status = "POSTED" \/ j.kind = "post"
      /\ u.direct # <<>> => tx[q.s][j.role].direct # <<>> \/ j.kind = "credit"
  BY <1>2, EnteredCause DEF Jobs
<1>5. u \in TxDoc
  BY <1>2, EnteredType DEF Jobs
<1> HIDE DEF u
<1>6. j.kind \in {"post", "credit"} => {Arrived, "completedAt"} \subseteq shipment[q.s].stamps
  BY <1>1 DEF SlotFit, StampFit
<1>7. j.kind = "void" => "cancelledAt" \in shipment[q.s].stamps
  BY <1>1 DEF SlotFit, StampFit
<1>8. \A s \in Shipments, role \in Roles :
          tx'[s][role] = (IF s = q.s /\ role = j.role THEN u ELSE tx[s][role])
  BY <1>1, <1>2, <1>3
<1>9. /\ Posted(u) # <<>> => {Arrived, "completedAt"} \subseteq shipment[q.s].stamps
      /\ u.status = "VOID" => "cancelledAt" \in shipment[q.s].stamps
  <2>1. Posted(u) # <<>> => Posted(tx[q.s][j.role]) # <<>> \/ j.kind \in {"post", "credit"}
    BY <1>2, <1>4, <1>5, PostedShare
  <2>2. Posted(tx[q.s][j.role]) # <<>> => {Arrived, "completedAt"} \subseteq shipment[q.s].stamps
    BY <1>2 DEF SettledWithCause, Arrived
  <2>3. tx[q.s][j.role].status = "VOID" => "cancelledAt" \in shipment[q.s].stamps
    BY <1>2 DEF SettledWithCause
  <2> QED BY <1>4, <1>6, <1>7, <2>1, <2>2, <2>3
<1> QED BY <1>3, <1>8, <1>9 DEF SettledWithCause, Arrived

\* Only the end of a wallet update enters a transaction.
LEMMA AwayFromTx ==
    ASSUME NEW r \in Requests, Continue(r), \A j \in req[r].jobs : ~EnterTransaction(r, j)
    PROVE  UNCHANGED tx
<1>1. \/ InsertShipment(r) \/ SaveStage(r)
      \/ \E s \in req[r].batch : SaveAssigned(r, s)
      \/ GetCurrentConfig(r) \/ CreateDefaultConfig(r) \/ DeactivateVersions(r) \/ InsertVersion(r)
      \/ FindPosted(r) \/ FindPending(r) \/ FindVoid(r) \/ FindReversed(r)
      \/ \E j \in req[r].jobs : LoadWallet(r, j) \/ OpenWallet(r, j) \/ SaveWallet(r, j)
  BY DEF Continue
<1> QED BY <1>1 DEF InsertShipment, SaveStage, SaveAssigned, GetCurrentConfig, CreateDefaultConfig,
                    DeactivateVersions, InsertVersion, FindPosted, FindPending, FindVoid,
                    FindReversed, LoadWallet, OpenWallet, SaveWallet

LEMMA CauseNext ==
    TypeInv /\ TypeInv' /\ StampInv /\ SettledWithCause /\ [Next]_vars => SettledWithCause'
<1> SUFFICES ASSUME TypeInv, TypeInv', StampInv, SettledWithCause, [Next]_vars
             PROVE  SettledWithCause'
  OBVIOUS
<1>1. StampsKept
  BY StampNext
<1>2. ASSUME UNCHANGED tx
      PROVE  SettledWithCause'
  BY <1>1, <1>2 DEF SettledWithCause, StampsKept
<1>3. CASE UNCHANGED vars \/ Crash
  BY <1>2, <1>3 DEF vars, Crash
<1>4. ASSUME NEW r \in Requests, Begin(r)
      PROVE  SettledWithCause'
  BY <1>2, <1>4, BeginFrame
<1>5. ASSUME NEW s \in Shipments, NEW kind \in Sweeps, ReceiptSweep(s, kind)
      PROVE  SettledWithCause'
  BY <1>2, <1>5 DEF ReceiptSweep
<1>6. ASSUME NEW r \in Requests, Continue(r)
      PROVE  SettledWithCause'
  BY <1>1, <1>2, <1>6, AwayFromTx, CauseJob
<1> QED BY <1>3, <1>4, <1>5, <1>6 DEF Next

\* However handlers interleave, crash or meet late receipts: money is posted
\* only for a ticket that arrived and was completed, and a pending share is
\* made void only for one that was cancelled.
THEOREM MoneySettledWithCause == Spec => []SettledWithCause
<1>1. Init => SettledWithCause
  BY NoTxType, PostedShare DEF Init, SettledWithCause, NoTx
<1> QED BY <1>1, InitType, NextType, StampInit, StampNext, CauseNext, PTL DEF Spec

-----------------------------------------------------------------------------
(* The shares of a ticket.  They come from one split of its price: a ticket is *)
(* created once, its shares are entered by that handler alone, and whatever is *)
(* done with them later leaves their amounts alone.                           *)

Untouched(s) == \A role \in Roles : tx[s][role].status = "ABSENT"

Shares(price) ==
    {split \in [Roles -> Int] :
        Rounds(price, Cent, split["SENDER"] + split["RECEIVER"] + split["COMPANY"])}

\* The shares still to be entered and those entered are shares of one split.
FromSplit(q, split) ==
    /\ \A j \in q.jobs : j.amount = split[j.role]
    /\ \A role \in Roles :
        tx[q.s][role].status # "ABSENT" => tx[q.s][role].amount = split[role]

ShareFit(q) ==
    /\ q.op = "create" /\ q.step = "insert" => ~Exists(q.s)
    /\ q.s \in Shipments /\ q.step # "insert" => Exists(q.s)
    /\ \A s \in q.batch : Exists(s)
    /\ q.op = "create" /\ q.step # "jobs" => Untouched(q.s)
    /\ q.op = "create" /\ q.step = "jobs" =>
        \E split \in Shares(CalculatePrice(Parcel[q.s])) : FromSplit(q, split)
    /\ \A j \in q.jobs : j.kind \in {"post", "void"} => tx[q.s][j.role].status # "ABSENT"

CreatedOnce ==
    \A p, q \in Requests :
        p # q /\ req[p].op = "create" /\ req[q].op = "create" => req[p].s # req[q].s

ShareInv ==
    /\ CreatedOnce
    /\ \A s \in Shipments : ~Exists(s) => Untouched(s)
    /\ \A r \in Requests : ShareFit(req[r])
    /\ SharesAddUp

\* A wallet update that goes on, or one that its handler had a reason to add.
Founded(j, q) ==
    \/ \E k \in q.jobs : k.role = j.role /\ k.kind = j.kind /\ k.amount = j.amount
    \/ q.op # "create" /\ (j.kind \in {"post", "void"} => tx[q.s][j.role].status # "ABSENT")

Moves(r) ==
    \/ req'[r] = Idle
    \/ /\ SameCall(req'[r], r)
       /\ req'[r].batch \subseteq req[r].batch
       /\ req'[r].step \notin {"insert", "save"}
       /\ req[r].op = "create" => (req'[r].step = "jobs" <=> req[r].step = "jobs")
       /\ \A j \in req'[r].jobs : Founded(j, req[r])

\* The one step that gives a handler shares to enter.
SharesSplit(r) ==
    /\ req[r].op = "create" /\ req[r].step \in {"share", "default"}
    /\ \E v \in Versions : \E split \in Splits(CalculatePrice(Parcel[req[r].s]), Percent[v]) :
        req' = [req EXCEPT ![r].step = "jobs", ![r].then = "idle",
                           ![r].jobs = {NewJob(role, 0, "pend", split[role]) : role \in Roles}]

LEMMA MovesSlot ==
    ASSUME TypeInv, NEW r \in Requests, NEW slot, SameCall(slot, r),
           slot.batch \subseteq req[r].batch, slot.step \notin {"insert", "save"},
           req[r].op = "create" => (slot.step = "jobs" <=> req[r].step = "jobs"),
           \A j \in slot.jobs : Founded(j, req[r]),
           req' = [req EXCEPT ![r] = slot]
    PROVE  Moves(r)
<1>1. req'[r] = slot
  BY DEF TypeInv, TypeOK
<1> QED BY <1>1 DEF Moves

LEMMA FoundedKept == \A q : \A j \in q.jobs : Founded(j, q)
BY DEF Founded

LEMMA MovesGoto ==
    ASSUME TypeInv, NEW r \in Requests, NEW step, step \notin {"insert", "save"}, Goto(r, step),
           req[r].op = "create" => step # "jobs" /\ req[r].step # "jobs"
    PROVE  Moves(r)
<1> DEFINE slot == [req[r] EXCEPT !.step = step]
<1>1. req[r] \in RequestState
  BY DEF TypeInv, TypeOK
<1>2. SameCall(slot, r) /\ slot.batch = req[r].batch /\ slot.step = step /\ slot.jobs = req[r].jobs
  BY <1>1 DEF RequestState, SameCall
<1>3. req' = [req EXCEPT ![r] = slot]
  BY DEF Goto
<1> HIDE DEF slot
<1> QED BY <1>2, <1>3, MovesSlot, FoundedKept

LEMMA MovesFinish ==
    ASSUME TypeInv, NEW r \in Requests, Finish(r)
    PROVE  Moves(r)
BY DEF Finish, Moves, TypeInv, TypeOK

LEMMA MovesLaunch ==
    ASSUME TypeInv, NEW r \in Requests, NEW jobs, NEW then, Launch(r, jobs, then),
           req[r].op # "create", then \notin {"insert", "save"},
           \A j \in jobs : Founded(j, req[r])
    PROVE  Moves(r)
<1> DEFINE slot == [req[r] EXCEPT !.step = "jobs", !.jobs = jobs, !.then = then]
<1>1. req[r] \in RequestState
  BY DEF TypeInv, TypeOK
<1>2. SameCall(slot, r) /\ slot.batch = req[r].batch /\ slot.step = "jobs" /\ slot.jobs = jobs
  BY <1>1 DEF RequestState, SameCall
<1>3. Finish(r) \/ Goto(r, then) \/ req' = [req EXCEPT ![r] = slot]
  BY DEF Launch, Finish, Goto
<1> HIDE DEF slot
<1> QED BY <1>2, <1>3, MovesSlot, MovesFinish, MovesGoto

LEMMA MovesReplace ==
    ASSUME TypeInv, NEW r \in Requests, NEW j \in req[r].jobs, NEW k, Replace(r, j, k),
           req[r].step = "jobs",
           k.role = j.role, k.kind = j.kind, k.amount = j.amount
    PROVE  Moves(r)
<1> DEFINE slot == [req[r] EXCEPT !.jobs = (@ \ {j}) \cup {k}]
<1>1. req[r] \in RequestState
  BY DEF TypeInv, TypeOK
<1>2. /\ SameCall(slot, r) /\ slot.batch = req[r].batch /\ slot.step = req[r].step
      /\ slot.jobs \subseteq req[r].jobs \cup {k}
  BY <1>1 DEF RequestState, SameCall
<1>3. req' = [req EXCEPT ![r] = slot]
  BY DEF Replace
<1>4. Founded(k, req[r])
  BY DEF Founded
<1> HIDE DEF slot
<1> QED BY <1>2, <1>3, <1>4, MovesSlot, FoundedKept

LEMMA MovesEndJob ==
    ASSUME TypeInv, NEW r \in Requests, NEW j \in req[r].jobs, EndJob(r, j), req[r].step = "jobs"
    PROVE  Moves(r)
<1> DEFINE rest == [req[r] EXCEPT !.jobs = @ \ {j}]
           slot == [req[r] EXCEPT !.jobs = {}, !.step = req[r].then]
<1>1. req[r] \in RequestState /\ SlotFit(req[r])
  BY DEF TypeInv, TypeOK
<1>2. /\ SameCall(rest, r) /\ rest.batch = req[r].batch /\ rest.step = req[r].step
      /\ rest.jobs \subseteq req[r].jobs
      /\ SameCall(slot, r) /\ slot.batch = req[r].batch /\ slot.step = req[r].then /\ slot.jobs = {}
  BY <1>1 DEF RequestState, SameCall
<1>3. \/ Finish(r)
      \/ req' = [req EXCEPT ![r] = rest]
      \/ req[r].then # "idle" /\ req' = [req EXCEPT ![r] = slot]
  BY DEF EndJob
<1>4. req[r].then \notin {"insert", "save"} /\ (req[r].then # "idle" => req[r].op # "create")
  BY <1>1 DEF SlotFit
<1> HIDE DEF slot, rest
<1> QED BY <1>2, <1>3, <1>4, MovesSlot, MovesFinish, FoundedKept

LEMMA SettleFounded ==
    ASSUME NEW q, NEW roles \in SUBSET Roles, NEW kind \in {"post", "void"}, q.op # "create"
    PROVE  \A j \in Settle(q.s, roles, kind) : Founded(j, q)
<1>1. ASSUME NEW role \in Pending(q.s, roles)
      PROVE  Founded(NewJob(role, 0, kind, tx[q.s][role].amount), q)
  <2>1. tx[q.s][role].status = "PENDING"
    BY DEF Pending
  <2>2. NewJob(role, 0, kind, tx[q.s][role].amount).role = role
    BY DEF NewJob
  <2> QED BY <2>1, <2>2 DEF Founded
<1> QED BY <1>1 DEF Settle

LEMMA SettlingMoves ==
    ASSUME TypeInv, NEW r \in Requests,
           FindPosted(r) \/ FindPending(r) \/ FindVoid(r) \/ FindReversed(r)
    PROVE  Moves(r)
<1> DEFINE q == req[r]
<1>1. q \in RequestState /\ SlotFit(q) /\ q.s \in Shipments
  BY DEF TypeInv, TypeOK, FindPosted, FindPending, FindVoid, FindReversed, SlotFit, TicketSteps
<1>2. q.op \in {"complete", "cancel"}
  BY <1>1 DEF FindPosted, FindPending, FindVoid, FindReversed, SlotFit, RequestState
<1>3. BranchRoles \subseteq Roles /\ {"COMPANY"} \subseteq Roles
  BY DEF BranchRoles, Roles
<1>4. \A kind \in {"post", "void"} : \A roles \in {BranchRoles, {"COMPANY"}} :
          \A j \in Settle(q.s, roles, kind) : Founded(j, q)
  BY <1>2, <1>3, SettleFounded
<1>5. \A j : j.kind \in {"credit", "debit"} => Founded(j, q)
  BY <1>2 DEF Founded
<1>6. CASE FindPosted(r) /\ q.step = "postedBranch"
  <2> DEFINE slot == [q EXCEPT !.posted = HasPosted(q.s, BranchRoles), !.step = "postedCompany"]
  <2>1. /\ SameCall(slot, r) /\ slot.batch = q.batch /\ slot.step = "postedCompany"
        /\ slot.jobs = q.jobs
    BY <1>1 DEF RequestState, SameCall
  <2>2. req' = [req EXCEPT ![r] = slot]
    BY <1>6 DEF FindPosted
  <2> HIDE DEF slot
  <2> QED BY <1>2, <2>1, <2>2, MovesSlot, FoundedKept
<1>7. CASE FindPosted(r) /\ q.step = "postedCompany"
  BY <1>2, <1>7, MovesFinish, MovesGoto DEF FindPosted
<1>8. CASE FindPending(r) /\ q.step = "pendingBranch"
  <2> DEFINE jobs == Settle(q.s, BranchRoles, "post")
             slot == [q EXCEPT !.jobs = jobs, !.step = "pendingCompany"]
  <2>1. /\ SameCall(slot, r) /\ slot.batch = q.batch /\ slot.step = "pendingCompany"
        /\ slot.jobs = jobs
    BY <1>1 DEF RequestState, SameCall
  <2>2. req' = [req EXCEPT ![r] = slot]
    BY <1>8 DEF FindPending
  <2> HIDE DEF slot
  <2> QED BY <1>2, <1>4, <2>1, <2>2, MovesSlot
<1>9. CASE FindPending(r) /\ q.step = "pendingCompany"
  <2> DEFINE posts == q.jobs \cup Settle(q.s, {"COMPANY"}, "post")
             credits == {NewJob(role, 0, "credit", q.split[role]) : role \in Roles}
             jobs == IF posts = {} THEN credits ELSE posts
  <2>1. \A j \in posts : Founded(j, q)
    BY <1>4, FoundedKept
  <2>2. \A j \in credits : Founded(j, q)
    BY <1>5 DEF NewJob
  <2>3. Launch(r, jobs, "idle")
    BY <1>9 DEF FindPending
  <2> HIDE DEF posts, credits
  <2>4. \A j \in jobs : Founded(j, q)
    BY <2>1, <2>2
  <2> HIDE DEF jobs
  <2> QED BY <1>2, <2>3, <2>4, MovesLaunch
<1>10. CASE FindVoid(r)
  <2>1. \/ Launch(r, Settle(q.s, BranchRoles, "void"), "voidCompany")
        \/ Launch(r, Settle(q.s, {"COMPANY"}, "void"), "reverseBranch")
    BY <1>10 DEF FindVoid
  <2> QED BY <1>2, <1>4, <2>1, MovesLaunch
<1>11. CASE FindReversed(r)
  <2> DEFINE branches == UNION {Debits(q.s, role) : role \in BranchRoles}
             company == {j \in Debits(q.s, "COMPANY") : j.n = 1}
  <2>1. \A role : \A j \in Debits(q.s, role) : j.kind = "debit"
    BY DEF Debits, NewJob
  <2>2. \A j \in branches \cup company : Founded(j, q)
    BY <1>5, <2>1
  <2>3. Launch(r, branches, "reverseCompany") \/ Finish(r) \/ Launch(r, company, "idle")
    BY <1>11 DEF FindReversed
  <2> HIDE DEF branches, company
  <2> QED BY <1>2, <2>2, <2>3, MovesLaunch, MovesFinish
<1> QED BY <1>6, <1>7, <1>8, <1>9, <1>10, <1>11 DEF FindPosted, FindPending

LEMMA WithConfigMoves ==
    ASSUME TypeInv, NEW r \in Requests, NEW v \in Versions, WithConfig(r, v),
           req[r].step \in {"share", "default"}
    PROVE  Moves(r) \/ SharesSplit(r)
<1> DEFINE q == req[r]
<1>1. q \in RequestState /\ SlotFit(q)
  BY DEF TypeInv, TypeOK
<1>2. CASE q.op = "publish"
  <2> DEFINE slot == [q EXCEPT !.step = "deactivate", !.version = v]
  <2>1. SameCall(slot, r) /\ slot.batch = q.batch /\ slot.step = "deactivate" /\ slot.jobs = q.jobs
    BY <1>1 DEF RequestState, SameCall
  <2>2. req' = [req EXCEPT ![r] = slot]
    BY <1>2 DEF WithConfig
  <2> HIDE DEF slot
  <2> QED BY <1>2, <2>1, <2>2, MovesSlot, FoundedKept
<1>3. CASE q.op # "publish"
  <2>1. q.s \in Shipments
    BY <1>1, <1>3 DEF SlotFit
  <2>2. PICK split \in Splits(CalculatePrice(Parcel[q.s]), Percent[v]) :
            IF q.op = "create"
            THEN Launch(r, {NewJob(role, 0, "pend", split[role]) : role \in Roles}, "idle")
            ELSE req' = [req EXCEPT ![r].step = "postedBranch", ![r].split = split]
    BY <1>3 DEF WithConfig
  <2>4. CASE q.op = "create"
    <3> DEFINE jobs == {NewJob(role, 0, "pend", split[role]) : role \in Roles}
    <3>1. jobs # {}
      BY DEF Roles
    <3>2. req' = [req EXCEPT ![r].step = "jobs", ![r].then = "idle", ![r].jobs = jobs]
      BY <2>2, <2>4, <3>1 DEF Launch
    <3> QED BY <2>2, <2>4, <3>2 DEF SharesSplit
  <2>5. CASE q.op # "create"
    <3> DEFINE slot == [q EXCEPT !.step = "postedBranch", !.split = split]
    <3>1. /\ SameCall(slot, r) /\ slot.batch = q.batch /\ slot.step = "postedBranch"
          /\ slot.jobs = q.jobs
      BY <1>1 DEF RequestState, SameCall
    <3>2. req' = [req EXCEPT ![r] = slot]
      BY <2>2, <2>5
    <3> HIDE DEF slot
    <3> QED BY <2>5, <3>1, <3>2, MovesSlot, FoundedKept
  <2> QED BY <2>4, <2>5
<1> QED BY <1>2, <1>3

LEMMA JobMoves ==
    ASSUME TypeInv, NEW r \in Requests, NEW j \in req[r].jobs,
           LoadWallet(r, j) \/ OpenWallet(r, j) \/ SaveWallet(r, j) \/ EnterTransaction(r, j)
    PROVE  Moves(r)
<1>1. req[r].step = "jobs" /\ j \in Jobs
  BY DEF TypeInv, TypeOK, RequestState, LoadWallet, OpenWallet, SaveWallet, EnterTransaction, Running
<1>2. ASSUME NEW at, NEW seen
      PROVE  /\ [j EXCEPT !.at = at, !.seen = seen].role = j.role
             /\ [j EXCEPT !.at = at, !.seen = seen].kind = j.kind
             /\ [j EXCEPT !.at = at, !.seen = seen].amount = j.amount
             /\ [j EXCEPT !.at = at].role = j.role
             /\ [j EXCEPT !.at = at].kind = j.kind
             /\ [j EXCEPT !.at = at].amount = j.amount
  BY <1>1 DEF Jobs
<1>3. CASE LoadWallet(r, j)
  <2> DEFINE w == wallet[JobAccount(r, j)]
             k == IF w.open THEN [j EXCEPT !.at = "save", !.seen = w] ELSE [j EXCEPT !.at = "open"]
  <2>1. k.role = j.role /\ k.kind = j.kind /\ k.amount = j.amount
    BY <1>2
  <2>2. Replace(r, j, k)
    BY <1>3 DEF LoadWallet
  <2> HIDE DEF k
  <2> QED BY <1>1, <2>1, <2>2, MovesReplace
<1>4. CASE OpenWallet(r, j)
  <2> DEFINE k == [j EXCEPT !.at = "save", !.seen = wallet'[JobAccount(r, j)]]
  <2>1. k.role = j.role /\ k.kind = j.kind /\ k.amount = j.amount
    BY <1>1 DEF Jobs
  <2>2. EndJob(r, j) \/ Replace(r, j, k)
    BY <1>4 DEF OpenWallet
  <2> HIDE DEF k
  <2> QED BY <1>1, <2>1, <2>2, MovesReplace, MovesEndJob
<1>5. CASE SaveWallet(r, j)
  <2> DEFINE k == [j EXCEPT !.at = "note", !.seen = NoWallet]
  <2>1. k.role = j.role /\ k.kind = j.kind /\ k.amount = j.amount
    BY <1>1 DEF Jobs
  <2>2. Replace(r, j, k)
    BY <1>5 DEF SaveWallet
  <2> HIDE DEF k
  <2> QED BY <1>1, <2>1, <2>2, MovesReplace
<1>6. CASE EnterTransaction(r, j)
  BY <1>1, <1>6, MovesEndJob DEF EnterTransaction
<1> QED BY <1>3, <1>4, <1>5, <1>6

\* Every step of a handler after its first is one of these.
LEMMA ContinueMoves ==
    ASSUME TypeInv, NEW r \in Requests, Continue(r)
    PROVE  Moves(r) \/ SharesSplit(r)
<1> DEFINE q == req[r]
<1>1. q \in RequestState /\ SlotFit(q)
  BY DEF TypeInv, TypeOK
<1>2. CASE InsertShipment(r)
  BY <1>2, MovesGoto DEF InsertShipment
<1>3. CASE SaveStage(r)
  <2>1. q.op # "create" /\ q.step = "save"
    BY <1>1, <1>3 DEF SaveStage, SlotFit
  <2>2. AfterSave(q.op) \notin {"insert", "save"}
    BY DEF AfterSave
  <2>3. Launch(r, {}, AfterSave(q.op))
    BY <1>3 DEF SaveStage
  <2> QED BY <2>1, <2>2, <2>3, MovesLaunch
<1>4. ASSUME NEW s \in q.batch, SaveAssigned(r, s)
      PROVE  Moves(r)
  <2> DEFINE slot == [q EXCEPT !.batch = @ \ {s}]
  <2>1. /\ SameCall(slot, r) /\ slot.batch \subseteq q.batch /\ slot.step = q.step
        /\ slot.jobs = q.jobs
    BY <1>1 DEF RequestState, SameCall
  <2>2. Finish(r) \/ req' = [req EXCEPT ![r] = slot]
    BY <1>4 DEF SaveAssigned
  <2>3. q.step = "assign"
    BY <1>4 DEF SaveAssigned
  <2> HIDE DEF slot
  <2> QED BY <2>1, <2>2, <2>3, MovesSlot, MovesFinish, FoundedKept
<1>5. CASE GetCurrentConfig(r) /\ Active = {}
  BY <1>5, MovesGoto DEF GetCurrentConfig
<1>6. CASE GetCurrentConfig(r) /\ Active # {}
  <2>1. Max(Active) \in Versions
    BY <1>6, LatestVersion DEF Active
  <2> QED BY <1>6, <2>1, WithConfigMoves DEF GetCurrentConfig
<1>7. CASE CreateDefaultConfig(r)
  BY <1>7, WithConfigMoves, MovesFinish, VersionFacts DEF CreateDefaultConfig
<1>8. CASE DeactivateVersions(r)
  <2>1. q.op # "create" /\ Goto(r, "activate")
    BY <1>1, <1>8 DEF DeactivateVersions, SlotFit
  <2> QED BY <2>1, MovesGoto
<1>9. CASE InsertVersion(r)
  BY <1>9, MovesFinish DEF InsertVersion
<1> QED BY <1>2, <1>3, <1>4, <1>5, <1>6, <1>7, <1>8, <1>9, SettlingMoves, JobMoves DEF Continue

\* No step takes a ticket away, and but for its own credit none changes what is
\* entered as a share.
Lasts(s) == shipment'[s].status # "ABSENT"

ExistsKept == \A s \in Shipments : Exists(s) => Lasts(s)

TxKept(s) ==
    \A role \in Roles :
        /\ tx'[s][role].status = "ABSENT" <=> tx[s][role].status = "ABSENT"
        /\ tx'[s][role].amount = tx[s][role].amount

LEMMA ShareFitKept ==
    ASSUME TypeInv, TypeInv', ExistsKept, NEW r \in Requests, ShareFit(req[r]),
           req[r].s \in Shipments => TxKept(req[r].s),
           \/ Moves(r) /\ (req[r].step = "insert" => Lasts(req[r].s))
           \/ /\ req'[r] = req[r]
              /\ req[r].step = "insert" /\ ~Exists(req[r].s) => ~Lasts(req[r].s)
    PROVE  ShareFit(req[r])'
<1> DEFINE q == req[r]
           p == req'[r]
<1>1. SlotFit(q) /\ SlotFit(p) /\ q \in RequestState /\ p \in RequestState
  BY DEF TypeInv, TypeOK
<1>2. CASE p = Idle
  <2>1. None \notin Shipments
    BY LedgerAssumption
  <2> QED BY <1>2, <2>1 DEF ShareFit, Idle
<1>3. CASE p = q
  <2>1. q.s \in Shipments \/ (q.op # "create" /\ q.jobs = {})
    BY <1>1 DEF SlotFit, TicketSteps
  <2>2. q.s \in Shipments /\ Untouched(q.s) =>
            \A role \in Roles : tx'[q.s][role].status = "ABSENT"
    BY DEF TxKept, Untouched
  <2>3. \A split : q.s \in Shipments /\ FromSplit(q, split) =>
            /\ \A j \in q.jobs : j.amount = split[j.role]
            /\ \A role \in Roles :
                 tx'[q.s][role].status # "ABSENT" => tx'[q.s][role].amount = split[role]
    BY DEF TxKept, FromSplit
  <2>4. \A j \in q.jobs : j.role \in Roles
    BY <1>1 DEF RequestState, Jobs
  <2>5. q.op = "create" /\ q.step = "insert" => ~Lasts(q.s)
    <3>1. Idle.op # "create"
      BY DEF Idle
    <3> QED BY <1>3, <3>1 DEF ShareFit, Moves
  <2>6. q.s \in Shipments /\ q.step # "insert" => Lasts(q.s)
    BY DEF ShareFit, ExistsKept
  <2>7. \A s \in q.batch : Lasts(s)
    BY <1>1 DEF ShareFit, ExistsKept, RequestState
  <2>8. q.op = "create" /\ q.step # "jobs" => (\A role \in Roles : tx'[q.s][role].status = "ABSENT")
    BY <2>1, <2>2 DEF ShareFit
  <2>9. q.op = "create" /\ q.step = "jobs" =>
            \E split \in Shares(CalculatePrice(Parcel[q.s])) :
                /\ \A j \in q.jobs : j.amount = split[j.role]
                /\ \A role \in Roles :
                     tx'[q.s][role].status # "ABSENT" => tx'[q.s][role].amount = split[role]
    BY <2>1, <2>3 DEF ShareFit
  <2>10. \A j \in q.jobs : j.kind \in {"post", "void"} => tx'[q.s][j.role].status # "ABSENT"
    BY <2>1, <2>4 DEF ShareFit, TxKept
  <2> QED BY <1>3, <2>5, <2>6, <2>7, <2>8, <2>9, <2>10 DEF ShareFit, FromSplit, Shares, Untouched, Exists, Lasts
<1>4. CASE p # Idle /\ p # q
  <2>1. /\ Moves(r)
        /\ p.op = q.op /\ p.s = q.s /\ p.batch \subseteq q.batch /\ p.step # "insert"
        /\ q.op = "create" => (p.step = "jobs" <=> q.step = "jobs")
        /\ \A j \in p.jobs : Founded(j, q)
        /\ q.step = "insert" => Lasts(q.s)
    BY <1>4 DEF Moves, SameCall
  <2>2. q.s \in Shipments \/ (q.op # "create" /\ p.jobs = {})
    BY <1>1, <2>1 DEF SlotFit, TicketSteps
  <2>3. \A j \in p.jobs : j.role \in Roles
    BY <1>1 DEF RequestState, Jobs
  <2>4. q.s \in Shipments /\ p.step # "insert" => Lasts(q.s)
    BY <2>1 DEF ShareFit, ExistsKept
  <2>5. \A s \in p.batch : Lasts(s)
    BY <1>1, <2>1 DEF ShareFit, ExistsKept, RequestState
  <2>6. q.op = "create" /\ p.step # "jobs" => (\A role \in Roles : tx'[q.s][role].status = "ABSENT")
    BY <2>1, <2>2 DEF ShareFit, TxKept, Untouched
  <2>7. q.op = "create" /\ p.step = "jobs" =>
            \E split \in Shares(CalculatePrice(Parcel[q.s])) :
                /\ \A j \in p.jobs : j.amount = split[j.role]
                /\ \A role \in Roles :
                     tx'[q.s][role].status # "ABSENT" => tx'[q.s][role].amount = split[role]
    <3> SUFFICES ASSUME q.op = "create", p.step = "jobs"
                 PROVE  \E split \in Shares(CalculatePrice(Parcel[q.s])) :
                            /\ \A j \in p.jobs : j.amount = split[j.role]
                            /\ \A role \in Roles :
                                 tx'[q.s][role].status # "ABSENT" => tx'[q.s][role].amount = split[role]
      OBVIOUS
    <3>1. PICK split \in Shares(CalculatePrice(Parcel[q.s])) : FromSplit(q, split)
      BY <2>1 DEF ShareFit
    <3>2. \A j \in p.jobs : j.amount = split[j.role]
      BY <2>1, <3>1 DEF Founded, FromSplit
    <3>3. \A role \in Roles :
              tx'[q.s][role].status # "ABSENT" => tx'[q.s][role].amount = split[role]
      BY <2>2, <3>1 DEF FromSplit, TxKept
    <3> QED BY <3>2, <3>3
  <2>8. \A j \in p.jobs : j.kind \in {"post", "void"} => tx'[q.s][j.role].status # "ABSENT"
    <3>1. \A j \in p.jobs : j.kind \in {"post", "void"} => tx[q.s][j.role].status # "ABSENT"
      BY <2>1 DEF Founded, ShareFit
    <3> QED BY <2>2, <2>3, <3>1 DEF TxKept
  <2> QED BY <2>1, <2>4, <2>5, <2>6, <2>7, <2>8 DEF ShareFit, FromSplit, Shares, Untouched, Exists, Lasts
<1> QED BY <1>2, <1>3, <1>4

\* A handler starts from a ticket that is there, or from none.
LEMMA CallExists ==
    ASSUME TypeInv, NEW r \in Requests, Begin(r)
    PROVE  /\ req'[r].op = "create" => req'[r].step = "insert"
           /\ req'[r].op # "create" /\ req'[r].s \in Shipments => Exists(req'[r].s)
           /\ \A s \in req'[r].batch : Exists(s)
<1>1. req \in [Requests -> RequestState] /\ None \notin Shipments
  BY LedgerAssumption DEF TypeInv, TypeOK
<1> USE <1>1 DEF Start, Idle
<1>2. CASE CreateNewVersion(r)
  BY <1>2 DEF CreateNewVersion
<1>3. ASSUME NEW batch \in SUBSET Shipments, BeginAssign(r, batch)
      PROVE  /\ req'[r].op = "assign" /\ req'[r].s \notin Shipments
             /\ \A s \in req'[r].batch : Exists(s)
  BY <1>3 DEF BeginAssign, Exists
<1>4. ASSUME NEW s \in Shipments, BeginCreate(r, s)
      PROVE  req'[r].op = "create" /\ req'[r].step = "insert" /\ req'[r].batch = {}
  BY <1>4 DEF BeginCreate
<1>5. ASSUME NEW s \in Shipments, NEW op \in {"stage", "complete", "cancel"}, NEW guard, NEW status,
             BeginStage(r, s, op, guard, status)
      PROVE  req'[r].op = op /\ req'[r].s = s /\ req'[r].batch = {}
  BY <1>5 DEF BeginStage
<1>6. ASSUME NEW s \in Shipments,
             \/ ReceiveAtSenderWarehouse(r, s) \/ CollectAssignedShipmentForDriver(r, s)
             \/ DispatchShipment(r, s) \/ DispatchAssignedShipmentForDriver(r, s)
             \/ ReceiveAtDestinationWarehouse(r, s) \/ ArriveAssignedShipmentForDriver(r, s)
             \/ MarkReadyForPickup(r, s) \/ CompleteShipment(r, s) \/ CancelShipment(r, s)
      PROVE  req'[r].op # "create" /\ req'[r].s = s /\ req'[r].batch = {} /\ Exists(s)
  <2>1. req'[r].op # "create" /\ req'[r].s = s /\ req'[r].batch = {}
    BY <1>5, <1>6
       DEF ReceiveAtSenderWarehouse, CollectAssignedShipmentForDriver, DispatchShipment,
           DispatchAssignedShipmentForDriver, ReceiveAtDestinationWarehouse,
           ArriveAssignedShipmentForDriver, MarkReadyForPickup, CompleteShipment, CancelShipment
  <2>2. Exists(s)
    BY <1>6
       DEF ReceiveAtSenderWarehouse, CollectAssignedShipmentForDriver, DispatchShipment,
           DispatchAssignedShipmentForDriver, ReceiveAtDestinationWarehouse,
           ArriveAssignedShipmentForDriver, MarkReadyForPickup, CompleteShipment, CancelShipment,
           BeginStage, Collectable, Exists
  <2> QED BY <2>1, <2>2
<1> QED BY <1>2, <1>3, <1>4, <1>6 DEF Begin

LEMMA EnteredShare ==
    ASSUME NEW t \in TxDoc, NEW kind \in {"pend", "credit", "post", "void", "debit"},
           NEW amount \in Int
    PROVE  LET u == Entered(t, kind, amount)
           IN  /\ kind = "pend" => u.status = "PENDING" /\ u.amount = amount
               /\ kind # "pend" => u.amount = t.amount
               /\ kind \in {"credit", "debit"} => u.status = t.status
               /\ kind \in {"post", "void"} => u.status # "ABSENT"
BY DEF Entered, TxDoc

\* What the end of a wallet update does to the shares.
LEMMA EnterTx ==
    ASSUME TypeInv, ShareInv, NEW r \in Requests, NEW j \in req[r].jobs, EnterTransaction(r, j)
    PROVE  /\ UNCHANGED shipment
           /\ req[r].s \in Shipments /\ j.role \in Roles /\ req[r].step = "jobs"
           /\ j.kind # "pend" => \A s \in Shipments : TxKept(s)
           /\ \A s \in Shipments, role \in Roles :
                s # req[r].s \/ role # j.role => tx'[s][role] = tx[s][role]
           /\ j.kind = "pend" => /\ req[r].op = "create"
                                 /\ tx'[req[r].s][j.role].status = "PENDING"
                                 /\ tx'[req[r].s][j.role].amount = j.amount
<1> DEFINE q == req[r]
           t == tx[q.s][j.role]
           u == Entered(t, j.kind, j.amount)
<1>1. /\ q \in RequestState /\ SlotFit(q) /\ ShareFit(q) /\ q.step = "jobs" /\ j \in q.jobs
      /\ tx \in [Shipments -> [Roles -> TxDoc]]
  BY DEF TypeInv, TypeOK, ShareInv, EnterTransaction, Running
<1>2. q.s \in Shipments /\ j \in Jobs /\ j.role \in Roles /\ t \in TxDoc
  BY <1>1 DEF SlotFit, TicketSteps, RequestState, Jobs
<1>3. tx' = [tx EXCEPT ![q.s][j.role] = u] /\ UNCHANGED shipment
  BY DEF EnterTransaction
<1>4. /\ j.kind = "pend" => u.status = "PENDING" /\ u.amount = j.amount
      /\ j.kind # "pend" => u.amount = t.amount
      /\ j.kind \in {"credit", "debit"} => u.status = t.status
      /\ j.kind \in {"post", "void"} => u.status # "ABSENT"
  BY <1>2, EnteredShare DEF Jobs
<1>5. j.kind \in {"post", "void"} => t.status # "ABSENT"
  BY <1>1 DEF ShareFit
<1>6. j.kind = "pend" => q.op = "create"
  BY <1>1 DEF SlotFit
<1> HIDE DEF u
<1>7. \A s \in Shipments, role \in Roles :
          tx'[s][role] = (IF s = q.s /\ role = j.role THEN u ELSE tx[s][role])
  BY <1>1, <1>2, <1>3
<1>8. j.kind # "pend" => \A s \in Shipments : TxKept(s)
  BY <1>2, <1>4, <1>5, <1>7 DEF TxKept, Jobs
<1> QED BY <1>1, <1>2, <1>3, <1>4, <1>6, <1>7, <1>8

\* Steps that keep every share and every ticket.
LEMMA ShareStutter ==
    ASSUME TypeInv, TypeInv', ShareInv, ExistsKept,
           \A s \in Shipments : TxKept(s),
           \A r \in Requests :
               \/ Moves(r) /\ (req[r].step = "insert" => Lasts(req[r].s))
               \/ req'[r] = req[r] /\ (req[r].step = "insert" /\ ~Exists(req[r].s) => ~Lasts(req[r].s))
    PROVE  ShareInv'
<1>1. ASSUME NEW r \in Requests
      PROVE  ShareFit(req[r])'
  BY <1>1, ShareFitKept DEF ShareInv
<1>2. \A s \in Shipments : ~Exists(s)' => Untouched(s)'
  BY DEF ExistsKept, Exists, Lasts, ShareInv, Untouched, TxKept
<1>3. SharesAddUp'
  <2>1. {"SENDER", "RECEIVER", "COMPANY"} = Roles
    BY DEF Roles
  <2> QED BY <2>1 DEF ShareInv, SharesAddUp, TxKept
<1>4. CreatedOnce'
  <2>1. Idle.op # "create"
    BY DEF Idle
  <2>2. \A r \in Requests : req'[r].op = "create" => req[r].op = "create" /\ req'[r].s = req[r].s
    BY <2>1 DEF Moves, SameCall
  <2> QED BY <2>2 DEF ShareInv, CreatedOnce
<1> QED BY <1>1, <1>2, <1>3, <1>4 DEF ShareInv

LEMMA ShareBegin ==
    ASSUME TypeInv, TypeInv', ShareInv, NEW r \in Requests, Begin(r)
    PROVE  ShareInv'
<1>1. UNCHANGED <<shipment, tx>> /\ \A q \in Requests \ {r} : req'[q] = req[q]
  BY BeginFrame
<1>2. SlotFit(req'[r]) /\ req'[r].jobs = {}
  BY BeginFrame DEF TypeInv
<1>3. req'[r].op = "create" => \E s \in Shipments : req'[r].s = s /\ BeginCreate(r, s)
  BY BeginFrame
<1>4. req'[r].op = "create" =>
          /\ req'[r].s \in Shipments /\ ~Exists(req'[r].s)
          /\ \A q \in Requests : req[q].op # "create" \/ req[q].s # req'[r].s
  BY <1>3 DEF BeginCreate
<1>5. CreatedOnce'
  BY <1>1, <1>4 DEF ShareInv, CreatedOnce
<1>6. ShareFit(req[r])'
  <2>1. req'[r].op = "create" => Untouched(req'[r].s) /\ req'[r].step = "insert"
    BY <1>4, CallExists DEF ShareInv
  <2>2. req'[r].op # "create" => req'[r].step # "insert"
    <3>1. req'[r].op = "create" \/ req'[r].step # "insert"
      BY <1>2 DEF SlotFit, TypeInv, TypeOK, RequestState
    <3> QED BY <3>1
  <2> QED BY <1>1, <1>2, <1>4, <2>1, <2>2, CallExists DEF ShareFit, Exists, Untouched
<1>7. \A q \in Requests \ {r} : ShareFit(req[q])'
  BY <1>1 DEF ShareInv, ShareFit, FromSplit, Exists, Untouched
<1> QED BY <1>1, <1>5, <1>6, <1>7 DEF ShareInv, Exists, Untouched, SharesAddUp

\* A share is entered: what is there now comes from the same split.
LEMMA SharePend ==
    ASSUME TypeInv, TypeInv', ShareInv, NEW r \in Requests, NEW j \in req[r].jobs,
           EnterTransaction(r, j), j.kind = "pend"
    PROVE  ShareInv'
<1> DEFINE q == req[r]
<1>1. /\ UNCHANGED shipment
      /\ q.s \in Shipments /\ j.role \in Roles /\ q.step = "jobs" /\ q.op = "create"
      /\ \A s \in Shipments, role \in Roles :
           s # q.s \/ role # j.role => tx'[s][role] = tx[s][role]
      /\ tx'[q.s][j.role].status = "PENDING" /\ tx'[q.s][j.role].amount = j.amount
  BY EnterTx
<1>2. Moves(r)
  BY JobMoves
<1>3. Continue(r)
  BY DEF Continue
<1>4. \A p \in Requests \ {r} : req'[p] = req[p]
  BY <1>3, ContinueFrame DEF Keeps
<1>5. /\ SlotFit(req[r]) /\ SlotFit(req'[r]) /\ req'[r] \in RequestState
      /\ \A p \in Requests : SlotFit(req[p]) /\ req[p] \in RequestState
  BY DEF TypeInv, TypeOK
<1>6. Exists(q.s)
  BY <1>1 DEF ShareInv, ShareFit
<1>7. PICK split \in Shares(CalculatePrice(Parcel[q.s])) : FromSplit(q, split)
  BY <1>1 DEF ShareInv, ShareFit
<1>8. \A role \in Roles : tx'[q.s][role].status # "ABSENT" => tx'[q.s][role].amount = split[role]
  BY <1>1, <1>7 DEF FromSplit
<1>9. CreatedOnce'
  <2>1. Idle.op # "create"
    BY DEF Idle
  <2>2. \A p \in Requests : req'[p].op = "create" => req[p].op = "create" /\ req'[p].s = req[p].s
    BY <1>2, <1>4, <2>1 DEF Moves, SameCall
  <2> QED BY <2>2 DEF ShareInv, CreatedOnce
<1>10. \A s \in Shipments : ~Exists(s)' => Untouched(s)'
  BY <1>1, <1>6 DEF ShareInv, Exists, Untouched
<1>11. SharesAddUp'
  <2>1. {"SENDER", "RECEIVER", "COMPANY"} = Roles
    BY DEF Roles
  <2>2. (\A role \in Roles : tx'[q.s][role].status # "ABSENT") =>
            Rounds(CalculatePrice(Parcel[q.s]), Cent,
                   tx'[q.s]["SENDER"].amount + tx'[q.s]["RECEIVER"].amount
                       + tx'[q.s]["COMPANY"].amount)
    BY <1>7, <1>8, <2>1 DEF Shares
  <2> QED BY <1>1, <2>1, <2>2 DEF ShareInv, SharesAddUp
<1>12. ShareFit(req[r])'
  <2>1. CASE req'[r] = Idle
    <3>1. None \notin Shipments
      BY LedgerAssumption
    <3> QED BY <2>1, <3>1 DEF ShareFit, Idle
  <2>2. CASE req'[r] # Idle
    <3>1. /\ req'[r].op = "create" /\ req'[r].s = q.s /\ req'[r].batch \subseteq q.batch
          /\ req'[r].step = "jobs"
          /\ \A k \in req'[r].jobs : Founded(k, q)
      BY <1>1, <1>2, <2>2 DEF Moves, SameCall
    <3>2. \A k \in req'[r].jobs : k.amount = split[k.role] /\ k.kind \notin {"post", "void"}
      BY <1>1, <1>5, <1>7, <3>1 DEF Founded, FromSplit, SlotFit
    <3>3. \A s \in req'[r].batch : Exists(s)
      BY <3>1 DEF ShareInv, ShareFit
    <3>4. FromSplit(req[r], split)'
      BY <1>8, <3>1, <3>2 DEF FromSplit
    <3> QED BY <1>1, <1>6, <1>7, <3>1, <3>2, <3>3, <3>4 DEF ShareFit, Exists, Shares
  <2> QED BY <2>1, <2>2
<1>13. ASSUME NEW p \in Requests \ {r}
       PROVE  ShareFit(req[p])'
  <2>1. req'[p] = req[p] /\ ShareFit(req[p]) /\ SlotFit(req[p]) /\ req[p] \in RequestState
    BY <1>4, <1>5 DEF ShareInv
  <2>2. CASE req[p].s # q.s
    <3>1. req[p].s \in Shipments => \A role \in Roles : tx'[req[p].s][role] = tx[req[p].s][role]
      BY <1>1, <2>2
    <3>2. req[p].s \in Shipments => TxKept(req[p].s)
      BY <3>1 DEF TxKept
    <3>3. ExistsKept
      BY <1>1 DEF ExistsKept, Exists, Lasts
    <3> QED BY <1>1, <2>1, <3>2, <3>3, ShareFitKept DEF Exists, Lasts
  <2>3. CASE req[p].s = q.s
    <3>1. req[p].op # "create"
      BY <1>1, <2>3 DEF ShareInv, CreatedOnce
    <3>2. \A k \in req[p].jobs : k.role \in Roles
      BY <2>1 DEF RequestState, Jobs
    <3>3. \A k \in req[p].jobs : k.kind \in {"post", "void"} => tx'[req[p].s][k.role].status # "ABSENT"
      BY <1>1, <2>1, <2>3, <3>2 DEF ShareFit
    <3> QED BY <1>1, <2>1, <3>1, <3>3 DEF ShareFit, Exists
  <2> QED BY <2>2, <2>3
<1> QED BY <1>9, <1>10, <1>11, <1>12, <1>13 DEF ShareInv

\* The handler of a ticket's creation computes its shares.
LEMMA ShareSplitNext ==
    ASSUME TypeInv, TypeInv', ShareInv, NEW r \in Requests, Continue(r), SharesSplit(r)
    PROVE  ShareInv'
<1> DEFINE q == req[r]
<1>1. /\ req \in [Requests -> RequestState] /\ q \in RequestState /\ SlotFit(q) /\ ShareFit(q)
      /\ q.op = "create" /\ q.step \in {"share", "default"}
  BY DEF TypeInv, TypeOK, ShareInv, SharesSplit
<1>2. q.s \in Shipments /\ Exists(q.s) /\ Untouched(q.s) /\ \A s \in q.batch : Exists(s)
  BY <1>1 DEF SlotFit, ShareFit
<1>3. UNCHANGED shipment
  BY <1>1, AwayFromTicket DEF InsertShipment, SaveStage, SaveAssigned
<1>4. UNCHANGED tx
  BY <1>1, AwayFromTx DEF EnterTransaction, Running
<1>5. \A p \in Requests \ {r} : req'[p] = req[p]
  BY ContinueFrame DEF Keeps
<1>6. PICK split \in Shares(CalculatePrice(Parcel[q.s])) :
          req' = [req EXCEPT ![r].step = "jobs", ![r].then = "idle",
                             ![r].jobs = {NewJob(role, 0, "pend", split[role]) : role \in Roles}]
  <2>1. PICK v \in Versions : \E split \in Splits(CalculatePrice(Parcel[q.s]), Percent[v]) :
            req' = [req EXCEPT ![r].step = "jobs", ![r].then = "idle",
                               ![r].jobs = {NewJob(role, 0, "pend", split[role]) : role \in Roles}]
    BY DEF SharesSplit
  <2>2. Splits(CalculatePrice(Parcel[q.s]), Percent[v]) \subseteq Shares(CalculatePrice(Parcel[q.s]))
    BY <1>2, PriceType, SplitSum DEF Shares
  <2> QED BY <2>1, <2>2
<1>7. /\ req'[r].op = "create" /\ req'[r].s = q.s /\ req'[r].batch = q.batch
      /\ req'[r].step = "jobs"
      /\ req'[r].jobs = {NewJob(role, 0, "pend", split[role]) : role \in Roles}
  BY <1>1, <1>6 DEF RequestState
<1>8. \A j \in req'[r].jobs : j.amount = split[j.role] /\ j.kind = "pend"
  BY <1>7 DEF NewJob
<1>9. FromSplit(req[r], split)'
  BY <1>2, <1>4, <1>7, <1>8 DEF FromSplit, Untouched
<1>10. ShareFit(req[r])'
  BY <1>2, <1>3, <1>6, <1>7, <1>8, <1>9 DEF ShareFit, Exists, Shares
<1>11. ASSUME NEW p \in Requests \ {r}
       PROVE  ShareFit(req[p])'
  BY <1>3, <1>4, <1>5 DEF ShareInv, ShareFit, FromSplit, Exists, Untouched
<1>12. CreatedOnce'
  BY <1>1, <1>5, <1>7 DEF ShareInv, CreatedOnce
<1> QED BY <1>3, <1>4, <1>10, <1>11, <1>12 DEF ShareInv, Exists, Untouched, SharesAddUp

\* Which tickets are there after a step of a handler.
LEMMA ExistsStep ==
    ASSUME TypeInv, TypeInv', ShareInv, NEW r \in Requests, Continue(r)
    PROVE  /\ ExistsKept
           /\ req[r].step = "insert" => Lasts(req[r].s)
           /\ \A s \in Shipments : Lasts(s) /\ ~Exists(s) =>
                req[r].op = "create" /\ req[r].step = "insert" /\ s = req[r].s
<1> DEFINE q == req[r]
<1>1. /\ q \in RequestState /\ SlotFit(q) /\ ShareFit(q)
      /\ shipment \in [Shipments -> ShipmentDoc]
  BY DEF TypeInv, TypeOK, ShareInv
<1>2. CASE InsertShipment(r)
  <2>1. /\ q.step = "insert" /\ q.s \in Shipments /\ q.op = "create"
        /\ shipment' = [shipment EXCEPT ![q.s].status = "CREATED"]
    BY <1>1, <1>2 DEF InsertShipment, SlotFit, TicketSteps, RequestState
  <2>2. /\ shipment'[q.s].status = "CREATED"
        /\ \A t \in Shipments \ {q.s} : shipment'[t] = shipment[t]
    BY <1>1, <2>1 DEF ShipmentDoc
  <2> QED BY <2>1, <2>2 DEF ExistsKept, Exists, Lasts
<1>3. CASE SaveStage(r)
  <2> DEFINE status == Written(shipment[q.s].status, q.seen.status, q.status)
  <2>1. q.step = "save" /\ q.s \in Shipments
    BY <1>1, <1>3 DEF SaveStage, SlotFit, TicketSteps
  <2>2. Exists(q.s) /\ q.status # "ABSENT"
    BY <1>1, <2>1 DEF ShareFit, SlotFit, RequestState
  <2>3. status # "ABSENT"
    BY <2>2 DEF Written, Exists
  <2>4. shipment' = [shipment EXCEPT ![q.s].status = status,
                                     ![q.s].stamps = @ \cup Stamp(q.status)]
    BY <1>3 DEF SaveStage
  <2> HIDE DEF status
  <2>5. /\ shipment'[q.s].status = status
        /\ \A t \in Shipments \ {q.s} : shipment'[t] = shipment[t]
    BY <1>1, <2>1, <2>4 DEF ShipmentDoc
  <2> QED BY <2>1, <2>2, <2>3, <2>5 DEF ExistsKept, Exists, Lasts
<1>4. ASSUME NEW s \in q.batch, SaveAssigned(r, s)
      PROVE  /\ ExistsKept
             /\ q.step = "insert" => Lasts(q.s)
             /\ \A t \in Shipments : Lasts(t) /\ ~Exists(t) =>
                  q.op = "create" /\ q.step = "insert" /\ t = q.s
  <2>1. s \in Shipments /\ Exists(s) /\ q.step = "assign"
    BY <1>1, <1>4 DEF RequestState, ShareFit, SaveAssigned
  <2>2. shipment' = [shipment EXCEPT ![s].status = "ASSIGNED", ![s].assigned = TRUE]
    BY <1>4 DEF SaveAssigned
  <2>3. /\ shipment'[s].status = "ASSIGNED"
        /\ \A t \in Shipments \ {s} : shipment'[t] = shipment[t]
    BY <1>1, <2>1, <2>2 DEF ShipmentDoc
  <2> QED BY <2>1, <2>3 DEF ExistsKept, Exists, Lasts
<1>5. CASE ~InsertShipment(r) /\ ~SaveStage(r) /\ \A s \in q.batch : ~SaveAssigned(r, s)
  <2>1. UNCHANGED shipment
    BY <1>5, AwayFromTicket
  <2>2. q.step = "insert" => InsertShipment(r)
    BY DEF Continue, SaveAssigned, GetCurrentConfig, CreateDefaultConfig, DeactivateVersions,
           InsertVersion, FindPosted, FindPending, FindVoid, FindReversed, LoadWallet, OpenWallet,
           SaveWallet, EnterTransaction, Running, SaveStage
  <2> QED BY <1>5, <2>1, <2>2 DEF ExistsKept, Exists, Lasts
<1> QED BY <1>2, <1>3, <1>4, <1>5

LEMMA ShareContinue ==
    ASSUME TypeInv, TypeInv', ShareInv, NEW r \in Requests, Continue(r)
    PROVE  ShareInv'
<1>1. CASE SharesSplit(r)
  BY <1>1, ShareSplitNext
<1>2. ASSUME NEW j \in req[r].jobs, EnterTransaction(r, j), j.kind = "pend"
      PROVE  ShareInv'
  BY <1>2, SharePend
<1>3. CASE Moves(r) /\ \A j \in req[r].jobs : EnterTransaction(r, j) => j.kind # "pend"
  <2>1. \A s \in Shipments : TxKept(s)
    <3>1. CASE \E j \in req[r].jobs : EnterTransaction(r, j)
      BY <1>3, <3>1, EnterTx
    <3>2. CASE \A j \in req[r].jobs : ~EnterTransaction(r, j)
      BY <3>2, AwayFromTx DEF TxKept
    <3> QED BY <3>1, <3>2
  <2>2. ASSUME NEW p \in Requests \ {r}
        PROVE  /\ req'[p] = req[p]
               /\ req[p].step = "insert" /\ ~Exists(req[p].s) => ~Lasts(req[p].s)
    <3>1. req'[p] = req[p]
      BY ContinueFrame DEF Keeps
    <3>2. req[p].step = "insert" => req[p].op = "create" /\ req[p].s \in Shipments
      BY DEF TypeInv, TypeOK, RequestState, SlotFit, TicketSteps
    <3>3. req[p].op = "create" /\ req[r].op = "create" => req[p].s # req[r].s
      BY DEF ShareInv, CreatedOnce
    <3> QED BY <3>1, <3>2, <3>3, ExistsStep
  <2> QED BY <1>3, <2>1, <2>2, ExistsStep, ShareStutter
<1> QED BY <1>1, <1>2, <1>3, ContinueMoves

LEMMA ShareNext == TypeInv /\ TypeInv' /\ ShareInv /\ [Next]_vars => ShareInv'
<1> SUFFICES ASSUME TypeInv, TypeInv', ShareInv, [Next]_vars
             PROVE  ShareInv'
  OBVIOUS
<1>1. ASSUME UNCHANGED <<shipment, tx>>, \A r \in Requests : req'[r] = req[r] \/ req'[r] = Idle
      PROVE  ShareInv'
  <2>1. ExistsKept /\ \A s \in Shipments : TxKept(s) /\ (Lasts(s) <=> Exists(s))
    BY <1>1 DEF ExistsKept, TxKept, Exists, Lasts
  <2>2. \A r \in Requests : ShareFit(req[r])'
    <3>1. None \notin Shipments
      BY LedgerAssumption
    <3>2. ShareFit(Idle)'
      BY <3>1 DEF ShareFit, Idle
    <3> QED BY <1>1, <3>2 DEF ShareInv, ShareFit, FromSplit, Exists, Untouched
  <2>3. CreatedOnce'
    <3>1. Idle.op # "create"
      BY DEF Idle
    <3> QED BY <1>1, <3>1 DEF ShareInv, CreatedOnce
  <2> QED BY <1>1, <2>2, <2>3 DEF ShareInv, Exists, Untouched, SharesAddUp
<1>2. CASE UNCHANGED vars
  BY <1>1, <1>2 DEF vars
<1>3. CASE Crash
  BY <1>1, <1>3 DEF Crash
<1>4. ASSUME NEW s \in Shipments, NEW kind \in Sweeps, ReceiptSweep(s, kind)
      PROVE  ShareInv'
  <2>1. Exists(s) /\ UNCHANGED <<tx, req>> /\ SweepStatus(kind) # "ABSENT"
    BY <1>4, LedgerAssumption DEF ReceiptSweep, SweepStatus
  <2>2. /\ shipment'[s].status = SweepStatus(kind)
        /\ \A t \in Shipments \ {s} : shipment'[t] = shipment[t]
    <3>1. shipment \in [Shipments -> ShipmentDoc]
      BY DEF TypeInv, TypeOK
    <3>2. shipment' = [shipment EXCEPT ![s].status = SweepStatus(kind),
                                       ![s].assigned = kind # "unlink" /\ (@ \/ kind = "link"),
                                       ![s].stamps = @ \cup Stamp(SweepStatus(kind))]
      BY <1>4 DEF ReceiptSweep
    <3> QED BY <3>1, <3>2 DEF ShipmentDoc
  <2>3. \A t \in Shipments : Lasts(t) <=> Exists(t)
    BY <2>1, <2>2 DEF Exists, Lasts
  <2>4. \A r \in Requests : req[r].step = "insert" => req[r].s \in Shipments
    BY DEF TypeInv, SlotFit, TicketSteps
  <2>5. ExistsKept /\ \A t \in Shipments : TxKept(t)
    BY <2>1, <2>3 DEF ExistsKept, TxKept
  <2> QED BY <2>1, <2>3, <2>4, <2>5, ShareStutter
<1> QED BY <1>2, <1>3, <1>4, ShareBegin, ShareContinue DEF Next

LEMMA ShareInit == Init => ShareInv
<1> SUFFICES ASSUME Init
             PROVE  ShareInv
  OBVIOUS
<1>1. None \notin Shipments
  BY LedgerAssumption
<1>2. \A r \in Requests : ShareFit(req[r])
  BY <1>1 DEF Init, ShareFit, Idle
<1>3. \A s \in Shipments : Untouched(s)
  BY DEF Init, Untouched, NoTx
<1>4. CreatedOnce
  BY DEF Init, CreatedOnce, Idle
<1>5. "SENDER" \in Roles
  BY DEF Roles
<1> QED BY <1>2, <1>3, <1>4, <1>5 DEF ShareInv, SharesAddUp, Untouched

\* The three shares made for a ticket, each rounded by itself, add up to its
\* price rounded once to a nearest cent, whatever the price and its fractions of
\* a cent, the configuration in force and the handlers that settle them meanwhile.
THEOREM SharesMakeThePrice == Spec => []SharesAddUp
<1>1. ShareInv => SharesAddUp
  BY DEF ShareInv
<1> QED BY <1>1, InitType, NextType, ShareInit, ShareNext, PTL DEF Spec

=============================================================================
