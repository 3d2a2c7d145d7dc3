SPECIFICATION Spec
CONSTANTS
    s1 = s1
    b1 = b1
    b2 = b2
    Shipments = {s1}
    Branches = {b1, b2}
    Company = Company
    None = None
    Requests = {r1, r2}
    Sender <- From
    Receiver <- To
    Parcel <- Parcels
    Percent <- Percents
    Opening <- OldWallets
    Operations <- LedgerOperations
    Sweeps <- ReceiptWrites
    Cent = 5
    MaxDisturbances = 1
    MaxVersions = 2
    MaxDebits = 1
INVARIANTS
    TypeOK
    BooksBalance
    SettledWithCause
    SharesAddUp
    OneActiveVersion
    ConfigInForce
PROPERTIES
    CompletedIsPaid
CHECK_DEADLOCK FALSE
