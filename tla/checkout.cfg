SPECIFICATION Spec
CONSTANTS
    c1 = c1
    c2 = c2
    c3 = c3
    ana = ana
    card = card
    account = account
    Guest = Guest
    NoInstrument = NoInstrument
    Carts = {c1, c2}
    Customers = {ana}
    Owner <- Owners
    Gives = {0, 1, 2}
    UsageLimit = 1
    CustomerLimit = 2
    Kind = "spend"
    BudgetLimit = 2
    Instruments = {account}
    Account <- Accounts
    PaysWith <- Paying
    Wanted = 2
    Due = 2
    Opening <- Issued
    MaxReplays = 1
INVARIANTS
    TypeOK
    GivesBackOnce
    UndoneWhole
    MoneyKept
    UsesCounted
PROPERTY
    IsPool
CHECK_DEADLOCK FALSE
