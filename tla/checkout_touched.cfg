SPECIFICATION Spec
CONSTANTS
    c1 = c1
    c2 = c2
    c3 = c3
    ana = ana
    card = card
    account = account
    Guest = Guest
    NoInstrument = NoInstrument
    Carts = {c1, c2, c3}
    Customers = {ana}
    Owner <- Owners
    Gives = {1}
    UsageLimit = 1
    CustomerLimit = 2
    Kind = "usage"
    BudgetLimit = 2
    Instruments = {card, account}
    Account <- Accounts
    PaysWith <- OneCard
    Wanted = 2
    Due = 1
    Opening <- Issued
    MaxReplays = 0
INVARIANTS
    WithinLimit
CHECK_DEADLOCK FALSE
