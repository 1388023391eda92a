SPECIFICATION FairSpec
CONSTANTS
    home = home
    d1 = d1
    d2 = d2
    f1 = f1
    f2 = f2
    Nobody = Nobody
    Accounts <- MCAccounts
    Devices <- MCDevices
    Flows <- MCFlows
INVARIANTS
    CreatesNew
    SelectedIsNamed
PROPERTIES
    TokenRenewed
