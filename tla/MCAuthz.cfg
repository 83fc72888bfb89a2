CONSTANTS
    Account = {"root", "ddmlab", "somebody"}
    Root = "root"
    Action = {"add_rule", "del_rule", "add_rse"}
    Entitlement = {"operators", "users"}
    Acr = {"mfa"}
    Target = {"rucio"}
    Rucio = "rucio"
    Version <- MCVersion
SPECIFICATION Spec
INVARIANTS TypeOK DoneMeansVersion TiersOnly
