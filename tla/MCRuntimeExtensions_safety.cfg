CONSTANTS
    None = None
    Missing = Missing
    Configs = {"e1", "e2"}
    Targets <- MCTargets
    Offers <- MCOffers
    Catalog <- MCCatalog
    Scenarios <- MCScenarios
SPECIFICATION Spec
INVARIANTS HandlersBelongToTarget RestartReplacesNoMachine
PROPERTIES RegistriesConverge
