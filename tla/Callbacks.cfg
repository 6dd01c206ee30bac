SPECIFICATION Spec
CONSTANT Setups <- PassingSetups
INVARIANTS BatchesDoNotOutliveTheirMemory ItemsDelivered OutcomeTold
PROPERTY CallReturns
CHECK_DEADLOCK FALSE
