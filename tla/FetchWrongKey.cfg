SPECIFICATION Spec
CONSTANT Setups <- FetchSetups
INVARIANT ItemsDelivered
CHECK_DEADLOCK FALSE
