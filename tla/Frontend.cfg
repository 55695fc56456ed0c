CONSTANTS
  NPcs = 3
  BtbSize = 1
  MaxTaken = 1
  Delays = {0, 2}
SPECIFICATION FairSpec
INVARIANTS
  RequestOutstanding
  AddressIsPc
  PredictsOnlyBranches
PROPERTIES
  
  FetchesOn
