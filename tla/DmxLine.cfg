SPECIFICATION FairSpec
CONSTANT kPorts = 2
INVARIANTS TypeOK 
PROPERTIES  DriverReturns RdmEnds
