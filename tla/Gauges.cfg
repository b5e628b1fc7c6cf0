SPECIFICATION Spec
CONSTANTS
    Kind = {"bind", "cert"}
    MaxFaults = 1
 
 
INVARIANT GaugesTruthful
