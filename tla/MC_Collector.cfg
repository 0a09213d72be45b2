CONSTANTS
    m1 = m1  m2 = m2
    a = a  b = b  c = c
    p1 = p1  p2 = p2
    NoTensor = NoTensor
    Models <- MCModels
    Tensors <- MCTensors
    Pods <- MCPods
    ModelTensors <- MCModelTensors
    Matches <- MCMatches
    PodModel <- MCPodModel
    Period = 1
    Jitter = 1
    Grace = 2
    MaxCrashes = 1
    MaxClockSteps = 1
    Skew = 1
SPECIFICATION Spec
INVARIANT ReaderNeverLosesFile
PROPERTY ImplementsReclaimer
