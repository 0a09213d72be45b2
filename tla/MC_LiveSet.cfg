CONSTANTS
    Letters = {"r", "s"}
    ModelLen = 2
    PodLen = 2
    MaxPods = 2
    NumModels = 2
    Nodes = {n1, n2}
    NodeName = n1
    Tensors = {t1, t2}
SPECIFICATION Spec
INVARIANT LiveSetCorrect
