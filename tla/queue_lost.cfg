SPECIFICATION Spec
CONSTANTS
    t1 = t1
    t2 = t2
    t3 = t3
    End = End
    NoTask = NoTask
    Tasks <- ThreeTasks
    ByRef <- OneByRef
    SelfClosers <- OneCloses
    SelfCallers = {}
    Overlaps = {TRUE}
PROPERTY EveryTaskRuns
