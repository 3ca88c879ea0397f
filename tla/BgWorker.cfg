SPECIFICATION FairSpec
CONSTANT MaxTasks = 12
INVARIANTS SyncSeesOutput RunsOnceInOrder
PROPERTY CallsReturn
