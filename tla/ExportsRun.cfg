\* Two exports of one project, aborts, lost and late requests, renders that
\* hang, fail or die, and the death of the engine at any step.
SPECIFICATION FairSpec
CONSTANTS
  t1 = t1
  t2 = t2
  NoTask = NoTask
  Tasks <- TwoTasks
  RetryLimit = 1
  MaxStrikes = 2
CHECK_DEADLOCK FALSE
INVARIANTS TypeOK NeverStranded RetainedBounded EndMeansStopped OneRender NoneLeftRunning
PROPERTIES ImplementsContract RendersEnd OrphansDie ExportsAnswered
