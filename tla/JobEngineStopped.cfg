SPECIFICATION FairSpec
CONSTANTS
  NoJob = NoJob
  JobId = {j1}
  Version = {1, 2}
  MaxFaults = 2
PROPERTIES StoppedMeansUnchanged
