SPECIFICATION FairSpec
CONSTANTS
  Attacher = {a1, a2}
  Buffer = 1
  MaxFrames = 4
  MaxFailures = 1
  MaxCrashes = 1
PROPERTIES StreamPromise AttachEnds
