SPECIFICATION FairSpec
CONSTANTS
  Tasks = {t1, t2}
  Finders = {f1, f2}
  MaxLookups = 1
  MaxPhotos = 2
  WhileAsleep = 2
  WhileBusy = 1
  MaxForms = 2
  MaxSent = 2
  MaxDeleted = 1
  NoProfile = NoProfile
INVARIANT BufferHasLeader
INVARIANT FormIsWhole
PROPERTY OneForm
PROPERTY CancelledStaysOut
PROPERTY PhotosAreTaken
