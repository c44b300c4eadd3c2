SPECIFICATION Spec
CONSTANTS
  vendor = vendor
  system = system
  dsp = dsp
  odm = odm
  cow = cow
  audio = audio
  boot = boot
  Images <- TheImages
  Physical <- ThePhysical
  Others <- TheOthers
  Cows <- TheCows
  Services <- TheServices
  Bootstrap = boot
  MountOrder <- TheMounts
  Parent <- TheParents
CHECK_DEADLOCK FALSE
INVARIANTS AnswerIsTrue LayoutIsConsistent UsersRestored
PROPERTIES ReleasedIsRemapped NoRollbackAfterWrite ZipRestartIsSafe
