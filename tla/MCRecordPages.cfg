SPECIFICATION Spec
CONSTANTS
  Table <- AllKinds
  Way <- SidebarWays
  Calls = {c1}
  MaxShown = 2
INVARIANTS
  TypeOK
  ButtonsAreHonoured
  FilingsAreTaken
  StoredInOrder
  LonePageIsCurrent
  NothingStuck
PROPERTIES
  FinalIsFinal
