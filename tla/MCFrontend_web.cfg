CONSTANTS
  Wasm = wasm
  Dat = dat
  Spr = spr
  Pic = pic
  Outfits = outfits
  None = none
  Main = main
  AppFiles = {wasm, outfits}
  DataFiles = {dat, spr, pic}
  Optional = {outfits}
  Changing = {wasm, dat}
  Others = {o}
  MaxChanges = 1
  Scenarios <- SomeScenarios
  Loaders = {l1, l2}
  Listed <- SomeListed
  Needed <- SomeNeeded
SPECIFICATION FairSpec
INVARIANTS
  FrontendInv
  ServesWhatItCameWith
  WorksOffline
  OneVersion
PROPERTIES
  NoneLost
  LoadersEnd
\* In the end nobody loads the page again.
CHECK_DEADLOCK FALSE
