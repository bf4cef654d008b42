SPECIFICATION Spec
CONSTANTS
  plain = plain
  fams = fams
  iter1 = iter1
  iter2 = iter2
  batch1 = batch1
  batch2 = batch2
  NoDatabase = NoDatabase
  Databases = {plain, fams}
  WithFamilies = {fams}
  Iterators = {iter1, iter2}
  Batches = {batch1, batch2}
SYMMETRY Interchangeable
INVARIANT DeletedOnce
CHECK_DEADLOCK FALSE
