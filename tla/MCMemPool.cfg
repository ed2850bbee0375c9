SPECIFICATION Spec
CONSTANTS
  NBlocks = 5
  BlockSize = 2
  Width = 16
  Sizes = {0, 1, 3, 4, 11}
  Garbage = {0, 6}
INVARIANTS
  ExtentsDisjoint
  BooksBalance
  BigEnough
PROPERTY
  ImplementsHeap
