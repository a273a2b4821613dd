CONSTANTS
  Nodes = {1,2,3,4,5,6,7,8,9,10}
  ListNodes = {1,2,3}
  BstNodes = {1,2,3,4,5,6}
  Nil = nil
  Null = null
  HeadNode = head
  Keys = {1, 2, 3}
  Structures = {"rbtree", "sll", "dll", "bst"}
SPECIFICATION Week4Spec
VIEW Week4Shape
CHECK_DEADLOCK FALSE
INVARIANTS TypeOK Linked NoLeak SearchOrder ColorConstraint Queries ShortArray
PROPERTIES IsMultiset SllIsDeque DllIsDeque BstIsMultiset
