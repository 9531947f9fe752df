\* The code's own constants; capacities beyond two full blocks.
CONSTANTS
  MaxCode = 255
  Overhead = 17
  Capacities <- MCCapacities
SPECIFICATION Spec
INVARIANTS LargestFits LargestIsLargest
CHECK_DEADLOCK FALSE
