SPECIFICATION Spec
CONSTANTS
 Posts <- MCPosts
 Lines <- MCLines
 MaxBatchMedia = 2
 MaxPlans = 2
INVARIANTS
 OwnTarget
CHECK_DEADLOCK FALSE
