SPECIFICATION Spec
CONSTANTS
  Frame <- MCFrame
  Damaged <- MCDamaged
  Foreign <- MCForeign
  Behind <- MCBehind
  Block = {b1, b2}
  SIZE = 12
SYMMETRY Blocks
INVARIANTS AcceptedAsSent LongestIsAccepted DamageIsNoticed
PROPERTIES StatusIsSent BufferSuffices
\* With every block in the queue, an overrun leaves nothing to do.
CHECK_DEADLOCK FALSE
