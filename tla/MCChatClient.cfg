\* A page being opened, or open, with a question, stops, lost connections and
\* clicks in the sidebar: up to three of them, opening included.
CONSTANTS
  a = a  b = b  g1 = g1  g2 = g2
  Conv = {a, b}
  Gen = {g1, g2}
  MaxActs = 3
  MaxCalls = 1
  MaxWire = 1
  NoConv = NoConv  NoGen = NoGen
SPECIFICATION Spec
SYMMETRY Symmetry
CHECK_DEADLOCK FALSE
INVARIANTS ListTrue QuietMeansSettled
