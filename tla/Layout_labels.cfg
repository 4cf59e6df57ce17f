\* Three instructions, a label anywhere.
SPECIFICATION Spec
CONSTANTS
  Insns = 3
  Sizes = {6, 9}
  Refs = {2}
INVARIANT LabelsResolved
