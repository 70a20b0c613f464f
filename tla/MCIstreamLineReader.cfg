CONSTANTS
    i1 = i1
    i2 = i2
    i3 = i3
    Iterators <- MCIterators
    MaxLines = 4
SPECIFICATION Spec
INVARIANTS LinesOnce
PROPERTIES EndMeansExhausted
