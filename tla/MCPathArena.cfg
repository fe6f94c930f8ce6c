CONSTANTS
  Workers = {w1, w2}
  Arenas = {a1, a2}
  NoArena = NoArena
  Arrays = {b1, b2, b3}
  Nil = Nil
  Segments = {k, i}
  Blank = Blank
  Floor = 1
  MaxDepth = 3
  MaxKept = 2
SPECIFICATION Spec
INVARIANT PathsHold
SYMMETRY Symmetry
VIEW View
