CONSTANTS
  Events = {line}
  Questions = {q}
  MaxEvents = 3
  MaxDrops = 2
  Asks = {a1, a2}
  Notes = {note}
  Typed = {typed}
  Clicked = {clicked}
SPECIFICATION MCSpec
CHECK_DEADLOCK FALSE
INVARIANT NoLineTwice
