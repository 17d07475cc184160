\* Partitions added: service.go:189 gives the client a total, which it takes for an increment.
SPECIFICATION Spec
CONSTANTS
  Start = 3
  Counts = {1, 2}
  MaxAdds = 2
INVARIANTS NeverMoreThanAsked
CHECK_DEADLOCK FALSE
