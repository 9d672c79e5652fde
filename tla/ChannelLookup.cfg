SPECIFICATION Spec
CONSTANT Lookup = {l1, l2}
CONSTANT first = first
CONSTANT second = second
CONSTANT other = other
CONSTANT a = a
CONSTANT b = b
CONSTANT Script <- MCScript
CONSTANT Id <- MCId
CONSTANT IdOf <- MCIdOf
CONSTANT PageLimit = 3
CONSTANT MaxCell = 1
INVARIANT TypeOK
INVARIANT FreshAnswer
INVARIANT OneScript
INVARIANT GoneStaysGone
INVARIANT UncachedNoneIsTrue
PROPERTY LookupReturns
