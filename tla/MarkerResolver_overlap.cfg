SPECIFICATION Spec
CONSTANTS
  q1 = q1
  q2 = q2
  q3 = q3
  ana = ana
  rui = rui
  email = email
  Requests = {q1, q2}
  Values = {ana, rui, email}
  LabelOf <- Labels
INVARIANTS TypeOK MarkersAreDense OneMarkerUnlessRaced ResolvesUnlessRaced
PROPERTY ImplementsMarkerTable
SYMMETRY AnyRequest
