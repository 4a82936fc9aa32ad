CONSTANTS
  Hands = {h1, h2}
  Choices = {c1, c2}
  Items = {m1, m2, m3, m4}
  Max = 2
  Attempts = 2
  Places = {p1}
  Drivers = {payhere, webxpay, directpay}
  PayHere = payhere
  Payers = {y1}
  None = None
SPECIFICATION Spec
INVARIANTS TypeOK CoverIsKept DomainIsProven CertificateIsAwaited MemberIsAsAsked PaysTheVenue
SYMMETRY Symmetry
CHECK_DEADLOCK FALSE
