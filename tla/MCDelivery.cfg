CONSTANTS
  Hands = {h1, h2}
  Choices = {c1, c2}
  Gateways = {payhere, webxpay}
  PayHere = payhere
  Keys = {k1}
  Domains = {d1}
  Attempts = 2
  Crashes = 1
  MaxChanges = 2
  Nothing = Nothing
SPECIFICATION SpecAll
INVARIANTS TypesOK PaidIsBooked WizardLeadsOn MailArrivesOnce RemindsTheLiving VerifiedIsProven OwnChangeShown OfferedIsAccepted
SYMMETRY Symmetry
CHECK_DEADLOCK FALSE
