CONSTANTS
  basic = basic
  pro = pro
  None = None
  Plans = {basic, pro}
  Basic = basic
  Rank <- Ranks
  Price <- Prices
  Trial <- Trials
  Signup = 2
  Cycles = {"monthly"}
  Length <- Lengths
  Grace = 1
  Invoices = {i1, i2}
  Staff = {h1}
SPECIFICATION Spec
SYMMETRY Symmetry
INVARIANTS TypeOK RenewedOnce
PROPERTIES PaidStaysPaid
