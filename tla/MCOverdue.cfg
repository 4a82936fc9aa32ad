CONSTANTS
  basic = basic
  pro = pro
  None = None
  Plans = {basic, pro}
  Basic = basic
  Rank <- Ranks
  Price <- Prices
  Trial <- Trials
  Signup = 2
  Cycles = {"monthly"}
  Length <- Lengths
  Grace = 1
  Invoices = {i1}
  Staff = {h1}
SPECIFICATION FairSpec
PROPERTIES OverdueIsSettled CancelledMovesToBasic
