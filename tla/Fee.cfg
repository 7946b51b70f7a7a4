\* Two years, three numbers a year, a gap of two, two payments a bill, three
\* changes at the tax office and one fault.
SPECIFICATION FairSpec
CONSTANTS
  FirstYear = 1
  LastYear = 2
  MaxNumber = 3
  MaxReceipts = 2
  MaxEmpty = 2
  MaxEvents = 3
  MaxFaults = 1
INVARIANTS
  TypeOK
  NoYearLeftOut
  ReportedComplete
PROPERTIES
  KeepsLedger
  PaymentsArrive
  BillsArrive
