SPECIFICATION Spec
CONSTANTS
  a1 = a1
  Autos <- OneAuto
  SkipsBusy = {a1}
  Identity = TRUE
  MaxRuns = 1
  MaxTerms = 2
  MaxEdits = 1
  MaxFaults = 1
  MaxCrashes = 1
INVARIANTS DeliverySafe
PROPERTIES PromptsRight DeliveryLive
CHECK_DEADLOCK FALSE
