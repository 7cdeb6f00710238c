SPECIFICATION Spec
CONSTANTS
  a1 = a1
  a2 = a2
  b1 = b1
  b2 = b2
  DayEnd = 4
  SlotTicks = 2
  MaxWindows = 1
  MinNotice = 2
  BookingWindow = 1
  Clock <- MCClock
  Tariff <- MCTariff
  SpecialDay <- MCSpecialDay
  Asked <- MCAsked
  HoursSave = {a1, a2}
  HoursEditor = {b1, b2}
  Rule = {a1, a2}
  Owner = {b1, b2}
  Evening = 2
  Priority = {0, 1}
  MaxRules = 3
  PolicySave = {a1, a2}
  PolicyEditor = {b1, b2}
  TierHours = {0, 2}
  TierPct = {0, 50, 100}
  TicksPerHour = 2
  Ticks <- MCTicks
  Billed = {0, 5}
  Collected <- MCCollected
SYMMETRY Alike
INVARIANTS RulesTypeOK PageAndHoldAgree OnePrice EarlierIsNoWorse ShownIsUpToDate
CHECK_DEADLOCK FALSE
