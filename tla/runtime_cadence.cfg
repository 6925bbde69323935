CONSTANTS
  car = car
  van = van
  stranger = stranger
  Absent = Absent
  Garbled = Garbled
  RecordIds = {"one", "two", "three", "four", "five", "gone"}
  NormalizePlate <- PlainPlate
  NoFee = NoFee
  None = None
  MaxRequests = 0
  Currencies = {"eur", "EUR"}
  Upper <- UpperCase
  Plates = {car, van}
  Selected <- SelectedProviders
  Responses <- Findings
SPECIFICATION LiveSpec
CHECK_DEADLOCK FALSE
PROPERTIES
  CheckedAgain
