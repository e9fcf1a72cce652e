SPECIFICATION Spec
CONSTANTS
  Width = 2
  KeyBytes = 3
  MaxText = 4
  MaxFormat = 5
  MaxPage = 2
  MaxPlain = 3
  Keys <- MCKeys
  Ratings = {1, 5, 10}
  Garbage <- MCGarbage
INVARIANTS OddTextsParse DescriptionArrives  QmonIsReadable PhoneDials AveragesInRange PasswordReadsBack
