SPECIFICATION Spec
CONSTANTS
  Words <- SomeWords
  Certificates <- SomeCertificates
  Widths <- SomeWidths
  Comment <- NoteLine
  Texts <- AllTexts
  Width = 2
INVARIANTS
  EveryBlock
