\* All ids of up to four terms, from modules of up to two.
SPECIFICATION IdSpec
CONSTANTS
  Letters = {"x", "y", "z"}
  Names <- TwoNames
  BadTerms <- DottedTerms
  MaxTerms = 4
  MaxModId = 2
  Limit = 12
INVARIANTS InPlace Resolves RelativeToModule
