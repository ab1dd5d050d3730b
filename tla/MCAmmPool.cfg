SPECIFICATION Spec
CONSTANTS
  MaxInt <- MCMaxInt
  Amounts <- MCAmounts
  Minimums <- MCMinimums
INVARIANTS
  TypeOK
  BooksAgree
  SharesBacked
  DividesSafely
PROPERTY
  ShareValueNeverFalls
