SPECIFICATION FairSpec
CONSTANTS
    MaxElicit = 2
    Forms <- AllForms
    TypedTexts = {"7"}
    Numerals = {"7"}
INVARIANT AnsweredOnce
INVARIANT AcceptIsUsers
INVARIANT CardsAreAwaited
INVARIANT PickedKept
INVARIANT TypedKept
PROPERTY Settles
CHECK_DEADLOCK FALSE
