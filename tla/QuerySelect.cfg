\* Statements of every kind, on four databases, with one commit by another
\* transaction at any moment; the join order is none or any order.
SPECIFICATION Spec
CONSTANTS
    Schemas <- MCSchemas
    Normalize <- MCNormalize
    NameOrder <- MCNameOrder
    Databases <- MCDatabases
    Records <- MCRecords
    Texts <- MCTexts
    INT_BITS = 4
    MaxCommits = 1
    MaxSlots = 4
INVARIANTS
    TypeOK
    ParseIsMeant
    SelectIsRight
    RewritesKeepMeaning
    NoInventedRow
    UpdateIsRight
    PlainStatementsRun
