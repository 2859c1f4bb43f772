\* Sources of the tests, all sources of five or four short lines, and compiled
\* programs.
CONSTANTS
    AddressBits = 8
    IterationBits = 4
    AreaBits = 12
    DataBits = 16
    Sources <- MCSources
SPECIFICATION Spec
INVARIANTS LastDefinitionDelivers OperandsAgree NoRedundantDup AssemblesAsShipped
           PrintsAsWritten
\* The assembler ends.
CHECK_DEADLOCK FALSE
