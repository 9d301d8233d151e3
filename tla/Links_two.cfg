\* Two ends, up to two connections at a time, one fault.
SPECIFICATION LinkSpec
CONSTANTS
    MaxConns = 2
    MaxLinkFaults = 1
INVARIANT
    OpenIsLinked
PROPERTY
    LinksSettle
