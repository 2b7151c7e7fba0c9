SPECIFICATION ExchangeSpec
CONSTANT IsCase <- MCIsCase
INVARIANTS
    ReadsWhatWasMeasured
    AcceptedIsTaken
    ResponseIsWhole
    CommonIsBoth
CHECK_DEADLOCK FALSE
