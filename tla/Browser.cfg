\* The browser's other parts, one at a time. A visitor may stop anywhere.
SPECIFICATION BrowserSpec
CONSTANTS
    netAt <- TwoWallets
    opsAt <- TwoRequests
    readAt <- ThreePauses
    logAt <- TwoChunks
    tourAt <- TwoTours
    reviewAt <- TwoReviews
CHECK_DEADLOCK FALSE
INVARIANTS
    WalletSafe
    PagesSafe
    TourSafe
    ReviewSafe
PROPERTY BrowserSteps
