CONSTANTS
    m1 = m1
    m2 = m2
    m3 = m3
    App = App
    E = E
    None = None
    Msgs <- MCMsgs
    Utf8 <- MCUtf8
    Numbers <- MCNumbers
    FracDigits = 2
    Nil = nil
    Bodies <- MCBodies
    Block = 2
    Dec = 4
    Hex = 5
SPECIFICATION MCSpec
INVARIANTS
    LinksSound NothingAfterDelete RoundTrip TruncatedRefused
    Settled UploadWhole DownloadPrefix DownloadWhole HandlesReleased
CHECK_DEADLOCK FALSE
