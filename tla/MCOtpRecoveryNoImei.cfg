SPECIFICATION Spec
CONSTANTS
    p1 = p1
    p2 = p2
    e1 = e1
    e2 = e2
    e3 = e3
    h1 = h1
    h2 = h2
    h3 = h3
    i1 = i1
    None = None
    Esn = {e1, e2, e3}
    Hash = {h1, h2, h3}
    Imei = {i1}
    KnownHash = h3
    KnownEsn = e3
    Launch = {p1}
    Images <- MCImages
    TextSize <- MCTextSize
    EsnOfHash <- MCEsnOfHash
    MayReplace = FALSE
    MayDelete = FALSE
    MayCrash = FALSE
    MayFillDisk = FALSE
INVARIANT
    KeyIsEnough
