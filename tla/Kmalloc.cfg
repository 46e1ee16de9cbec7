SPECIFICATION Spec
CONSTANTS
    t1 = t1
    t2 = t2
    t3 = t3
    p1 = p1
    p2 = p2
    p3 = p3
    p4 = p4
    Thread <- Threads
    Page <- Pages
    NoPage = NoPage
    NSIZES = 2
    PerPage <- PerPage2
    NUM_PAGEREFPAGES = 2
    NPAGEREFS_PER_PAGE = 2
    MaxOwned = 2
SYMMETRY Symmetry
INVARIANTS
    PagesAccounted
    BlocksAccounted
    PagerefsAccounted
