SPECIFICATION Spec
CONSTANTS
    l1 = l1
    l2 = l2
    l3 = l3
    t1 = t1
    t2 = t2
    same = same
    old = old
    new = new
    Injector = Injector
    Library = Library
    Missing = Missing
    Broken = Broken
    Never = Never
    Now = Now
    Launchers <- MCLaunchers
    Contents = {same, old, new}
    Content <- MCContent
    Times = {t1, t2}
    Stamp <- MCStamp
    MaxActive = 2
SYMMETRY Symmetric
INVARIANTS
    StampedIsWhole
    LoadsItsOwn
PROPERTY
    FailsOnlyDisturbed
\* Every launcher ends.
CHECK_DEADLOCK FALSE
