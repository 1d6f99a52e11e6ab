SPECIFICATION Spec
CONSTANTS
    None = None
    a1 = a1
    a2 = a2
    b1 = b1
    b2 = b2
    pic = pic
    x = x
    Ann = Ann
    Bob = Bob
    Messages <- MCMessages
    Threads <- MCThreads
    ThreadOf <- MCThreadOf
    Batches <- MCBatches
    Ignored <- MCIgnored
    Missigned <- MCMissigned
    Unprintable <- MCUnprintable
    MaxCopies = 2
    MaxCrashes = 2
INVARIANTS
    WorkedOnceEver
