\* Clients that ask for single pages and for runs of pages, and give back NULL.
SPECIFICATION MCSpec
CONSTANTS
    Descriptors <- MCDescriptors
    LowPages = 2
    PageSize = 4096
    KernelImage <- MCKernelImage
    Framebuffer <- MCFramebuffer
    BlockLengths = {2}
INVARIANTS TypeOK Accounting NoDoubleAllocation ProtectedNeverHandedOut SinglePagesNotLost
PROPERTIES CountersFollowOwnership ImplementsFramePool
