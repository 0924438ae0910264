------------------------ MODULE MCPageFrameAllocator ------------------------
(***************************************************************************)
(* A machine of 13 described pages: 8 usable, five firmware pages and a    *)
(* hole at page 6, so that BitCount = 16 leaves two bits above MemoryPages *)
(* (page 14 and page 15) that are never reserved.                          *)
(***************************************************************************)
EXTENDS PageFrameAllocator

MCDescriptors ==
    { [conventional |-> TRUE,  base |-> 0,  pages |-> 3],
      [conventional |-> FALSE, base |-> 3,  pages |-> 3],
      [conventional |-> TRUE,  base |-> 7,  pages |-> 5],
      [conventional |-> FALSE, base |-> 40, pages |-> 2] }

\* Page 11 is usable memory the loader put the kernel in, page 5 is not.
MCKernelImage == {5, 11}

\* Page 14 has a bit above MemoryPages; pages 30 and 31 have none.
MCFramebuffer == {14, 30, 31}

VARIABLE
    runsAsked       \* ghost: request_pages was called

MCInit == Init /\ runsAsked = FALSE
MCNext == Next /\ runsAsked' = (runsAsked \/ asked' > 1)
MCSpec == MCInit /\ [][MCNext]_<<vars, runsAsked>>

\* As long as pages were only asked for one at a time, NULL means that memory has
\* run out: requests, failures and frees in any order never leave a free page
\* behind the cursor.  After request_pages, which moves the cursor over runs that
\* are too short, a free page may be refused; after NULL was given back, it is
\* page 0 as well.
SinglePagesNotLost == runsAsked \/ Null \in lost \/ NullMeansExhausted
=============================================================================
