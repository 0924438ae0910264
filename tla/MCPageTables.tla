---------------------------- MODULE MCPageTables ----------------------------
(* Virtual pages that part at the last, the third and the first level.       *)
EXTENDS PageTables

MCVirtualPages ==
    {<<0, 0, 0, 0>>, <<0, 0, 0, 1>>, <<0, 0, 1, 1>>, <<1, 0, 0, 0>>}
=============================================================================
