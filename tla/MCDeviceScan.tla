---------------------------- MODULE MCDeviceScan ----------------------------
EXTENDS DeviceScan

MCTables == {<<"FACP", "MCFG", "MCFG">>, <<"FACP">>}

\* One range of three buses, and two ranges of which one is empty.
MCBuses ==
    {<<[start_bus |-> 0, end_bus |-> 2]>>,
     <<[start_bus |-> 1, end_bus |-> 1], [start_bus |-> 0, end_bus |-> 1]>>}

MCAttached == {"SATA", "SATAPI", "NONE", "off"}

\* A host bridge at 0.0.0; AHCI functions at any of four other places, one on a
\* bus whose device 0 is absent, one behind an absent function 0; another
\* device at 0.1.0; two ports on each controller, the second may be missing.
MCMachines ==
    {[tables |-> t, buses |-> b,
      class |-> [a \in {<<0, 0, 0>>} \cup other \cup ahci |-> IF a \in ahci THEN "ahci" ELSE "other"],
      ports |-> [a \in ahci |-> IF a[1] = 0 THEN p ELSE [i \in {1} |-> "SATA"]]] :
        t \in MCTables, b \in MCBuses, other \in {{}, {<<0, 1, 0>>}, {<<1, 0, 0>>}},
        ahci \in SUBSET {<<0, 0, 1>>, <<0, 1, 1>>, <<1, 1, 0>>, <<2, 0, 0>>},
        p \in [{0, 1} -> MCAttached] \cup [{2} -> MCAttached]}
=============================================================================
