------------------------------- MODULE MCBoot -------------------------------
EXTENDS Boot

\* Up to three tables in every order, repetitions included.
MCConfigTables == UNION {[1 .. n -> {"acpi1", "acpi2", "smbios", "rogue"}] : n \in 0 .. 3}
=============================================================================
