----------------------------- MODULE BootLoader -----------------------------
(***************************************************************************)
(* efi_main of gnu-efi/bootloader/main.c, from the kernel file to the jump *)
(* into the kernel: what it loads, which memory map it hands over, which   *)
(* RSDP it finds.  Every failure is printed and then ignored.  The firmware*)
(* is external: an allocation changes its memory map, and so may a Print.  *)
(***************************************************************************)
EXTENDS Integers, Sequences, FiniteSetsExt

CONSTANT ConfigTables
    \* the configuration tables firmware may show: sequences of "acpi1", "acpi2",
    \* "smbios" (nothing of ACPI) and "rogue" (another table that begins with R)

VARIABLES
    step,           \* of the loader
    tables,         \* SystemTable->ConfigurationTable
    version,        \* of the firmware's memory map
    map, exited,    \* the version handed to the kernel, 0 for none; boot services ended
    rsdp,           \* boot_info.rsdp
    failed,         \* ghost: something could not be found, read or allocated
    printed         \* ghost: the last Print changed the memory map

loaderVars == <<step, tables, version, map, exited, rsdp, failed, printed>>

Init ==
    /\ step = "kernel" /\ tables \in ConfigTables /\ version = 1 /\ map = 0 /\ exited = FALSE
    /\ rsdp = "none" /\ failed = FALSE /\ printed = FALSE

Goto(a, b) == step = a /\ step' = b

\* LoadFile, the ELF header and the program headers; then every segment to the
\* address it asks for, whether or not AllocatePages granted it.
LoadKernel ==
    /\ Goto("kernel", "font")
    /\ failed' \in BOOLEAN
    /\ version' = version + 1
    /\ UNCHANGED <<tables, map, exited, rsdp, printed>>

\* LoadPSF1Font and InitializeGOP.
LoadFontAndScreen ==
    /\ Goto("font", "size")
    /\ failed' \in {failed, TRUE}
    /\ version' = version + 1
    /\ UNCHANGED <<tables, map, exited, rsdp, printed>>

\* The size of the map, and a pool for it.
GetMemoryMapSize ==
    /\ Goto("size", "map")
    /\ failed' \in {failed, TRUE}
    /\ version' = version + 1
    /\ UNCHANGED <<tables, map, exited, rsdp, printed>>

\* Without a pool there is no map.
GetMemoryMap ==
    /\ Goto("map", "rsdp")
    /\ map' = IF failed THEN 0 ELSE version
    /\ UNCHANGED <<tables, version, exited, rsdp, failed, printed>>

\* The table whose GUID turn i of the loop compares: config_table is advanced
\* with the index, so it is entry 2i, and memory behind the tables from half way on.
Compared(t, i) == IF 2 * i + 1 <= Len(t) THEN t[2 * i + 1] ELSE "beyond"

\* strcmp compares the first character eight times over.
StartsLikeRsdp(table) == table \in {"acpi1", "acpi2", "rogue"}

\* mutant: the first table that will do is taken
FoundRsdpFirst(t) ==
    LET hits == {i \in 0 .. Len(t) - 1 : Compared(t, i) # "acpi2" /\ StartsLikeRsdp(t[i + 1])}
    IN IF hits = {} THEN "none" ELSE t[Min(hits) + 1]

\* CompareGuid answers 0 for equal GUIDs: a turn is passed over when the GUID it
\* looks at is that of ACPI 2.0.  The last of the others wins.
FoundRsdp(t) ==
    LET hits == {i \in 0 .. Len(t) - 1 : Compared(t, i) # "acpi2" /\ StartsLikeRsdp(t[i + 1])}
    IN IF hits = {} THEN "none" ELSE t[Max(hits) + 1]

FindRsdp ==
    /\ Goto("rsdp", "print")
    /\ rsdp' = FoundRsdp(tables)
    /\ UNCHANGED <<tables, version, map, exited, failed, printed>>

\* Print(L"%d", Map->NumberOfPages), after the map was taken.
PrintPages ==
    /\ Goto("print", "exit")
    /\ printed' \in BOOLEAN
    /\ version' = IF printed' THEN version + 1 ELSE version
    /\ UNCHANGED <<tables, map, exited, rsdp, failed>>

\* ExitBootServices refuses the key of a map that is not the current one; its
\* result is ignored.
ExitBootServices ==
    /\ Goto("exit", "kernel_start")
    /\ exited' = (map = version)
    /\ UNCHANGED <<tables, version, map, rsdp, failed, printed>>

Next ==
    \/ LoadKernel \/ LoadFontAndScreen \/ GetMemoryMapSize \/ GetMemoryMap
    \/ FindRsdp \/ PrintPages \/ ExitBootServices
=============================================================================
