--------------------------- MODULE AnonymousMemory ---------------------------
(***************************************************************************)
(* What mmap, munmap and mprotect promise of anonymous memory: a mapping   *)
(* takes pages nobody has and reads as zero, pages stay mapped until they  *)
(* are unmapped, and what may be written keeps what was written.           *)
(***************************************************************************)
EXTENDS Integers

CONSTANT Pages

VARIABLES
  mapped,    \* pages that belong to a mapping
  usable,    \* those that may be read and written
  written    \* those whose contents are not zero

MapPages(P, writable) ==
  /\ P \subseteq Pages \ mapped
  /\ mapped' = mapped \union P
  /\ usable' = IF writable THEN usable \union P ELSE usable
  /\ written' = written

\* A fixed mapping over pages that are mapped already starts afresh.
RemapPages(P, writable) ==
  /\ P \subseteq mapped
  /\ usable' = IF writable THEN usable \union P ELSE usable \ P
  /\ written' = written \ P
  /\ UNCHANGED mapped

UnmapPages(P) ==
  /\ mapped' = mapped \ P
  /\ usable' = usable \ P
  /\ written' = written \ P

ProtectPages(P, writable) ==
  /\ P \subseteq mapped
  /\ usable' = IF writable THEN usable \union P ELSE usable \ P
  /\ UNCHANGED <<mapped, written>>

WritePage(p) ==
  /\ p \in usable
  /\ written' = written \union {p}
  /\ UNCHANGED <<mapped, usable>>

MemoryInit == mapped = {} /\ usable = {} /\ written = {}

MemoryNext ==
  \/ \E P \in SUBSET Pages :
       \/ \E writable \in BOOLEAN :
            MapPages(P, writable) \/ RemapPages(P, writable) \/ ProtectPages(P, writable)
       \/ UnmapPages(P)
  \/ \E p \in Pages : WritePage(p)

MemorySpec == MemoryInit /\ [][MemoryNext]_<<mapped, usable, written>>
=============================================================================
