---------------------------- MODULE MCNvSections ----------------------------
(***************************************************************************)
(* NvSections on a page of four data words behind a header of 4 and a      *)
(* table of 20 bytes: four names and sections of one or two words.  The    *)
(* table has room for five sections by the arithmetic of add_section (4    *)
(* bytes each, 12 in the code), and for three by that of store (5, and     *)
(* 16).                                                                    *)
(***************************************************************************)
EXTENDS NvSections

CONSTANTS eol, excp, dset, extra

Dflt(n, s) == [name |-> n, size |-> s]

\* a released firmware, its successor with a larger first and a new last section,
\* and a faulty one that lists a section twice and one that cannot fit
MCFirmware == { <<Dflt(eol, 4), Dflt(excp, 4)>>,
                <<Dflt(eol, 8), Dflt(excp, 4), Dflt(dset, 3)>>,
                <<Dflt(excp, 4), Dflt(excp, 8), Dflt(dset, 40)>> }

MCSize == {0, 4, 8}
=============================================================================
