-------------------------------- MODULE Eeprom --------------------------------
(***************************************************************************)
(* The flash page behind the EEPROM emulation (drivers/eeprom/eeprom.c).   *)
(* EE_ErasePage erases the page as a whole, EE_Writes programs it word by  *)
(* word, in ascending order and only onto erased words, and EE_Reads reads *)
(* a prefix of it.  Both can be refused by the flash controller, and both  *)
(* are cut short by a reset.                                               *)
(***************************************************************************)
EXTENDS Naturals

CONSTANTS PageWords, \* words of the page
          Erased     \* what an erased word reads as (0xFFFFFFFF)

ASSUME PageAssumption == PageWords \in Nat \ {0}

PageIndex == 1 .. PageWords

ErasedPage == [i \in PageIndex |-> Erased]

\* EE_Writes, one iteration of its loop
Programmed(page, i, w) == [page EXCEPT ![i] = w]

\* what a reset or an error in the middle of an erase can leave of a page
PartlyErased(page) ==
  {[i \in PageIndex |-> IF i \in gone THEN Erased ELSE page[i]] :
     gone \in SUBSET PageIndex}

\* EE_Reads of the words 1 .. n delivers the words of buffer
Reads(page, n, buffer) == \A i \in 1 .. n : page[i] = buffer[i]
=============================================================================
