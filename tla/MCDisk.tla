------------------------------- MODULE MCDisk -------------------------------
EXTENDS Lbd

MCUser == <<1, 2>>

(* A disk of three sectors, with 48-bit addresses but the count in the     *)
(* 28-bit field, or with 28-bit addresses and junk in the 48-bit field.    *)
MCIdentities == {
  [lba48 |-> TRUE, sectors28 |-> 3, sectors48 |-> 0, cache |-> TRUE],
  [lba48 |-> FALSE, sectors28 |-> 3, sectors48 |-> 7, cache |-> FALSE]}
=============================================================================
