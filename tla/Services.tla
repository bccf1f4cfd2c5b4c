------------------------------ MODULE Services ------------------------------
(***************************************************************************)
(* What the services have in common.  Their instances, with the properties *)
(* that are proved of any constants and checked of the small ones of       *)
(* MCServices, are in ContractServices, MoneyServices and RecordServices.  *)
(* Each service is modelled over storage of its own: part names the one a  *)
(* behaviour is about, and the others stay as they were initialised.  What *)
(* services do to each other through the token balance of the contract,    *)
(* and restore_backup to the invoices of the others, is left out.          *)
(***************************************************************************)
EXTENDS Integers, Sequences, FiniteSets

CONSTANTS
    Nobody,     \* the address, text, secret or cursor that is not there
    MaxTime     \* bound: the clock

VARIABLES part, now
=============================================================================
