------------------------------- MODULE MCPhoneAPI -------------------------------
(***************************************************************************)
(* The instances of PhoneAPI TLC checks: more modules than channels, so    *)
(* that an index of one list can be out of range of the other.             *)
(***************************************************************************)
EXTENDS PhoneAPI

CONSTANTS usb, wifi

\* The phone that leaves asks for a part, the other for anything.
UsbAsksAll ==
    [ph \in Phones |-> IF ph = usb THEN {"all", "only_config", "only_nodes"}
                       ELSE {"only_config", "only_nodes"}]
================================================================================
