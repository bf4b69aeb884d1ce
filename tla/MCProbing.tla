----------------------------- MODULE MCProbing -----------------------------
(* Two probes, one accepted and one dropped; one IPv4 case that resets the   *)
(* session, one that is taken and not cleared by its withdrawal, and an IPv6 *)
(* case that is tried only by name.                                          *)
EXTENDS Probing

CONSTANTS good, bad, resets, stays, named

MCProbes   == {good, bad}
MCCases    == {resets, stays, named}
MCExcluded == {named}
MCFamilyOf == [i \in {good, bad, resets, stays, named} |->
                 IF i = named THEN "ipv6" ELSE "ipv4"]
MCAccepted == {good, stays}
MCResets   == {resets, named}
MCSticky   == {stays}
=============================================================================
