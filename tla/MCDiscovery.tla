----------------------------- MODULE MCDiscovery -----------------------------
(* Mappings and policies of Discovery for TLC.                               *)
EXTENDS Discovery

Field(name, date) == [name |-> name, date |-> date]

(* No timestamp, the usual one, one after another date, one that is no date. *)
MCMappings ==
    {<<Field("message", FALSE)>>,
     <<Field("message", FALSE), Field("created", TRUE)>>,
     <<Field("created", TRUE), Field("@timestamp", FALSE)>>}

MCBodies ==
    {[delete |-> "interval", rollover |-> "bound", tiers |-> {}],
     [delete |-> None, rollover |-> "no bound", tiers |-> {"warm", "cold"}]}
===============================================================================
