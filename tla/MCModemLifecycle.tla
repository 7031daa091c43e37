-------------------------- MODULE MCModemLifecycle --------------------------
(* Instance of ModemLifecycle for TLC: one SIM identity as a model value;  *)
(* two MMS contexts, of which ofono activates only the second, and an     *)
(* internet context with a MessageCenter that activates. The first has a *)
(* bare proxy host, the second a host:port proxy, the third no proxy.     *)
EXTENDS ModemLifecycle

CONSTANTS id1

MCCtxs ==
    << [path |-> "c1", type |-> "mms", mc |-> TRUE, proxy |-> <<"h">>],
       [path |-> "c2", type |-> "mms", mc |-> TRUE,
        proxy |-> <<"h", ":", "8", "0", "8", "0">>],
       [path |-> "c3", type |-> "internet", mc |-> TRUE, proxy |-> <<>>] >>

MCWorking == {"c2", "c3"}
=============================================================================
