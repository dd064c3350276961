------------------------------ MODULE MCRouter ------------------------------
(* Two models.  Requests that do not name a model get the first one.          *)
EXTENDS Router

CONSTANTS a, b

MCModels == {a, b}
Ask(ops, models) == {[op |-> o, model |-> m] : o \in ops, m \in models}

(* Everything the routes offer.                                               *)
AllRequests == Ask({"request", "unload"}, {a, b}) \cup Ask({"load", "reload", "list"}, {a})
               \cup Ask({"download", "remove"}, {b})

=============================================================================
