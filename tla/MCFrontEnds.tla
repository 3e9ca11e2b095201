----------------------------- MODULE MCFrontEnds -----------------------------
(* Small instances of FrontEnds for TLC.                                   *)
EXTENDS FrontEnds

Plain == [op |-> "validate", target |-> "shapes", text |-> "whole", names |-> TRUE,
          schema |-> "none", timeout |-> "none", limit |-> "omitted"]

Timeouts == {"none", "positive", "not positive"}
Limits == {"omitted", "null", "zero", "few", "negative"}
Schemas == {"none", "text", "object", "broken object"}

MCRequest ==
    {[Plain EXCEPT !.names = n, !.schema = s, !.timeout = t] :
        n \in BOOLEAN, s \in Schemas, t \in Timeouts}
    \cup {[Plain EXCEPT !.target = "manifest", !.text = x, !.timeout = t] :
        x \in {"whole", "torn", "other version", "foreign"}, t \in Timeouts}
    \cup {[Plain EXCEPT !.target = t, !.limit = l] :
        t \in {"shapes", "manifest", "both", "neither"}, l \in Limits}
    \cup {[Plain EXCEPT !.op = "compile", !.names = n, !.schema = s] :
        n \in BOOLEAN, s \in Schemas}
    \cup {[Plain EXCEPT !.op = "schema"]}

\* Timeouts that are no finite numbers.
MCNotFinite == {[Plain EXCEPT !.timeout = "not finite"]}
=============================================================================
