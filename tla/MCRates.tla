------------------------------ MODULE MCRates ------------------------------
(* Model-checking instance of Rates: a counter of failed or aborted requests *)
(* may be missing from a scrape, and the wall clock may step back.           *)
EXTENDS Rates

SomeExposed == {Counters, {"finished", "failed"}, {"finished", "aborted"}}
AnyRequest == {{"finished"}, {"failed"}, {"finished", "aborted"}}
ClockSteps == {-1, 1, 2}
=============================================================================
