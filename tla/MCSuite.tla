------------------------------ MODULE MCSuite ------------------------------
(* Contracts for Suite: two valid denominators, one of which names one        *)
(* directory twice, and the ways to be invalid.                               *)
EXTENDS Suite, TLC

Cases3(x, y, z) ==
  <<[id |-> x[1], expected |-> x[2]], [id |-> y[1], expected |-> y[2]],
    [id |-> z[1], expected |-> z[2]]>>

MCCasesOf == [
  fixed    |-> Cases3(<<"a", "CLOSED">>, <<"b", "UNKNOWN">>, <<"c", "REFUTED">>),
  aliased  |-> Cases3(<<"a", "CLOSED">>, <<"./a", "UNKNOWN">>, <<"c", "REFUTED">>),
  unfixed  |-> Cases3(<<"a", "CLOSED">>, <<"b", "UNKNOWN">>, <<"c", "REFUTED">>),
  lopsided |-> Cases3(<<"a", "CLOSED">>, <<"b", "CLOSED">>, <<"c", "REFUTED">>),
  repeated |-> Cases3(<<"a", "CLOSED">>, <<"a", "UNKNOWN">>, <<"c", "REFUTED">>),
  misnamed |-> Cases3(<<"a", "PASS">>, <<"b", "UNKNOWN">>, <<"c", "REFUTED">>),
  short    |-> <<[id |-> "a", expected |-> "CLOSED"]>>]

\* All but one declare the schema, the flag and the precedence that are wanted.
MCWellFormed == DOMAIN MCCasesOf \ {"unfixed"}

MCDirOf == [a |-> "a", b |-> "b", c |-> "c"] @@ "./a" :> "a"
=============================================================================
