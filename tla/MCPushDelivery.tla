--------------------------- MODULE MCPushDelivery ---------------------------
(* Two runs that push to one gateway, with jobs and labels whose plain     *)
(* rendering would be read as another group, or as none.                   *)
EXTENDS PushDelivery, TLC

CONSTANTS s1, s2
MCSinks == {s1, s2}
MCCharacters == Unreserved \cup {"/", "%"}

L(name, value) == <<name, value>>
Config(job, labels, retries) ==
  [job |-> job, labels |-> labels, retries |-> retries, timeout |-> 1, delete |-> TRUE]

MCConfigs ==
  { Config(<<"a">>, <<>>, 1),
    Config(<<"a">>, << L(<<"b">>, <<"a">>) >>, 0),
    Config(<<"a", "/", "b", "/", "a">>, <<>>, 0),
    [Config(<<"%">>, << L(<<"b">>, <<".">>) >>, 1) EXCEPT !.delete = FALSE] }

(* Configurations that new rejects, and ones that need an encoding. *)
MCOdd ==
  { Config(<<>>, <<>>, 0),
    Config(<<"a">>, <<>>, MaxRetries + 1),
    [Config(<<"a">>, <<>>, 0) EXCEPT !.timeout = 0],
    Config(<<"a">>, << L(<<"0">>, <<"a">>) >>, 0),
    Config(<<"a">>, << L(<<"j", "o", "b">>, <<"b">>) >>, 0),
    Config(<<"a">>, << L(<<"_", "_">>, <<"a">>) >>, 0),
    Config(<<"a">>, << L(<<"b">>, <<>>) >>, 0),
    Config(<<"a">>, << L(<<"b">>, <<"a">>), L(<<"b">>, <<"b">>) >>, 0),
    Config(<<".", ".">>, << L(<<"_">>, <<"/">>), L(<<"b">>, <<".", "a">>) >>, 0),
    Config(<<"/", ".">>, << L(<<"b">>, <<"%", "a">>), L(<<"a">>, <<"a", "/">>) >>, 0) }

MCChoices == (s1 :> MCConfigs \cup MCOdd) @@ (s2 :> {Config(<<"a">>, <<>>, 0)})
=============================================================================
