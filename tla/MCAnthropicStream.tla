------------------------- MODULE MCAnthropicStream -------------------------
(* Small instance of the Anthropic client for TLC.                         *)
EXTENDS AnthropicStream
Env(k, t) == [api_key |-> k, auth_token |-> t]
MCEnvironments == {Env("k", None), Env("", "t"), Env(None, "t"), Env(None, None)}
Frame == {<<"name", "d1">>, <<"d2">>, <<"h1", "h2">>, <<"ping", "d1">>, <<"note">>,
          <<"[DONE]">>, <<"bad">>}
MCFrameLists == [1 .. 1 -> Frame] \cup [1 .. 2 -> Frame]
                \cup [1 .. 3 -> {<<"d2">>, <<"h1", "h2">>, <<"ping", "d1">>, <<"bad">>}]
MCLineEnds == {<<"LF">>, <<"CR", "LF">>}
MCEvents == {<<"d1">>, <<"d2">>, <<"h1", "h2">>}
===========================================================================
