----------------------------- MODULE MCEngine -----------------------------
(* Small instance of the kernel process for TLC.                           *)
EXTENDS Engine

Keys(S) == [k \in S |-> "set"]
MCEnvironments ==
  {Keys({"NVIDIA_API_KEY", "NIM_LOCAL_URL"}),
   Keys({"LOCAL_LLM_BASE_URL"}),
   "OLLAMA_URL" :> "" @@ Keys({"LOCAL_LLM_BASE_URL"})}
MCDotenvs ==
  {<<{}, {Keys({"ANTHROPIC_API_KEY"}) @@ "ANTHROPIC_MODELS" :> <<Sonnet, <<>>>>}>>,
   <<{}, {}>>}

Req(m, id) == [method |-> m, id |-> id]
Arg(m, id, a) == Req(m, id) @@ [arg |-> a]
RouteReq(id, v, m, p) == Req("inference.route", id) @@ [valid |-> v, model |-> m, purpose |-> p]
MCLines ==
  {Req("blank", 0), Req("garbage", 0), Req("kernel.ping", 1), Req("models.list", 2),
   Req("ollama.models", 4), Req("connectivity.probe", 5), Arg("synth.predict", 7, "q"),
   Req("desktop.scan", 9), Arg("desktop.verify_binary", 10, "tool"), Req("nope", 11),
   RouteReq(12, FALSE, <<>>, None), RouteReq(13, TRUE, <<"claude-", "/", "x">>, "deploy")}

Cmd(c, a) == [cmd |-> c, arg |-> a, model |-> <<>>]
MCInputs ==
  {Cmd("say", ""), [cmd |-> "/model", arg |-> "", model |-> <<"claude-", "x">>], Cmd("/provider", "auto"),
   Cmd("/provider", "nvidia-nim"), Cmd("/provider", "nobody"), Cmd("/clear", ""),
   Cmd("/organize", "repo"), Cmd("/organize", "bare"), Cmd("/help", ""), Cmd("/quit", "")}

MCOllamaModels == {<<"qwen">>, <<"gpt-", "oss">>}

Ok(c, u, l) == [kind |-> "ok", content |-> c, usage |-> u, latency |-> l]
Http(s, t) == [kind |-> "http", status |-> s, text |-> t]
MCReplies ==
  {Ok("text", <<10, 5>>, 4000), Ok("", <<1, 9>>, 0), Ok(None, NoUsage, 50),
   Http(429, {}), Http(401, {}), Http(502, {<<"HTTP", 404>>}),
   [kind |-> "send", text |-> {<<"word", "timeout">>}], [kind |-> "badjson"]}

Dir(env, mcp, t) == [kind |-> "dir", skipped |-> FALSE, env |-> env, mcp |-> mcp, modified |-> t]
MCDisks ==
  {"repo" :> Dir("other", FALSE, 1) @@ "bare" :> Dir(None, FALSE, 2)
   @@ "tool" :> [kind |-> "exec", skipped |-> FALSE, env |-> None, mcp |-> FALSE, modified |-> 3]}
===========================================================================
