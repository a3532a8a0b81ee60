------------------------------- MODULE Engine -------------------------------
(***************************************************************************)
(* Start-up configuration of the kernel process and the lookups over it:   *)
(* engine/src/config.rs, engine/src/main.rs (.env loading) and the         *)
(* resolve_provider and list_models functions of engine/src/router.rs.     *)
(*                                                                         *)
(* An environment is a function whose domain is the set of variables that  *)
(* are set.  A model id is a sequence of tokens, with "/" a token of its   *)
(* own, so that "starts with" is the prefix order on sequences.            *)
(***************************************************************************)
EXTENDS Integers, Sequences, FiniteSets, SequencesExt, TLC

None == "none"

\* std::env::var(key) with a default.
env_or(env, key, default) == IF key \in DOMAIN env THEN env[key] ELSE default

\* A comma separated list of ids; blank entries are dropped.
parse_models(env, key, default) ==
  LET ids == env_or(env, key, default)
      upto[n \in 0 .. Len(ids)] ==
        IF n = 0 THEN <<>>
        ELSE IF ids[n] = <<>> THEN upto[n - 1] ELSE Append(upto[n - 1], ids[n])
  IN  upto[Len(ids)]

\* main.rs: the first existing file is read, and a variable the process
\* already has keeps its value.  A candidate is {contents}, or {} when there
\* is no such file.
try_load_dotenv(env, candidates) ==
  LET present == {i \in DOMAIN candidates : candidates[i] # {}}
      first == CHOOSE i \in present : \A j \in present : i <= j
      file == CHOOSE f \in candidates[first] : TRUE
  IN  IF present = {} THEN env
      ELSE [key \in DOMAIN env \cup DOMAIN file |->
              IF key \in DOMAIN env THEN env[key] ELSE file[key]]

---------------------------------------------------------------------------
Nemotron == <<"nvidia", "/", "nemotron">>
NemotronSmall == <<"nvidia", "/", "llama">>
Gpt(v) == <<"gpt-", v>>
Sonnet == <<"claude-", "sonnet">>

\* OLLAMA_URL, else LOCAL_LLM_BASE_URL, without trailing slashes: an empty
\* OLLAMA_URL hides the other variable and configures no provider.
ollama_url(env) == env_or(env, "OLLAMA_URL", env_or(env, "LOCAL_LLM_BASE_URL", ""))

\* The providers load_config pushes, in the order of its five blocks.
Pushed(env) ==
  LET has(key) == key \in DOMAIN env
      p(on, name, key, default, priority) ==
        IF on THEN << [name |-> name, models |-> parse_models(env, key, default),
                       priority |-> priority] >>
              ELSE <<>>
  IN  p(has("NVIDIA_API_KEY"), "nvidia-nim", "NVIDIA_MODELS", <<Nemotron, NemotronSmall>>, 1)
      \o p(has("OPENAI_API_KEY"), "openai", "OPENAI_MODELS", <<Gpt("5.4"), Gpt("4o")>>, 2)
      \o p(has("ANTHROPIC_API_KEY"), "anthropic", "ANTHROPIC_MODELS", <<Sonnet>>, 3)
      \o p(ollama_url(env) # "", "ollama", "OLLAMA_MODELS", << <<"gpt-", "oss">> >>, 10)
      \o p(has("NIM_LOCAL_URL"), "nim-local", "NIM_LOCAL_MODELS", <<Nemotron>>, 0)

Names(providers) == {providers[i].name : i \in DOMAIN providers}

\* OPSEEQ_DEFAULT_MODEL, else by which family of provider there is.
default_model(env, providers) ==
  env_or(env, "OPSEEQ_DEFAULT_MODEL",
    CASE Names(providers) \cap {"nvidia-nim", "nim-local"} # {} -> Nemotron
      [] /\ Names(providers) \cap {"nvidia-nim", "nim-local"} = {}
         /\ "anthropic" \in Names(providers) -> Sonnet
      [] OTHER -> Gpt("4o"))

\* model id -> index of the first provider (by priority) that lists it.
model_map(providers) ==
  LET ids == UNION {ToSet(providers[i].models) : i \in DOMAIN providers}
      owners(m) == {i \in DOMAIN providers : m \in ToSet(providers[i].models)}
  IN  [m \in ids |-> CHOOSE i \in owners(m) : \A j \in owners(m) : i <= j]

\* sort_by_key(priority), a stable sort: order[i] is the place of the i-th.
ByPriority(s) ==
  LET precedes(i, j) == s[i].priority < s[j].priority
                        \/ (s[i].priority = s[j].priority /\ i < j)
      order == CHOOSE f \in [DOMAIN s -> DOMAIN s] :
                 \A i, j \in DOMAIN s : i < j => precedes(f[i], f[j])
  IN  [i \in DOMAIN s |-> s[order[i]]]

load_config(env) ==
  LET providers == ByPriority(Pushed(env))
  IN  [providers     |-> providers,
       model_map     |-> model_map(providers),
       default_model |-> default_model(env, providers),
       ollama        |-> ollama_url(env) # ""]

---------------------------------------------------------------------------
\* model.split('/').next(): the tokens before the first slash.
ModelPrefix(model) ==
  LET slashes == {i \in DOMAIN model : model[i] = "/"}
  IN  SubSeq(model, 1, IF slashes = {} THEN Len(model)
                       ELSE (CHOOSE i \in slashes : \A j \in slashes : i <= j) - 1)

\* The set of indices is empty exactly when the Rust function returns None.
resolve_provider(model, config) ==
  LET byPrefix == {i \in DOMAIN config.providers :
                     /\ ModelPrefix(model) # <<>>
                     /\ \E m \in ToSet(config.providers[i].models) :
                          IsPrefix(ModelPrefix(model), m)}
      least(S) == {i \in S : \A j \in S : i <= j}
  IN  IF model \in DOMAIN config.model_map THEN {config.model_map[model]}
      ELSE IF byPrefix # {} THEN least(byPrefix)
      ELSE least(DOMAIN config.providers)

\* Every configured model with its provider, in cascade order.
list_models(config) ==
  FlattenSeq([i \in DOMAIN config.providers |->
    [k \in DOMAIN config.providers[i].models |->
       [id |-> config.providers[i].models[k], provider |-> config.providers[i].name]]])

-----------------------------------------------------------------------------
(***************************************************************************)
(* The kernel process opseeq-core: `serve` (the JSON-RPC loop on stdin and *)
(* stdout, engine/src/rpc.rs) and `chat` (the terminal shell,              *)
(* engine/src/chat.rs), both over the provider cascade of                  *)
(* engine/src/router.rs and the adapters of engine/src/providers/.         *)
(*                                                                         *)
(* A text the code searches (an error message) is the set of the marks it  *)
(* contains: <<"HTTP", 404>> for "HTTP 404:", <<"digits", 429>> for "429", *)
(* <<"word", ...>> for "auth", "rate limit", "timeout", "no provider".     *)
(***************************************************************************)

CONSTANTS
  Environments,   \* environments the process may be started in
  Dotenvs,        \* candidate .env files: sequences of {} or {contents}
  Lines,          \* what the gateway may write: blank, garbage or a request
  Inputs,         \* what the user may type in the chat shell
  Replies,        \* what a provider may do with one HTTP request
  OllamaModels,   \* ids the Ollama server lists when it is up
  Disks,          \* initial contents of the scanned directory
  TTL,            \* MODEL_CACHE_TTL in ticks
  MaxLines,       \* bound: lines written, or typed, per behaviour
  MaxClock        \* bound: ticks per behaviour

MAX_RETRIES_PER == 2
Tau == [explore |-> 700, production |-> 850, deploy |-> 900]   \* thousandths

VARIABLES
  mode,      \* "serve", "chat" or "exited"
  config,    \* the KernelConfig, fixed at start-up
  up,        \* history: was Ollama reachable at ticks 0 .. clock
  clock,
  disk,      \* entries of the scanned directory, by name
  stdin,     \* lines written and not yet read
  eof,       \* the gateway closed its end
  received,  \* history: the lines the server has read, blank ones left out
  cur,       \* the request being dispatched, or NoRequest
  run,       \* the RunEnvelope and loop state of route_inference, or NoRun
  log,       \* the events route_inference has emitted for this run
  out,       \* the responses written to stdout
  cache,     \* the ModelCache, or NoCache
  given,     \* lines written or typed so far
  chat       \* the shell's messages, active_model and force_provider

serverVars == <<stdin, eof, received, cur, out, cache>>
worldVars == <<up, clock, disk>>
chatVars == <<given, chat>>
vars == <<mode, config, worldVars, serverVars, run, log, chatVars>>

NoRequest == [method |-> None, id |-> 0]
NoRun == [status |-> None]
NoCache == [entries |-> <<>>, at |-> -1]
NoUsage == <<>>
NoText == ""

\* A line that parses has a method, one that does not has no id; latency and
\* token counts are unsigned (types.rs).
ASSUME EngineConstants ==
  /\ MaxLines \in Nat /\ MaxClock \in Nat /\ TTL \in Nat \ {0}
  /\ IsFiniteSet(OllamaModels)
  /\ \A line \in Lines : line.method # None /\ (line.method = "garbage" => line.id = 0)
  /\ \A reply \in Replies : reply.kind = "ok" =>
       reply.latency \in Nat /\ reply.usage \in {NoUsage} \cup (Nat \X Nat)

\* The variables config.rs splits at commas.
ListVariables ==
  {"NVIDIA_MODELS", "OPENAI_MODELS", "ANTHROPIC_MODELS", "OLLAMA_MODELS", "NIM_LOCAL_MODELS"}
ListsModels(env) == \A key \in ListVariables \cap DOMAIN env : env[key] \in Seq(Seq(STRING))

\* A list variable, in the environment or in a .env file, is a list of ids.
ASSUME ListsAreLists ==
  /\ \A env \in Environments : ListsModels(env)
  /\ \A files \in Dotenvs :
       /\ Len(files) \in Nat /\ DOMAIN files = 1 .. Len(files)
       /\ \A i \in DOMAIN files : \A env \in files[i] : ListsModels(env)

---------------------------------------------------------------------------
(* Adapters: what one HTTP exchange becomes (providers/*.rs).              *)

\* The text of the error, for a reply that is not a success.
ErrorText(reply) ==
  CASE reply.kind = "send"    -> reply.text
    [] reply.kind = "http"    -> reply.text \cup {<<"HTTP", reply.status>>,
                                                  <<"digits", reply.status>>}
    [] reply.kind = "badjson" -> {}

\* openai.rs: as many choices as the array has, usage only if it is there.
OpenAiResponse(reply) ==
  [choices |-> IF reply.content = None THEN <<>> ELSE <<reply.content>>,
   usage   |-> reply.usage]

\* anthropic.rs: always one choice, with empty text when there is none.
AnthropicResponse(reply) ==
  [choices |-> <<IF reply.content = None THEN NoText ELSE reply.content>>,
   usage   |-> reply.usage]

\* ollama.rs: always one choice, and counters that default to zero.
OllamaResponse(reply) ==
  [choices |-> <<IF reply.content = None THEN NoText ELSE reply.content>>,
   usage   |-> IF reply.usage = NoUsage THEN <<0, 0>> ELSE reply.usage]

call_provider(provider, reply) ==
  LET r == IF provider.name = "anthropic" THEN AnthropicResponse(reply)
           ELSE IF provider.name = "ollama" THEN OllamaResponse(reply)
           ELSE OpenAiResponse(reply)
  IN  [choices |-> r.choices, usage |-> r.usage, provider |-> provider.name]

---------------------------------------------------------------------------
(* Classification and scoring (router.rs, rpc.rs).                         *)

is_retryable(error) ==
  \A code \in {400, 401, 403, 404, 422} : <<"HTTP", code>> \notin error

error_code(error) ==
  IF <<"word", "no provider">> \in error THEN -32602
  ELSE IF {<<"digits", 429>>, <<"word", "rate limit">>} \cap error # {} THEN -32002
  ELSE IF {<<"digits", 401>>, <<"digits", 403>>, <<"word", "auth">>} \cap error # {} THEN -32001
  ELSE IF <<"word", "timeout">> \in error THEN -32003
  ELSE -32000

\* Thousandths; latency in milliseconds.
compute_quality_score(resp, latency) ==
  LET least(a, b) == IF a <= b THEN a ELSE b
      speed   == least(1000, 2000000 \div (IF latency < 100 THEN 100 ELSE latency))
      counted == resp.usage # NoUsage /\ resp.usage[1] > 0
      ratio   == IF counted
                 THEN least(2000, (1000 * resp.usage[2]) \div resp.usage[1]) \div 2
                 ELSE 0
      content == IF resp.choices # <<>> /\ resp.choices[1] # NoText THEN 1000 ELSE 0
  IN  (speed + ratio + content) \div (IF counted THEN 3 ELSE 2)

active_tau(purpose) ==
  CASE purpose \in {"deploy", "production_deploy"} -> "deploy"
    [] purpose \in {"production", "pipeline", "mermate_pipeline"} -> "production"
    [] OTHER -> "explore"

\* mutant: the primary is not left out of the rest
PrimaryAgain(model) ==
  <<config.providers[CHOOSE i \in resolve_provider(model, config) : TRUE]>> \o config.providers

\* The primary first, then in priority order every provider of another name
\* than those already there.  upTo[i] is the cascade after the first i providers.
Cascade(model) ==
  LET primary == CHOOSE i \in resolve_provider(model, config) : TRUE
      upTo[i \in 0 .. Len(config.providers)] ==
        IF i = 0 THEN <<config.providers[primary]>>
        ELSE IF config.providers[i].name \in Names(upTo[i - 1]) THEN upTo[i - 1]
        ELSE Append(upTo[i - 1], config.providers[i])
  IN  upTo[Len(config.providers)]

---------------------------------------------------------------------------
(* route_inference: begun by the server or the shell, one action per HTTP  *)
(* exchange, left in a final status for the caller to pick up.             *)

Requested(p) == [ev |-> "InferenceRequested", provider |-> p.name]

\* The statements before the loop: no provider at all is an error of its own.
StartRun(model, purpose) ==
  IF resolve_provider(model, config) = {}
  THEN /\ run' = [status |-> "Failed", model |-> model, purpose |-> purpose,
                  cascade |-> <<>>, at |-> 0, attempt |-> 0, retry_count |-> 0,
                  last_err |-> {<<"word", "no provider">>}, resp |-> None]
       /\ log' = <<>>
  ELSE LET cascade == Cascade(model) IN
       /\ run' = [status |-> "InFlight", model |-> model, purpose |-> purpose,
                  cascade |-> cascade, at |-> 1, attempt |-> 0, retry_count |-> 0,
                  last_err |-> {}, resp |-> None]
       /\ log' = <<Requested(cascade[1])>>

Succeed(reply) ==
  LET resp  == call_provider(run.cascade[run.at], reply)
      tier  == active_tau(run.purpose)
      score == compute_quality_score(resp, reply.latency)
  IN  /\ run' = [run EXCEPT !.status = "Completed", !.retry_count = @ + 1,
                            !.resp = resp.provider]
      /\ log' = log \o <<[ev |-> "InferenceCompleted", provider |-> resp.provider],
                         [ev |-> "QualityScored", passed |-> score >= Tau[tier],
                          empty |-> resp.choices = <<>> \/ resp.choices[1] = NoText]>>

\* For the properties: the provider rejected the request, or its answer only
\* quotes such a rejection, or neither.
ClientErrors == {400, 401, 403, 404, 422}
FailureClass(reply) ==
  IF reply.kind = "http" /\ reply.status \in ClientErrors THEN "rejected"
  ELSE IF \E c \in ClientErrors : <<"HTTP", c>> \in ErrorText(reply) THEN "quotes"
  ELSE "transient"

\* A failed exchange: the next attempt after the backoff, the next provider,
\* or the end of the cascade.
Fail(reply) ==
  LET error == ErrorText(reply)
      over  == ~is_retryable(error) \/ run.attempt >= MAX_RETRIES_PER
      last  == run.at = Len(run.cascade)
      failed == [ev |-> "ProviderFailed", provider |-> run.cascade[run.at].name,
                 attempt |-> run.attempt, class |-> FailureClass(reply)]
  IN  /\ run' = [run EXCEPT !.retry_count = @ + 1,
                            !.last_err = error,
                            !.attempt = IF over THEN 0 ELSE @ + 1,
                            !.at = IF over /\ ~last THEN @ + 1 ELSE @,
                            !.status = IF over /\ last THEN "Failed" ELSE @]
      /\ log' = Append(log, failed)
                  \o (IF over /\ ~last THEN <<Requested(run.cascade[run.at + 1])>> ELSE <<>>)

Attempt ==
  /\ run.status = "InFlight"
  /\ \E reply \in Replies : IF reply.kind = "ok" THEN Succeed(reply) ELSE Fail(reply)
  /\ UNCHANGED <<mode, config, worldVars, serverVars, chatVars>>

---------------------------------------------------------------------------
(* The environment.                                                        *)

\* The gateway writes a line, or closes the pipe.
Write(line) ==
  /\ mode = "serve" /\ ~eof /\ given < MaxLines
  /\ given' = given + 1
  /\ stdin' = Append(stdin, line)
  /\ UNCHANGED <<mode, config, worldVars, eof, received, cur, out, cache, run, log, chat>>

CloseStdin ==
  /\ mode = "serve" /\ ~eof
  /\ eof' = TRUE
  /\ UNCHANGED <<mode, config, worldVars, stdin, received, cur, out, cache, run, log, chatVars>>

\* Time passes and Ollama comes and goes.  Only the model list looks at
\* either, and only where Ollama is configured: a run in flight, or a kernel
\* without Ollama, need not be interleaved with it.
Tick ==
  /\ mode = "serve" /\ clock < MaxClock /\ run = NoRun /\ config.ollama
  /\ clock' = clock + 1
  /\ \E b \in BOOLEAN : up' = Append(up, b)
  /\ UNCHANGED <<mode, config, disk, serverVars, run, log, chatVars>>

OllamaUp == up[clock + 1]

---------------------------------------------------------------------------
(* rpc.rs: run_rpc_server and dispatch.                                    *)

Result(id, value) == [id |-> id, code |-> 0, value |-> value]
Error(id, code) == [id |-> id, code |-> code, value |-> None]

\* A blank line is skipped, a line that does not parse is answered with a
\* null id, anything else is dispatched.
ReadLine ==
  /\ mode = "serve" /\ cur = NoRequest /\ stdin # <<>>
  /\ stdin' = Tail(stdin)
  /\ LET line == Head(stdin) IN
     /\ received' = IF line.method = "blank" THEN received ELSE Append(received, line)
     /\ out' = IF line.method = "garbage" THEN Append(out, Error(0, -32700)) ELSE out
     /\ cur' = IF line.method \in {"blank", "garbage"} THEN NoRequest ELSE line
  /\ UNCHANGED <<mode, config, worldVars, eof, cache, run, log, chatVars>>

Answer(response) ==
  /\ out' = Append(out, response)
  /\ cur' = NoRequest

\* probe.rs.  A service that does not answer in time is a result, not an
\* error.
probe_url(answers) == [reachable |-> answers]

\* Directories that are not hidden and not build output, the most recently
\* modified first; connected when their .env names Opseeq.
scan_directory ==
  LET repos == {n \in DOMAIN disk : disk[n].kind = "dir" /\ ~disk[n].skipped}
      newer(a, b) == disk[a].modified > disk[b].modified
      row(n) == [name |-> n, connected |-> disk[n].env = "opseeq", mcp |-> disk[n].mcp]
      sorted == SortSeq(SetToSeq(repos), newer)
  IN  [i \in DOMAIN sorted |-> row(sorted[i])]

verify_binary(path) ==
  IF path \notin DOMAIN disk THEN [exists |-> FALSE, is_executable |-> FALSE]
  ELSE [exists |-> TRUE, is_executable |-> disk[path].kind = "exec"]

\* The methods that only look at the configuration or at the world: one
\* request, one probe or file-system visit, one response.  answers: did the
\* service asked answer (all of them, for connectivity.probe).
ImmediateResponse(req, answers) ==
  CASE req.method = "kernel.ping" -> Result(req.id, Len(config.providers))
    [] req.method = "ollama.models" ->
         IF ~config.ollama THEN Result(req.id, {})
         ELSE IF OllamaUp THEN Result(req.id, OllamaModels)
         ELSE Error(req.id, -32000)
    [] req.method \in {"mermate.probe", "synth.probe", "synth.status", "connectivity.probe"} ->
         Result(req.id, probe_url(answers))
    [] req.method = "synth.predict" ->
         IF req.arg = "" THEN Error(req.id, -32602)
         ELSE IF answers THEN Result(req.id, req.arg)
         ELSE Error(req.id, -32000)
    [] req.method = "desktop.scan" -> Result(req.id, scan_directory)
    [] req.method = "desktop.verify_binary" ->
         IF req.arg = "" THEN Error(req.id, -32602)
         ELSE Result(req.id, verify_binary(req.arg))
    [] OTHER -> Error(req.id, -32601)

Immediate ==
  /\ mode = "serve" /\ cur # NoRequest
  /\ cur.method \notin {"inference.route", "models.list"}
  /\ \E answers \in BOOLEAN : Answer(ImmediateResponse(cur, answers))
  /\ UNCHANGED <<mode, config, worldVars, stdin, eof, received, cache, run, log, chatVars>>

\* inference.route: parameters that do not parse are answered at once.
Route ==
  /\ mode = "serve" /\ cur.method = "inference.route" /\ run = NoRun
  /\ IF ~cur.valid
     THEN Answer(Error(cur.id, -32602)) /\ UNCHANGED <<run, log>>
     ELSE StartRun(cur.model, cur.purpose) /\ UNCHANGED <<cur, out>>
  /\ UNCHANGED <<mode, config, worldVars, stdin, eof, received, cache, chatVars>>

Routed ==
  /\ mode = "serve" /\ run.status \in {"Completed", "Failed"}
  /\ Answer(IF run.status = "Completed" THEN Result(cur.id, run.resp)
            ELSE Error(cur.id, error_code(run.last_err)))
  /\ run' = NoRun /\ log' = <<>>
  /\ UNCHANGED <<mode, config, worldVars, stdin, eof, received, cache, chatVars>>

\* build_model_list: the configured models, then Ollama's unless one of the
\* same id is there; a server that does not answer contributes nothing.
build_model_list ==
  LET own == list_models(config)
      ids == {own[i].id : i \in DOMAIN own}
  IN  own \o (IF config.ollama /\ OllamaUp
              THEN SetToSeq({[id |-> m, provider |-> "ollama"] : m \in OllamaModels \ ids})
              ELSE <<>>)

\* mutant: the age of the entry is not looked at
NeverExpires ==
  /\ mode = "serve" /\ cur.method = "models.list"
  /\ cache' = IF cache # NoCache THEN cache ELSE [entries |-> build_model_list, at |-> clock]
  /\ Answer(Result(cur.id, cache'.entries))
  /\ UNCHANGED <<mode, config, worldVars, stdin, eof, received, run, log, chatVars>>

\* models.list through the cache.
ListModels ==
  /\ mode = "serve" /\ cur.method = "models.list"
  /\ IF cache # NoCache /\ clock - cache.at < TTL
     THEN Answer(Result(cur.id, cache.entries)) /\ UNCHANGED cache
     ELSE /\ cache' = [entries |-> build_model_list, at |-> clock]
          /\ Answer(Result(cur.id, build_model_list))
  /\ UNCHANGED <<mode, config, worldVars, stdin, eof, received, run, log, chatVars>>

\* mutant: a read of 0 bytes is read again
SpinsAtEof ==
  /\ mode = "serve" /\ cur = NoRequest /\ eof /\ stdin = <<>>
  /\ UNCHANGED vars

\* read_line returned 0: the loop ends and the process with it.
ServerExit ==
  /\ mode = "serve" /\ cur = NoRequest /\ eof /\ stdin = <<>>
  /\ mode' = "exited"
  /\ UNCHANGED <<config, worldVars, serverVars, run, log, chatVars>>

---------------------------------------------------------------------------
(* chat.rs: the terminal shell.                                            *)

ChatModel ==
  LET forced == {i \in DOMAIN config.providers : config.providers[i].name = chat.force_provider}
      models == UNION {{Head(config.providers[i].models)} :
                         i \in {j \in forced : config.providers[j].models # <<>>}}
  IN  IF models = {} THEN chat.active_model ELSE CHOOSE m \in models : TRUE

\* mutant: the user's message does not join the history
SayAfterwards ==
  /\ StartRun(ChatModel, "hitl_chat")
  /\ UNCHANGED <<mode, disk, chat>>

\* A line that is not a command: the user's message joins the history before
\* the request is made.
Say ==
  /\ chat' = [chat EXCEPT !.messages = Append(@, [role |-> "user", turn |-> given + 1])]
  /\ StartRun(ChatModel, "hitl_chat")
  /\ UNCHANGED <<mode, disk>>

\* /organize writes .env and .mcp.json where they are missing.
organize(name) ==
  IF name \notin DOMAIN disk \/ disk[name].kind # "dir" THEN disk
  ELSE [disk EXCEPT ![name].env = IF @ = None THEN "opseeq" ELSE @,
                    ![name].mcp = TRUE]

\* Commands that ask a service and print its answer, or that it failed, and
\* commands that print what the process knows or finds on disk.
RemoteCommands == {"/mermate", "/synth", "/status", "/ollama"}
LocalCommands == {"/models", "/scan", "/verify"}
BrowseAndHelp == {"/browse", "/help"}

\* The commands that change the shell's state; an unknown one only prints.
handle_slash(input) ==
  /\ mode' = IF input.cmd \in {"/quit", "/exit", "/q"} THEN "exited" ELSE mode
  /\ chat' =
       CASE input.cmd = "/model" /\ input.model # <<>> ->
              [chat EXCEPT !.active_model = input.model, !.force_provider = None]
         [] input.cmd = "/provider" /\ input.arg = "auto" ->
              [chat EXCEPT !.force_provider = None]
         [] input.cmd = "/provider" /\ input.arg \in Names(config.providers) ->
              [chat EXCEPT !.force_provider = input.arg]
         [] input.cmd = "/clear" -> [chat EXCEPT !.messages = <<>>]
         [] input.cmd \in RemoteCommands \cup LocalCommands \cup BrowseAndHelp -> chat
         [] OTHER -> chat
  /\ disk' = IF input.cmd = "/organize" THEN organize(input.arg) ELSE disk
  /\ UNCHANGED <<run, log>>

Type(input) ==
  /\ mode = "chat" /\ run = NoRun /\ given < MaxLines
  /\ given' = given + 1
  /\ IF input.cmd = "say" THEN Say ELSE handle_slash(input)
  /\ UNCHANGED <<config, up, clock, serverVars>>

\* route_inference returned: only an answer is added to the history.
Replied ==
  /\ mode = "chat" /\ run.status \in {"Completed", "Failed"}
  /\ chat' = IF run.status = "Completed"
             THEN [chat EXCEPT !.messages = Append(@, [role |-> "assistant", turn |-> given])]
             ELSE chat
  /\ run' = NoRun /\ log' = <<>>
  /\ UNCHANGED <<mode, config, worldVars, serverVars, given>>

\* End of file or an interrupt at the prompt.
ChatExit ==
  /\ mode = "chat" /\ run = NoRun
  /\ mode' = "exited"
  /\ UNCHANGED <<config, worldVars, serverVars, run, log, chatVars>>

---------------------------------------------------------------------------
Init ==
  /\ mode \in {"serve", "chat"}
  /\ \E env \in Environments, files \in Dotenvs :
       config = load_config(try_load_dotenv(env, files))
  /\ \E b \in BOOLEAN : up = <<b /\ config.ollama>>
  /\ clock = 0 /\ disk \in Disks
  /\ stdin = <<>> /\ eof = FALSE /\ received = <<>> /\ cur = NoRequest /\ out = <<>>
  /\ run = NoRun /\ log = <<>> /\ cache = NoCache
  /\ given = 0
  /\ chat = [messages |-> <<>>, active_model |-> config.default_model, force_provider |-> None]

Serve == ReadLine \/ Immediate \/ Route \/ Routed \/ ListModels \/ ServerExit

Stopped == mode = "exited" /\ UNCHANGED vars

Next ==
  \/ Attempt
  \/ Serve
  \/ \E line \in Lines : Write(line)
  \/ CloseStdin
  \/ Tick
  \/ \E input \in Inputs : Type(input)
  \/ Replied
  \/ ChatExit
  \/ Stopped

Spec == Init /\ [][Next]_vars

\* The loop runs whenever it can, and every HTTP exchange ends: the client
\* has a timeout of 120 seconds.
FairSpec == Spec /\ WF_vars(Serve) /\ WF_vars(Attempt)

---------------------------------------------------------------------------
(* Properties.                                                             *)

TypeOK ==
  /\ mode \in {"serve", "chat", "exited"}
  /\ clock \in 0 .. MaxClock /\ Len(up) = clock + 1 /\ given \in 0 .. MaxLines
  /\ run.status \in {None, "InFlight", "Completed", "Failed"}
  /\ run.status = "InFlight" => /\ run.at \in DOMAIN run.cascade
                                /\ run.attempt \in 0 .. MAX_RETRIES_PER
  /\ \A i \in DOMAIN stdin : stdin[i] \in Lines
  /\ \A i \in DOMAIN out : out[i].code \in {0, -32000, -32001, -32002, -32003,
                                            -32601, -32602, -32700}

\* Every line that is not blank is answered exactly once, in the order of
\* the lines and with its id, and the loop ends only when all are: the
\* client matches answers to callers by id alone (rpc.rs, run_rpc_server).
AnswersInOrder ==
  /\ Len(out) = Len(received) - (IF cur = NoRequest THEN 0 ELSE 1)
  /\ \A i \in DOMAIN out : out[i].id = received[i].id
  /\ mode = "exited" => stdin = <<>> /\ cur = NoRequest

Failures(p) == {i \in DOMAIN log : log[i].ev = "ProviderFailed" /\ log[i].provider = p}

\* p was tried three times, or gave an answer that no retry can change.
Exhausted(p) ==
  \/ Cardinality(Failures(p)) = 3
  \/ /\ Cardinality(Failures(p)) \in 1 .. 2
     /\ \E i \in Failures(p) :
          log[i].class # "transient" /\ \A j \in Failures(p) : j <= i

\* A request fails only after every configured provider was tried, each of
\* them three times or until it gave an answer that no retry can change, and
\* no provider was begun twice (router.rs, route_inference).
FailsOnlyExhausted ==
  /\ run.status = "Failed" => \A p \in Names(config.providers) : Exhausted(p)
  /\ \A i, j \in DOMAIN log :
       i # j /\ log[i].ev = "InferenceRequested" /\ log[j].ev = "InferenceRequested"
       => log[i].provider # log[j].provider

\* A provider that rejected the request as such is not asked again with the
\* same request (router.rs, is_retryable).
RejectionIsFinal ==
  \A i \in DOMAIN log : log[i].ev = "ProviderFailed" /\ log[i].class = "rejected" =>
    \A j \in i + 1 .. Len(log) : log[j].ev # "QualityScored" => log[j].provider # log[i].provider

\* With the default thresholds an answer without text passes no tier, however
\* fast it came and whatever token counts it carries (compute_quality_score).
EmptyAnswerNeverPasses ==
  \A i \in DOMAIN log : log[i].ev = "QualityScored" => ~(log[i].passed /\ log[i].empty)

\* The answer to models.list shows Ollama's models as they were at some tick
\* of the last TTL: a hit is never older, a miss refreshes the time stamp,
\* and an outage is forgotten after one TTL (list_models_cached).
ModelListFresh ==
  [][cur.method = "models.list" /\ cur' = NoRequest /\ config.ollama =>
       \E t \in 0 .. clock :
         /\ clock - t < TTL
         /\ \A m \in OllamaModels \ DOMAIN config.model_map :
              up[t + 1] <=>
                \E i \in DOMAIN out'[Len(out')].value : out'[Len(out')].value[i].id = m]_vars

\* In the shell every assistant message directly follows the user message it
\* answers; a failed request leaves its question unanswered and a later
\* answer is never taken for its own (chat.rs, run_chat).
AnswersFollowQuestions ==
  LET ms == chat.messages IN
  /\ \A i \in DOMAIN ms : ms[i].role = "assistant" =>
       i > 1 /\ ms[i - 1] = [role |-> "user", turn |-> ms[i].turn]
  /\ run # NoRun /\ mode = "chat" =>
       ms # <<>> /\ ms[Len(ms)] = [role |-> "user", turn |-> given]

\* Every line the gateway writes is read and answered, and a closed pipe ends
\* the process.
EveryLineServed ==
  /\ (stdin # <<>> \/ cur # NoRequest) ~> (stdin = <<>> /\ cur = NoRequest)
  /\ (mode = "serve" /\ eof) ~> (mode = "exited")

\* The cascade is honest about its providers: failure only when all of them
\* are used up, no provider asked again after a rejection, no empty answer
\* passed for a good one (router.rs).
CascadeIsHonest == FailsOnlyExhausted /\ RejectionIsFinal /\ EmptyAnswerNeverPasses

\* Replies are told apart only by where they stand: in the server one per
\* line, in order and with its id; in the shell each after its own question.
RepliesFollowRequests == TypeOK /\ AnswersInOrder /\ AnswersFollowQuestions
=============================================================================
