------------------------------ MODULE PromptLab ------------------------------
(***************************************************************************)
(* One browser session of the prompt lab: a click runs the prompt against  *)
(* an OpenAI-style API, with or without the loop of tool calls, and puts   *)
(* the result in front of the session's history.                           *)
(*                                                                         *)
(* messages is one Python list, appended to in place and referred to by    *)
(* every request payload.  A step of the trace with tool calls keeps a     *)
(* deep copy of its payload, taken when the replies have been appended;    *)
(* the step with the final answer keeps, in a run with tools, the payload  *)
(* itself, which nothing is appended to any more.                          *)
(*                                                                         *)
(* Abstracted: texts, settings and latency; a response to its token count  *)
(* and its tool calls; the data a tool returns.                            *)
(***************************************************************************)
EXTENDS Integers, Sequences, SequencesExt, FiniteSets

CONSTANTS
    Null,
    Files,          \* bound: dataset files tried
    Responses,      \* bound: responses of the API tried
    MaxIterations,  \* max_tool_iterations
    MaxHistory,     \* results kept, 30 in the code
    MaxRuns         \* bound: clicks on "Run prompt"

\* A dataset file: its root, and the values of "tools" and "adviceData.tools".
Value == {"absent", "no object", "valid", "invalid"}
File == [root: {"unreadable", "no object", "object"}, tools: Value, advice: Value]

\* usage is a token count, or absent, or no number; calls are the tool calls.
Call == [id: Nat, tool: {"known", "unknown"}, arguments: {"object", "broken"}]
Response == [usage: {"number", "absent", "no number"}, tokens: Nat,
             message: BOOLEAN, calls: Seq(Call)]

ASSUME PromptLabAssumption ==
    /\ Files \subseteq File
    /\ Responses \subseteq Response
    /\ MaxIterations \in Nat \ {0} /\ MaxHistory \in Nat \ {0} /\ MaxRuns \in Nat

VARIABLES
    run,       \* the locals of DeepSeekClient.run, or Null
    history,   \* run_history: results, newest first
    clicks,
    last       \* history: the result of the last run, with what was sent and received

vars == <<run, history, clicks, last>>

-----------------------------------------------------------------------------
(* parse_dataset.                                                          *)

\* _extract_tools_payload: adviceData only where "tools" is no object.
Tools(file) ==
    IF file.tools \in {"valid", "invalid"} THEN file.tools ELSE file.advice

\* load_dataset_controls hands over a dataset.
Loaded(file) == file.root = "object" /\ Tools(file) = "valid"

-----------------------------------------------------------------------------
Prompt == [role |-> "user", ids |-> <<>>]
Assistant(calls) == [role |-> "assistant", ids |-> [i \in DOMAIN calls |-> calls[i].id]]
ToolReply(call) == [role |-> "tool", ids |-> <<call.id>>]

Init == run = Null /\ history = <<>> /\ clicks = 0 /\ last = Null

NewRun(tools) ==
    [tools |-> tools, pc |-> "request", messages |-> <<Prompt>>, calls |-> <<>>,
     steps |-> <<>>, usage |-> 0, iteration |-> 1, sent |-> <<>>, received |-> <<>>]

\* add_run_to_history.
Recorded(result) ==
    LET all == <<result>> \o history IN
    SubSeq(all, 1, IF Len(all) < MaxHistory THEN Len(all) ELSE MaxHistory)

\* A RunResult: what the trace and the token count were when the run ended.
Finish(r, status) ==
    LET result == [status |-> status, steps |-> r.steps, tokens |-> r.usage] IN
    /\ run' = Null
    /\ history' = Recorded(result)
    /\ last' = [result |-> result, tools |-> r.tools, sent |-> r.sent,
                received |-> r.received]

\* "Run prompt": run_prompt without an API key, or with tools but no dataset,
\* ends at once.
Click(key, tools, file) ==
    /\ run = Null /\ clicks < MaxRuns
    /\ clicks' = clicks + 1
    /\ IF key /\ (tools => Loaded(file))
       THEN run' = NewRun(tools) /\ UNCHANGED <<history, last>>
       ELSE Finish(NewRun(tools), "error")

\* _call_api throws: transport, HTTP status, or no JSON object.
CallFails ==
    /\ run # Null /\ run.pc = "request"
    /\ Finish([run EXCEPT !.sent = Append(@, run.messages)], "error")
    /\ UNCHANGED clicks

\* Mutant: tokens are added up after the message has been extracted.
AccumulateLater(usage, response) ==
    IF response.usage = "number" /\ response.message
    THEN usage + response.tokens ELSE usage

\* _accumulate_usage; no number throws.
Accumulate(usage, response) ==
    IF response.usage = "number" THEN usage + response.tokens ELSE usage

\* A response: an error, the final answer, or tool calls to be made.
Receive(response) ==
    LET r == [run EXCEPT !.sent = Append(@, run.messages),
                         !.received = Append(@, response),
                         !.usage = Accumulate(@, response)]
    IN
    /\ run # Null /\ run.pc = "request"
    /\ \/ /\ response.usage = "no number" \/ ~response.message
          /\ Finish(r, "error")
       \/ /\ response.usage # "no number" /\ response.message
          /\ ~run.tools \/ response.calls = <<>>
          /\ Finish([r EXCEPT !.steps = Append(@, [request |-> run.messages, calls |-> 0])],
                    "success")
       \/ /\ response.usage # "no number" /\ response.message
          /\ run.tools /\ response.calls # <<>>
          /\ run' = [r EXCEPT !.pc = "tools", !.calls = response.calls,
                              !.messages = Append(@, Assistant(response.calls))]
          /\ UNCHANGED <<history, last>>
    /\ UNCHANGED clicks

\* Mutant: a tool that throws is left without a reply.
ExecuteToolUnanswered ==
    /\ run # Null /\ run.pc = "tools" /\ run.calls # <<>>
    /\ Head(run.calls).arguments = "object"
    /\ run' = [run EXCEPT !.calls = Tail(@),
                  !.messages = IF Head(run.calls).tool = "unknown" THEN @
                               ELSE Append(@, ToolReply(Head(run.calls)))]
    /\ UNCHANGED <<history, clicks, last>>

\* execute_tool: its result, or its error, is the reply.
ExecuteTool ==
    /\ run # Null /\ run.pc = "tools" /\ run.calls # <<>>
    /\ Head(run.calls).arguments = "object"
    /\ run' = [run EXCEPT !.calls = Tail(@),
                          !.messages = Append(@, ToolReply(Head(run.calls)))]
    /\ UNCHANGED <<history, clicks, last>>

\* _parse_tool_arguments is outside the try: the run ends without this step.
ArgumentsBroken ==
    /\ run # Null /\ run.pc = "tools" /\ run.calls # <<>>
    /\ Head(run.calls).arguments = "broken"
    /\ Finish(run, "error")
    /\ UNCHANGED clicks

Calls == Len(Last(run.received).calls)

\* Mutant: the trace refers to the live list.
StepEndsAliased ==
    LET steps == Append(run.steps, [request |-> run.messages, calls |-> Calls])
        r == [run EXCEPT !.steps = [k \in DOMAIN steps |->
                                       [steps[k] EXCEPT !.request = run.messages]]]
    IN
    /\ run # Null /\ run.pc = "tools" /\ run.calls = <<>>
    /\ IF run.iteration = MaxIterations THEN Finish(r, "error")
       ELSE /\ run' = [r EXCEPT !.pc = "request", !.iteration = @ + 1]
            /\ UNCHANGED <<history, last>>
    /\ UNCHANGED clicks

\* Every call has its reply: the step is traced; the last iteration gives up.
StepEnds ==
    LET r == [run EXCEPT !.steps = Append(@, [request |-> run.messages, calls |-> Calls])]
    IN
    /\ run # Null /\ run.pc = "tools" /\ run.calls = <<>>
    /\ IF run.iteration = MaxIterations THEN Finish(r, "error")
       ELSE /\ run' = [r EXCEPT !.pc = "request", !.iteration = @ + 1]
            /\ UNCHANGED <<history, last>>
    /\ UNCHANGED clicks

Next ==
    \/ \E key, tools \in BOOLEAN, file \in Files : Click(key, tools, file)
    \/ CallFails
    \/ \E response \in Responses : Receive(response)
    \/ ExecuteTool \/ ArgumentsBroken \/ StepEnds

Spec == Init /\ [][Next]_vars

-----------------------------------------------------------------------------
\* The trace: its steps are the requests in the order they were sent, at most
\* the last one is missing, and although the list goes on growing under the
\* payloads no step shows a message of a later one.  The payload of a step with
\* tool calls is not the one that was sent (see TraceShowsRequests): the copy
\* has the step's own calls and replies behind it, as the next request had.
TraceStopsAtItsStep ==
    last # Null =>
        LET steps == last.result.steps  sent == last.sent IN
        /\ Len(sent) - Len(steps) \in 0 .. 1
        /\ \A k \in DOMAIN steps :
              /\ IsPrefix(sent[k], steps[k].request)
              /\ Len(steps[k].request) - Len(sent[k]) =
                    IF steps[k].calls = 0 THEN 0 ELSE 1 + steps[k].calls
              /\ k < Len(sent) => steps[k].request = sent[k + 1]

\* The README's claim, that the trace has the request payloads: every step shows
\* the messages as they were sent.  Violated: see TraceStopsAtItsStep.
TraceShowsRequests ==
    last # Null =>
        \A k \in DOMAIN last.result.steps :
            last.result.steps[k].request = last.sent[k]

\* In every request an assistant message with tool calls is followed at once by
\* one reply per call, in their order; the API refuses anything else, so a tool
\* that throws must be answered too.
RepliesFollowCalls ==
    last # Null =>
        \A k \in DOMAIN last.sent : LET messages == last.sent[k] IN
            \A i \in DOMAIN messages : messages[i].role = "assistant" =>
                /\ i + Len(messages[i].ids) <= Len(messages)
                /\ \A j \in DOMAIN messages[i].ids :
                      messages[i + j] = [role |-> "tool", ids |-> <<messages[i].ids[j]>>]

Tokens(response) == IF response.usage = "number" THEN response.tokens ELSE 0

Spent(received) ==
    LET spent[n \in 0 .. Len(received)] ==
            IF n = 0 THEN 0 ELSE spent[n - 1] + Tokens(received[n])
    IN  spent[Len(received)]

\* What a run costs: the tokens are those of every response received, also of
\* the one that made the run fail.
TokensAreCounted == last # Null => last.result.tokens = Spent(last.received)

\* How a run ends: the API is asked at most MaxIterations times, once without
\* tools; success means that the last request was answered, and finally; and
\* the result is the first one in the history.
EndsAsReceived ==
    last # Null =>
        LET final(r) == /\ r.message /\ r.usage # "no number"
                        /\ last.tools => r.calls = <<>>
        IN /\ Len(last.sent) <= IF last.tools THEN MaxIterations ELSE 1
           /\ (last.result.status = "success") <=>
                 /\ last.received # <<>> /\ final(Last(last.received))
                 /\ Len(last.received) = Len(last.sent)
           /\ history[1] = last.result

\* The result of a run is whole, however it ended: its cost, its status, and its
\* place in the history.
ResultIsWhole == TokensAreCounted /\ EndsAsReceived
=============================================================================
