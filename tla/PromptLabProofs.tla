--------------------------- MODULE PromptLabProofs ---------------------------
(***************************************************************************)
(* What a run of the prompt lab guarantees for every list of tool calls,   *)
(* every response of the API and every limit: the trace, the order of      *)
(* calls and replies, what it costs, and how it ends.                      *)
(***************************************************************************)
EXTENDS PromptLab, SequenceTheorems, WellFoundedInduction, TLAPS

Message == [role: {"user", "assistant", "tool"}, ids: Seq(Nat)]
Step == [request: Seq(Message), calls: Nat]
Result == [status: {"error", "success"}, steps: Seq(Step), tokens: Nat]

Run == [tools: BOOLEAN, pc: {"request", "tools"}, messages: Seq(Message),
        calls: Seq(Call), steps: Seq(Step), usage: Nat, iteration: Nat,
        sent: Seq(Seq(Message)), received: Seq(Response)]

Typed == (run # Null => run \in Run) /\ history \in Seq(Result)

-----------------------------------------------------------------------------
(* The invariant of a run in progress.                                     *)

\* A step from one request to the next: its calls and their replies.
Links(step, from, to) ==
    /\ IsPrefix(from, step.request)
    /\ Len(step.request) - Len(from) = 1 + step.calls
    /\ step.calls # 0
    /\ step.request = to

\* The steps behind it: next is the list as it is now.
Traced(steps, sent, next) ==
    \A k \in 1 .. Len(steps) :
        Links(steps[k], sent[k], IF k < Len(sent) THEN sent[k + 1] ELSE next)

\* Every assistant message is followed by the replies to its calls.
Replied(messages) ==
    \A i \in DOMAIN messages : messages[i].role = "assistant" =>
        /\ i + Len(messages[i].ids) <= Len(messages)
        /\ \A j \in DOMAIN messages[i].ids :
              messages[i + j] = [role |-> "tool", ids |-> <<messages[i].ids[j]>>]

Counted(r) ==
    /\ Len(r.received) = Len(r.sent)
    /\ Len(r.steps) = r.iteration - 1
    /\ Len(r.sent) = IF r.pc = "request" THEN r.iteration - 1 ELSE r.iteration
    /\ r.iteration \in 1 .. MaxIterations
    /\ ~r.tools => r.pc = "request" /\ r.iteration = 1

\* In the loop over the calls: the list is what was sent, the calls asked for,
\* and the replies to those that are done.
Replying(r) ==
    LET asked == Last(r.received).calls
        sent == Last(r.sent)
        done == Len(asked) - Len(r.calls) IN
    /\ asked # <<>> /\ done \in 0 .. Len(asked)
    /\ \A j \in 1 .. Len(r.calls) : r.calls[j] = asked[done + j]
    /\ Len(r.messages) = Len(sent) + 1 + done
    /\ \A i \in 1 .. Len(sent) : r.messages[i] = sent[i]
    /\ r.messages[Len(sent) + 1] = Assistant(asked)
    /\ \A j \in 1 .. done : r.messages[Len(sent) + 1 + j] = ToolReply(asked[j])

Sound(r) ==
    /\ Counted(r)
    /\ Traced(r.steps, r.sent, r.messages)
    /\ \A k \in 1 .. Len(r.sent) : Replied(r.sent[k])
    /\ r.pc = "request" => Replied(r.messages)
    /\ r.pc = "tools" => Replying(r)

Lab == /\ Typed
       /\ run # Null => Sound(run)
       /\ TraceStopsAtItsStep /\ RepliesFollowCalls /\ EndsAsReceived

-----------------------------------------------------------------------------
(* Messages and prefixes.                                                  *)

LEMMA MessageTypes ==
    /\ Prompt \in Message /\ Prompt.role = "user"
    /\ \A calls \in Seq(Call) :
          /\ Assistant(calls) \in Message
          /\ Assistant(calls).role = "assistant"
          /\ Len(Assistant(calls).ids) = Len(calls)
          /\ \A j \in 1 .. Len(calls) : Assistant(calls).ids[j] = calls[j].id
    /\ \A call \in Call : ToolReply(call) \in Message /\ ToolReply(call).role = "tool"
<1>1. Prompt \in Message /\ Prompt.role = "user"
  BY DEF Prompt, Message
<1>2. ASSUME NEW calls \in Seq(Call)
      PROVE  /\ Assistant(calls) \in Message
             /\ Assistant(calls).role = "assistant"
             /\ Len(Assistant(calls).ids) = Len(calls)
             /\ \A j \in 1 .. Len(calls) : Assistant(calls).ids[j] = calls[j].id
  <2> DEFINE ids == [i \in DOMAIN calls |-> calls[i].id]
  <2>1. DOMAIN calls = 1 .. Len(calls) /\ Len(calls) \in Nat
    BY <1>2
  <2>2. \A i \in 1 .. Len(calls) : calls[i].id \in Nat
    <3>1. \A i \in 1 .. Len(calls) : calls[i] \in Call
      BY <1>2, <2>1
    <3> QED
      BY <3>1 DEF Call
  <2>3. ids \in [1 .. Len(calls) -> Nat]
    BY <2>1, <2>2
  <2>4. ids \in Seq(Nat) /\ Len(ids) = Len(calls)
    BY <2>1, <2>3
  <2> QED
    BY <2>1, <2>4 DEF Assistant, Message
<1>3. ASSUME NEW call \in Call
      PROVE  ToolReply(call) \in Message /\ ToolReply(call).role = "tool"
  BY <1>3 DEF ToolReply, Message, Call
<1> QED
  BY <1>1, <1>2, <1>3

LEMMA PrefixByElements ==
    ASSUME NEW s \in Seq(Message), NEW t \in Seq(Message), Len(s) <= Len(t),
           \A i \in 1 .. Len(s) : t[i] = s[i]
    PROVE  IsPrefix(s, t)
<1>1. SubSeq(s, 1, Len(s)) = s
  BY SubSeqFull
<1>2. /\ SubSeq(t, 1, Len(s)) \in Seq(Message)
      /\ Len(SubSeq(t, 1, Len(s))) = Len(s)
      /\ \A i \in 1 .. Len(s) : SubSeq(t, 1, Len(s))[i] = t[i]
  BY Z3
<1>3. SubSeq(t, 1, Len(s)) = s
  BY <1>2
<1> QED
  BY <1>1, <1>3 DEF IsPrefix

\* A list that ends with an assistant message and all its replies.
LEMMA RepliedByAll ==
    ASSUME NEW s \in Seq(Message), Replied(s), NEW calls \in Seq(Call),
           NEW t \in Seq(Message), Len(t) = Len(s) + 1 + Len(calls),
           \A i \in 1 .. Len(s) : t[i] = s[i],
           t[Len(s) + 1] = Assistant(calls),
           \A j \in 1 .. Len(calls) : t[Len(s) + 1 + j] = ToolReply(calls[j])
    PROVE  Replied(t) /\ IsPrefix(s, t)
<1>1. Len(s) \in Nat /\ Len(calls) \in Nat /\ Len(t) \in Nat
  OBVIOUS
<1>2. ASSUME NEW i \in 1 .. Len(t), t[i].role = "assistant"
      PROVE  /\ i + Len(t[i].ids) <= Len(t)
             /\ \A j \in DOMAIN t[i].ids :
                   t[i + j] = [role |-> "tool", ids |-> <<t[i].ids[j]>>]
  <2>1. CASE i \in 1 .. Len(s)
    <3>1. t[i] = s[i] /\ s[i] \in Message
      BY <2>1
    <3>2. /\ i + Len(s[i].ids) <= Len(s)
          /\ \A j \in DOMAIN s[i].ids :
                s[i + j] = [role |-> "tool", ids |-> <<s[i].ids[j]>>]
      BY <1>2, <2>1, <3>1 DEF Replied
    <3>3. s[i].ids \in Seq(Nat)
      BY <3>1 DEF Message
    <3>4. \A j \in DOMAIN s[i].ids : i + j \in 1 .. Len(s)
      BY <1>1, <2>1, <3>2, <3>3, SMTT(30)
    <3>5. \A j \in DOMAIN s[i].ids : t[i + j] = s[i + j]
      BY <3>4
    <3>6. i + Len(s[i].ids) <= Len(t)
      BY <1>1, <2>1, <3>2, <3>3
    <3> QED
      BY <3>1, <3>2, <3>5, <3>6
  <2>2. CASE i = Len(s) + 1
    <3> DEFINE a == Assistant(calls)
    <3>1. /\ t[i] = a /\ a \in Message /\ Len(a.ids) = Len(calls)
          /\ \A j \in 1 .. Len(calls) : a.ids[j] = calls[j].id
      BY <2>2, MessageTypes
    <3> HIDE DEF a
    <3>2. DOMAIN a.ids = 1 .. Len(calls)
      BY <3>1 DEF Message
    <3>3. \A j \in 1 .. Len(calls) :
              t[i + j] = [role |-> "tool", ids |-> <<a.ids[j]>>]
      BY <1>1, <2>2, <3>1 DEF ToolReply
    <3>4. i + Len(a.ids) <= Len(t)
      BY <1>1, <2>2, <3>1
    <3> QED
      BY <3>1, <3>2, <3>3, <3>4
  <2>3. CASE i > Len(s) + 1
    <3> DEFINE j == i - (Len(s) + 1)
    <3>1. j \in 1 .. Len(calls) /\ i = Len(s) + 1 + j
      BY <1>1, <2>3
    <3> HIDE DEF j
    <3>2. t[i] = ToolReply(calls[j]) /\ calls[j] \in Call
      BY <3>1
    <3>3. t[i].role = "tool"
      BY <3>2, MessageTypes
    <3> QED
      BY <1>2, <3>3
  <2> QED
    BY <1>1, <2>1, <2>2, <2>3
<1> QED
  BY <1>1, <1>2, PrefixByElements, SMTT(30) DEF Replied

-----------------------------------------------------------------------------
(* A run that ends.                                                        *)

LEMMA HistoryType ==
    ASSUME history \in Seq(Result), NEW result \in Result
    PROVE  Recorded(result) \in Seq(Result) /\ Recorded(result)[1] = result
<1> DEFINE all == <<result>> \o history
           n == IF Len(all) < MaxHistory THEN Len(all) ELSE MaxHistory
<1>1. /\ all \in Seq(Result) /\ Len(all) = 1 + Len(history) /\ Len(history) \in Nat
      /\ all[1] = result
  OBVIOUS
<1>2. n \in 1 .. Len(all)
  <2> HIDE DEF all
  <2> QED
    BY <1>1, PromptLabAssumption
<1> HIDE DEF all, n
<1>3. /\ SubSeq(all, 1, n) \in Seq(Result)
      /\ \A i \in 1 .. n : SubSeq(all, 1, n)[i] = all[i]
  BY <1>1, <1>2, Z3
<1>4. SubSeq(all, 1, n)[1] = result
  BY <1>1, <1>2, <1>3
<1> QED
  BY <1>3, <1>4 DEF Recorded, all, n

Shown(steps, sent) ==
    /\ Len(sent) - Len(steps) \in 0 .. 1
    /\ \A k \in DOMAIN steps :
          /\ IsPrefix(sent[k], steps[k].request)
          /\ Len(steps[k].request) - Len(sent[k]) =
                IF steps[k].calls = 0 THEN 0 ELSE 1 + steps[k].calls
          /\ k < Len(sent) => steps[k].request = sent[k + 1]

Final(r) == LET response == Last(r.received) IN
            /\ response.message /\ response.usage # "no number"
            /\ r.tools => response.calls = <<>>

Ended(r, status) ==
    /\ Len(r.sent) <= IF r.tools THEN MaxIterations ELSE 1
    /\ (status = "success") <=>
          r.received # <<>> /\ Final(r) /\ Len(r.received) = Len(r.sent)

LEMMA FinishStep ==
    ASSUME Typed, NEW r \in Run, NEW status \in {"error", "success"},
           Finish(r, status), Shown(r.steps, r.sent),
           \A k \in 1 .. Len(r.sent) : Replied(r.sent[k]),
           Ended(r, status)
    PROVE  Lab'
<1> DEFINE result == [status |-> status, steps |-> r.steps, tokens |-> r.usage]
           end == [result |-> result, tools |-> r.tools, sent |-> r.sent,
                   received |-> r.received]
<1>1. run' = Null /\ history' = Recorded(result) /\ last' = end
  BY DEF Finish
<1>2. result \in Result /\ r.sent \in Seq(Seq(Message))
  BY DEF Result, Run
<1>3. /\ history' \in Seq(Result) /\ history'[1] = result
  BY <1>1, <1>2, HistoryType DEF Typed
<1>4. /\ end.result = result /\ end.tools = r.tools /\ end.sent = r.sent
      /\ end.received = r.received
      /\ result.steps = r.steps /\ result.status = status
  OBVIOUS
<1> HIDE DEF result, end
<1>5. TraceStopsAtItsStep'
  BY <1>1, <1>4 DEF TraceStopsAtItsStep, Shown
<1>6. RepliesFollowCalls'
  <2>1. DOMAIN r.sent = 1 .. Len(r.sent)
    BY <1>2
  <2>2. last'.sent = r.sent
    BY <1>1, <1>4
  <2>3. \A k \in DOMAIN r.sent : Replied(r.sent[k])
    BY <2>1
  <2>4. \A k \in DOMAIN last'.sent : Replied(last'.sent[k])
    BY <2>2, <2>3
  <2> QED
    BY <2>4 DEF RepliesFollowCalls, Replied
<1>7. EndsAsReceived'
  BY <1>1, <1>3, <1>4 DEF EndsAsReceived, Ended, Final
<1> QED
  BY <1>1, <1>3, <1>5, <1>6, <1>7 DEF Lab, Typed

\* A step within a run.
LEMMA GoOn ==
    ASSUME Lab, UNCHANGED <<history, last>>, run' \in Run, Sound(run')
    PROVE  Lab'
BY DEF Lab, Typed, Sound, Counted, Traced, Links, Replying, Replied, TraceStopsAtItsStep,
       RepliesFollowCalls, EndsAsReceived

\* The steps of a run in progress are a trace of it.
LEMMA TracedIsShown ==
    ASSUME NEW r \in Run, Sound(r)
    PROVE  Shown(r.steps, r.sent)
<1>1. /\ Len(r.steps) \in Nat /\ Len(r.sent) \in Nat
      /\ r.steps \in Seq(Step) /\ DOMAIN r.steps = 1 .. Len(r.steps)
  BY DEF Run
<1>2. Len(r.sent) - Len(r.steps) \in 0 .. 1
  BY DEF Sound, Counted, Run
<1> QED
  BY <1>1, <1>2 DEF Sound, Traced, Links, Shown

-----------------------------------------------------------------------------
(* The steps of a run.                                                     *)

\* The trace of a run whose next request is out.
LEMMA ClickStep ==
    ASSUME Lab, NEW key \in BOOLEAN, NEW tools \in BOOLEAN, NEW file \in Files,
           Click(key, tools, file)
    PROVE  Lab'
<1> DEFINE r == NewRun(tools)
<1>1. /\ r.tools = tools /\ r.pc = "request" /\ r.messages = <<Prompt>>
      /\ r.steps = <<>> /\ r.iteration = 1 /\ r.sent = <<>> /\ r.received = <<>>
  BY DEF NewRun
<1>2. <<Prompt>> \in Seq(Message) /\ <<Prompt>>[1].role = "user"
  BY MessageTypes
<1>3. r \in Run
  BY <1>2 DEF NewRun, Run
<1>4. Replied(<<Prompt>>)
  BY <1>2 DEF Replied
<1> HIDE DEF r
<1>5. Sound(r)
  BY <1>1, <1>4, PromptLabAssumption DEF Sound, Counted, Traced
<1>6. CASE run' = r /\ UNCHANGED <<history, last>>
  BY <1>3, <1>5, <1>6, GoOn
<1>7. CASE Finish(r, "error")
  <2>1. Ended(r, "error")
    BY <1>1, PromptLabAssumption DEF Ended
  <2>2. Shown(r.steps, r.sent)
    BY <1>3, <1>5, TracedIsShown
  <2>3. \A k \in 1 .. Len(r.sent) : Replied(r.sent[k])
    BY <1>5 DEF Sound
  <2>4. Typed
    BY DEF Lab
  <2> QED
    BY <1>3, <1>7, <2>1, <2>2, <2>3, <2>4, FinishStep
<1> QED
  BY <1>6, <1>7 DEF Click, r

\* A request is out.
LEMMA SentIsTraced ==
    ASSUME NEW r \in Run, Sound(r), r.pc = "request", NEW n \in Nat, n = Len(r.sent),
           NEW sent \in Seq(Seq(Message)), Len(sent) = n + 1, sent[n + 1] = r.messages,
           \A k \in 1 .. n : sent[k] = r.sent[k]
    PROVE  /\ Shown(r.steps, sent)
           /\ \A next : Traced(r.steps, sent, next)
           /\ \A k \in 1 .. Len(sent) : Replied(sent[k])
<1> DEFINE old == r.sent
           steps == r.steps
           now == r.messages
<1>1. /\ old \in Seq(Seq(Message)) /\ steps \in Seq(Step)
      /\ Len(old) = n /\ Len(steps) = n
      /\ \A k \in 1 .. n : sent[k] = old[k]
      /\ sent[n + 1] = now
  BY DEF Sound, Counted, Run
<1>2. /\ Traced(steps, old, now) /\ Replied(now)
      /\ \A k \in 1 .. n : Replied(old[k])
  BY DEF Sound
<1>3. /\ Shown(steps, sent)
      /\ \A next : Traced(steps, sent, next)
      /\ \A k \in 1 .. Len(sent) : Replied(sent[k])
  <2> HIDE DEF old, steps, now
  <2>1. DOMAIN steps = 1 .. n
    BY <1>1
  <2>2. ASSUME NEW k \in 1 .. n
        PROVE  Links(steps[k], sent[k], sent[k + 1])
    <3>1. Links(steps[k], old[k], IF k < n THEN old[k + 1] ELSE now)
      BY <1>1, <1>2 DEF Traced
    <3>2. sent[k] = old[k]
      BY <1>1
    <3>3. CASE k < n
      <4>1. k + 1 \in 1 .. n
        BY <3>3
      <4>2. sent[k + 1] = old[k + 1]
        BY <1>1, <4>1
      <4> QED
        BY <3>1, <3>2, <3>3, <4>2
    <3>4. CASE k = n
      BY <1>1, <3>1, <3>2, <3>4
    <3> QED
      BY <3>3, <3>4
  <2>3. Shown(steps, sent)
    <3>1. Len(sent) - Len(steps) \in 0 .. 1
      BY <1>1
    <3>2. ASSUME NEW k \in 1 .. n
          PROVE  /\ IsPrefix(sent[k], steps[k].request)
                 /\ Len(steps[k].request) - Len(sent[k])
                      = IF steps[k].calls = 0 THEN 0 ELSE 1 + steps[k].calls
                 /\ steps[k].request = sent[k + 1]
      BY <2>2 DEF Links
    <3> QED
      BY <1>1, <2>1, <3>1, <3>2 DEF Shown
  <2>4. ASSUME NEW next PROVE Traced(steps, sent, next)
    <3>1. ASSUME NEW k \in 1 .. n
          PROVE  Links(steps[k], sent[k], IF k < n + 1 THEN sent[k + 1] ELSE next)
      <4>1. k < n + 1
        BY <1>1
      <4> QED
        BY <2>2, <4>1
    <3> QED
      BY <1>1, <3>1 DEF Traced
  <2>5. \A k \in 1 .. Len(sent) : Replied(sent[k])
    <3> SUFFICES ASSUME NEW k \in 1 .. n + 1 PROVE Replied(sent[k])
      BY <1>1
    <3>1. CASE k = n + 1
      BY <1>1, <1>2, <3>1
    <3>2. CASE k \in 1 .. n
      BY <1>1, <1>2, <3>2
    <3> QED
      BY <3>1, <3>2
  <2> QED
    BY <2>3, <2>4, <2>5
<1> QED
  BY <1>3

LEMMA RequestSent ==
    ASSUME NEW r \in Run, Sound(r), r.pc = "request",
           NEW sent, sent = Append(r.sent, r.messages)
    PROVE  /\ sent \in Seq(Seq(Message)) /\ Len(sent) = r.iteration
           /\ Last(sent) = r.messages
           /\ Shown(r.steps, sent)
           /\ \A next : Traced(r.steps, sent, next)
           /\ \A k \in 1 .. Len(sent) : Replied(sent[k])
<1> DEFINE n == Len(r.sent)
<1>1. r.sent \in Seq(Seq(Message)) /\ n \in Nat /\ r.messages \in Seq(Message)
  BY DEF Run
<1>2. /\ sent \in Seq(Seq(Message)) /\ Len(sent) = n + 1 /\ sent[n + 1] = r.messages
      /\ \A k \in 1 .. n : sent[k] = r.sent[k]
  BY <1>1
<1>3. n = r.iteration - 1 /\ r.iteration \in Nat
  BY DEF Sound, Counted, Run
<1>4. /\ Shown(r.steps, sent)
      /\ \A next : Traced(r.steps, sent, next)
      /\ \A k \in 1 .. Len(sent) : Replied(sent[k])
  BY <1>1, <1>2, SentIsTraced
<1>5. Len(sent) = r.iteration /\ Last(sent) = r.messages
  BY <1>1, <1>2, <1>3 DEF Last
<1> QED
  BY <1>2, <1>4, <1>5

LEMMA CallFailsStep ==
    ASSUME Lab, CallFails
    PROVE  Lab'
<1> DEFINE sent == Append(run.sent, run.messages)
           r == [run EXCEPT !.sent = Append(@, run.messages)]
<1>1. run \in Run /\ Sound(run) /\ run.pc = "request" /\ Finish(r, "error") /\ Typed
  BY DEF CallFails, Lab, Typed
<1>2. PICK s : s = sent
  OBVIOUS
<1>3. /\ s \in Seq(Seq(Message)) /\ Len(s) = run.iteration /\ Shown(run.steps, s)
      /\ \A k \in 1 .. Len(s) : Replied(s[k])
  BY <1>1, <1>2, RequestSent
<1>4. /\ r.tools = run.tools /\ r.steps = run.steps /\ r.received = run.received
      /\ r.sent = s /\ r \in Run
  BY <1>1, <1>2, <1>3 DEF Run
<1>5. /\ run.iteration \in 1 .. MaxIterations /\ (~run.tools => run.iteration = 1)
      /\ Len(run.received) # Len(s)
  BY <1>1, <1>3 DEF Sound, Counted, Run
<1> HIDE DEF r
<1>6. Ended(r, "error")
  BY <1>3, <1>4, <1>5, PromptLabAssumption DEF Ended
<1> QED
  BY <1>1, <1>3, <1>4, <1>6, FinishStep

\* The trace with the step of the last request.
LEMMA ShownAppend ==
    ASSUME NEW steps \in Seq(Step), NEW sent \in Seq(Seq(Message)), NEW step \in Step,
           NEW n \in Nat, Len(steps) = n, Len(sent) = n + 1, Shown(steps, sent),
           IsPrefix(Last(sent), step.request),
           Len(step.request) - Len(Last(sent)) =
              IF step.calls = 0 THEN 0 ELSE 1 + step.calls
    PROVE  Append(steps, step) \in Seq(Step) /\ Shown(Append(steps, step), sent)
<1> DEFINE all == Append(steps, step)
<1>1. /\ all \in Seq(Step) /\ Len(all) = n + 1 /\ all[n + 1] = step
      /\ \A k \in 1 .. n : all[k] = steps[k]
      /\ DOMAIN all = 1 .. n + 1 /\ DOMAIN steps = 1 .. n
  OBVIOUS
<1> HIDE DEF all
<1>2. sent[n + 1] = Last(sent)
  BY DEF Last
<1>3. ASSUME NEW k \in 1 .. n + 1
      PROVE  /\ IsPrefix(sent[k], all[k].request)
             /\ Len(all[k].request) - Len(sent[k]) =
                   IF all[k].calls = 0 THEN 0 ELSE 1 + all[k].calls
             /\ k < Len(sent) => all[k].request = sent[k + 1]
  <2>1. CASE k = n + 1
    <3>1. all[k] = step /\ sent[k] = Last(sent) /\ ~(k < Len(sent))
      BY <1>1, <1>2, <2>1
    <3> QED
      BY <3>1
  <2>2. CASE k \in 1 .. n
    <3>1. all[k] = steps[k] /\ k \in DOMAIN steps
      BY <1>1, <2>2
    <3> QED
      BY <3>1 DEF Shown
  <2> QED
    BY <2>1, <2>2
<1>4. Len(sent) - Len(all) \in 0 .. 1
  BY <1>1
<1> QED
  BY <1>1, <1>3, <1>4 DEF Shown, all

LEMMA PrefixOfItself ==
    ASSUME NEW s \in Seq(Message)
    PROVE  IsPrefix(s, s) /\ Len(s) - Len(s) = 0
BY DEF IsPrefix

LEMMA ReceiveStep ==
    ASSUME Lab, NEW response \in Responses, Receive(response)
    PROVE  Lab'
<1> DEFINE r == [run EXCEPT !.sent = Append(@, run.messages),
                            !.received = Append(@, response),
                            !.usage = Accumulate(@, response)]
<1>1. /\ run \in Run /\ Sound(run) /\ run.pc = "request" /\ Typed
      /\ response \in Response
  BY PromptLabAssumption DEF Receive, Lab, Typed
<1>2. PICK s : s = Append(run.sent, run.messages)
  OBVIOUS
<1>3. /\ s \in Seq(Seq(Message)) /\ Len(s) = run.iteration /\ Shown(run.steps, s)
      /\ Last(s) = run.messages
      /\ \A next : Traced(run.steps, s, next)
      /\ \A k \in 1 .. Len(s) : Replied(s[k])
  BY <1>1, <1>2, RequestSent
<1>4. PICK a : a = Append(run.received, response)
  OBVIOUS
<1>5. /\ a \in Seq(Response) /\ a # <<>> /\ Last(a) = response
      /\ Len(a) = Len(run.received) + 1 /\ Len(run.received) \in Nat
  <2>1. run.received \in Seq(Response)
    BY <1>1 DEF Run
  <2> QED
    BY <1>1, <1>4, <2>1 DEF Last
<1>6. /\ Len(run.received) = run.iteration - 1 /\ Len(run.steps) = run.iteration - 1
      /\ run.iteration \in 1 .. MaxIterations /\ MaxIterations \in Nat
      /\ ~run.tools => run.iteration = 1
  BY <1>1, PromptLabAssumption DEF Sound, Counted, Run
<1>7. Accumulate(run.usage, response) \in Nat
  <2>1. run.usage \in Nat
    BY <1>1 DEF Run
  <2>2. response.tokens \in Nat
    BY <1>1 DEF Response
  <2> QED
    BY <2>1, <2>2 DEF Accumulate
<1>8. /\ r.tools = run.tools /\ r.steps = run.steps /\ r.received = a
      /\ r.sent = s /\ r.messages = run.messages /\ r.iteration = run.iteration
      /\ r \in Run
  BY <1>1, <1>2, <1>3, <1>4, <1>5, <1>7 DEF Run
<1> HIDE DEF r
<1>9. Len(a) = Len(s) /\ Len(s) <= IF run.tools THEN MaxIterations ELSE 1
  BY <1>3, <1>5, <1>6
<1>10. CASE /\ response.usage = "no number" \/ ~response.message
            /\ Finish(r, "error")
  <2>1. Ended(r, "error")
    BY <1>5, <1>8, <1>9, <1>10 DEF Ended, Final
  <2> QED
    BY <1>1, <1>3, <1>8, <1>10, <2>1, FinishStep
<1>11. CASE /\ response.usage # "no number" /\ response.message
            /\ ~run.tools \/ response.calls = <<>>
            /\ Finish([r EXCEPT !.steps = Append(@, [request |-> run.messages, calls |-> 0])],
                      "success")
  <2> DEFINE step == [request |-> run.messages, calls |-> 0]
             g == [r EXCEPT !.steps = Append(@, step)]
  <2>1. run.messages \in Seq(Message) /\ run.steps \in Seq(Step)
    BY <1>1 DEF Run
  <2>2. step \in Step /\ step.request = run.messages /\ step.calls = 0
    BY <2>1 DEF Step
  <2> HIDE DEF step
  <2>3. Append(run.steps, step) \in Seq(Step) /\ Shown(Append(run.steps, step), s)
    <3>1. PICK n \in Nat : Len(run.steps) = n
      BY <2>1
    <3>2. Len(s) = n + 1
      BY <1>3, <1>6, <3>1
    <3>3. IsPrefix(Last(s), step.request) /\ Len(step.request) - Len(Last(s)) = 0
      BY <1>3, <2>1, <2>2, PrefixOfItself
    <3> QED
      BY <1>3, <2>1, <2>2, <3>1, <3>2, <3>3, ShownAppend
  <2>4. /\ g \in Run /\ g.tools = run.tools /\ g.steps = Append(run.steps, step)
        /\ g.received = a /\ g.sent = s
    BY <1>8, <2>3 DEF Run
  <2>5. Finish(g, "success")
    BY <1>11 DEF step
  <2> HIDE DEF g
  <2>6. Ended(g, "success")
    BY <1>5, <1>9, <1>11, <2>4 DEF Ended, Final
  <2> QED
    BY <1>1, <1>3, <2>3, <2>4, <2>5, <2>6, FinishStep
<1>12. CASE /\ response.usage # "no number" /\ response.message
            /\ run.tools /\ response.calls # <<>>
            /\ run' = [r EXCEPT !.pc = "tools", !.calls = response.calls,
                                !.messages = Append(@, Assistant(response.calls))]
            /\ UNCHANGED <<history, last>>
  <2> DEFINE calls == response.calls
             m == run.messages
             g == [r EXCEPT !.pc = "tools", !.calls = calls,
                            !.messages = Append(@, Assistant(calls))]
  <2>1. m \in Seq(Message) /\ calls \in Seq(Call) /\ Assistant(calls) \in Message
    BY <1>1, MessageTypes DEF Run, Response
  <2>2. /\ Append(m, Assistant(calls)) \in Seq(Message)
        /\ Len(Append(m, Assistant(calls))) = Len(m) + 1
        /\ Append(m, Assistant(calls))[Len(m) + 1] = Assistant(calls)
        /\ \A i \in 1 .. Len(m) : Append(m, Assistant(calls))[i] = m[i]
        /\ Len(m) \in Nat /\ Len(calls) \in Nat
    BY <2>1
  <2>3. /\ g \in Run /\ g.pc = "tools" /\ g.tools = run.tools /\ g.calls = calls
        /\ g.messages = Append(m, Assistant(calls)) /\ g.steps = run.steps
        /\ g.sent = s /\ g.received = a /\ g.iteration = run.iteration
    BY <1>8, <2>1, <2>2 DEF Run
  <2>4. run' = g
    BY <1>12, <1>8
  <2> HIDE DEF g
  <2>5. Counted(g)
    <3>1. Len(g.received) = Len(g.sent) /\ Len(g.steps) = g.iteration - 1
      BY <1>6, <1>9, <2>3
    <3>2. Len(g.sent) = g.iteration /\ g.iteration \in 1 .. MaxIterations
      BY <1>3, <1>6, <2>3
    <3>3. g.tools
      BY <1>12, <2>3
    <3> QED
      BY <2>3, <3>1, <3>2, <3>3 DEF Counted
  <2>6. Replying(g)
    <3> HIDE DEF calls, m
    <3>1. Len(calls) - Len(calls) = 0 /\ 0 \in 0 .. Len(calls)
      BY <2>2
    <3>2. Last(g.received).calls = calls /\ Last(g.sent) = m /\ g.calls = calls
      BY <1>3, <1>5, <2>3 DEF calls, m
    <3>3. calls # <<>>
      BY <1>12 DEF calls
    <3>4. /\ Len(g.messages) = Len(m) + 1 + 0
          /\ \A i \in 1 .. Len(m) : g.messages[i] = m[i]
          /\ g.messages[Len(m) + 1] = Assistant(calls)
      BY <2>2, <2>3
    <3>5. \A j \in 1 .. Len(calls) : calls[j] = calls[0 + j]
      OBVIOUS
    <3> QED
      BY <3>1, <3>2, <3>3, <3>4, <3>5 DEF Replying
  <2>7. Sound(g)
    BY <1>3, <2>3, <2>5, <2>6 DEF Sound
  <2> QED
    BY <1>12, <2>3, <2>4, <2>7, GoOn
<1> QED
  BY <1>10, <1>11, <1>12 DEF Receive, r

\* What is known of a run in the loop over the calls.
LEMMA LoopState ==
    ASSUME Lab, run # Null, run.pc = "tools"
    PROVE  /\ run \in Run /\ Sound(run) /\ Typed /\ Replying(run) /\ run.tools
           /\ run.messages \in Seq(Message) /\ run.calls \in Seq(Call)
           /\ run.sent \in Seq(Seq(Message)) /\ run.steps \in Seq(Step)
           /\ Last(run.sent) \in Seq(Message) /\ Replied(Last(run.sent))
           /\ Last(run.received).calls \in Seq(Call)
           /\ run.iteration \in 1 .. MaxIterations
           /\ Len(run.sent) = run.iteration /\ Len(run.received) = run.iteration
           /\ Len(run.steps) = run.iteration - 1
           /\ run.received # <<>>
<1>1. run \in Run /\ Sound(run) /\ Typed
  BY DEF Lab, Typed
<1>2. /\ run.messages \in Seq(Message) /\ run.calls \in Seq(Call)
      /\ run.sent \in Seq(Seq(Message)) /\ run.steps \in Seq(Step)
      /\ run.received \in Seq(Response) /\ run.iteration \in Nat
  BY <1>1 DEF Run
<1>3. /\ run.iteration \in 1 .. MaxIterations
      /\ Len(run.sent) = run.iteration /\ Len(run.received) = run.iteration
      /\ Len(run.steps) = run.iteration - 1
  BY <1>1 DEF Sound, Counted
<1>4. run.tools /\ Replying(run)
  BY <1>1 DEF Sound, Counted
<1>5. Len(run.sent) \in 1 .. Len(run.sent) /\ Len(run.received) \in 1 .. Len(run.received)
  BY <1>3
<1>6. Last(run.sent) \in Seq(Message) /\ Replied(Last(run.sent))
  <2>1. \A k \in 1 .. Len(run.sent) : Replied(run.sent[k])
    BY <1>1 DEF Sound
  <2> DEFINE n == Len(run.sent)
  <2>2. n \in 1 .. Len(run.sent)
    BY <1>5
  <2> HIDE DEF n
  <2>3. run.sent[n] \in Seq(Message)
    BY <1>2, <2>2
  <2>4. Replied(run.sent[n])
    BY <2>1, <2>2
  <2> QED
    BY <2>3, <2>4 DEF Last, n
<1>7. Last(run.received) \in Response /\ run.received # <<>>
  BY <1>2, <1>5 DEF Last
<1>8. Last(run.received).calls \in Seq(Call)
  BY <1>7 DEF Response
<1> QED
  BY <1>1, <1>2, <1>3, <1>4, <1>6, <1>7, <1>8

LEMMA ExecuteToolStep ==
    ASSUME Lab, ExecuteTool
    PROVE  Lab'
<1> DEFINE m == run.messages
           C == Last(run.received).calls
           sent == Last(run.sent)
           d == Len(C) - Len(run.calls)
           call == Head(run.calls)
           all == Append(m, ToolReply(call))
           rest == Tail(run.calls)
           g == [run EXCEPT !.calls = rest, !.messages = all]
<1>1. /\ run # Null /\ run.pc = "tools" /\ run.calls # <<>>
      /\ UNCHANGED <<history, last>>
  BY DEF ExecuteTool
<1>2. run' = g
  BY DEF ExecuteTool
<1>3. /\ run \in Run /\ m \in Seq(Message) /\ run.calls \in Seq(Call)
      /\ C \in Seq(Call) /\ sent \in Seq(Message)
  BY <1>1, LoopState
<1>4. /\ C # <<>> /\ d \in 0 .. Len(C)
      /\ \A j \in 1 .. Len(run.calls) : run.calls[j] = C[d + j]
      /\ Len(m) = Len(sent) + 1 + d
      /\ \A i \in 1 .. Len(sent) : m[i] = sent[i]
      /\ m[Len(sent) + 1] = Assistant(C)
      /\ \A j \in 1 .. d : m[Len(sent) + 1 + j] = ToolReply(C[j])
  BY <1>1, LoopState DEF Replying
<1>5. /\ Len(run.calls) \in Nat /\ Len(run.calls) # 0
      /\ rest \in Seq(Call) /\ Len(rest) = Len(run.calls) - 1
      /\ \A j \in 1 .. Len(rest) : rest[j] = run.calls[j + 1]
      /\ call \in Call /\ call = run.calls[1]
  BY <1>1, <1>3
<1>6. /\ all \in Seq(Message) /\ Len(all) = Len(m) + 1
      /\ \A i \in 1 .. Len(m) : all[i] = m[i]
      /\ all[Len(m) + 1] = ToolReply(call)
  <2>1. ToolReply(call) \in Message
    BY <1>5, MessageTypes
  <2> QED
    BY <1>3, <2>1
<1>7. /\ g \in Run /\ g.pc = "tools" /\ g.calls = rest /\ g.messages = all
      /\ g.sent = run.sent /\ g.received = run.received /\ g.steps = run.steps
      /\ g.iteration = run.iteration /\ g.tools = run.tools
  BY <1>1, <1>3, <1>5, <1>6 DEF Run
<1> HIDE DEF g
<1>8. Replying(g)
  <2> DEFINE e == Len(C) - Len(rest)
             k == Len(sent)
  <2>1. /\ Len(C) \in Nat /\ k \in Nat /\ d \in Nat /\ Len(m) = k + 1 + d
        /\ e = d + 1 /\ e \in 0 .. Len(C)
    <3>1. Len(C) \in Nat /\ k \in Nat
      BY <1>3
    <3>2. Len(rest) = Len(run.calls) - 1 /\ Len(run.calls) \in Nat /\ Len(run.calls) # 0
      BY <1>5
    <3>3. d \in 0 .. Len(C) /\ Len(m) = k + 1 + d
      BY <1>4
    <3> HIDE DEF C, k, m, rest
    <3> QED
      BY <3>1, <3>2, <3>3
  <2>2. ASSUME NEW j \in 1 .. Len(rest) PROVE rest[j] = C[e + j]
    <3>1. j + 1 \in 1 .. Len(run.calls)
      BY <1>5
    <3>2. rest[j] = C[d + (j + 1)]
      BY <1>4, <1>5, <3>1
    <3>3. d + (j + 1) = e + j
      <4>1. j \in Nat
        BY <2>2, <1>5
      <4> HIDE DEF d, e
      <4> QED
        BY <2>1, <4>1
    <3> QED
      BY <3>2, <3>3
  <2>3. call = C[e]
    <3>1. 1 \in 1 .. Len(run.calls)
      BY <1>5
    <3>2. call = C[d + 1]
      BY <1>4, <1>5, <3>1
    <3> QED
      BY <2>1, <3>2
  <2> HIDE DEF d, e, k, C, sent, m, rest, call, all
  <2>4. /\ Len(all) = k + 1 + e
        /\ all[k + 1 + e] = ToolReply(C[e])
    BY <1>6, <2>1, <2>3
  <2>5. \A i \in 1 .. k : all[i] = sent[i]
    BY <1>4, <1>6, <2>1 DEF k
  <2>6. all[k + 1] = Assistant(C)
    BY <1>4, <1>6, <2>1 DEF k
  <2>7. ASSUME NEW j \in 1 .. e PROVE all[k + 1 + j] = ToolReply(C[j])
    <3>1. CASE j = e
      BY <2>4, <3>1
    <3>2. CASE j \in 1 .. d
      <4>1. k + 1 + j \in 1 .. Len(m)
        BY <2>1, <3>2
      <4>2. m[k + 1 + j] = ToolReply(C[j])
        BY <1>4, <3>2 DEF k
      <4> QED
        BY <1>6, <4>1, <4>2
    <3> QED
      BY <2>1, <3>1, <3>2
  <2>8. /\ Last(g.received).calls = C /\ Last(g.sent) = sent
        /\ g.calls = rest /\ g.messages = all
    BY <1>7 DEF C, sent
  <2> QED
    BY <1>4, <2>1, <2>2, <2>4, <2>5, <2>6, <2>7, <2>8 DEF Replying, e, k
<1>9. Sound(g)
  <2>1. /\ Counted(run) /\ \A k \in 1 .. Len(run.sent) : Replied(run.sent[k])
        /\ Traced(run.steps, run.sent, run.messages)
    BY <1>1, LoopState DEF Sound
  <2>2. Counted(g)
    BY <1>1, <1>7, <2>1 DEF Counted
  <2>3. Traced(g.steps, g.sent, g.messages)
    <3>1. \A k \in 1 .. Len(run.steps) : k < Len(run.sent)
      BY <1>1, LoopState
    <3> QED
      BY <1>7, <2>1, <3>1 DEF Traced
  <2> QED
    BY <1>7, <1>8, <2>1, <2>2, <2>3 DEF Sound
<1> QED
  BY <1>1, <1>2, <1>7, <1>9, GoOn

LEMMA ArgumentsBrokenStep ==
    ASSUME Lab, ArgumentsBroken
    PROVE  Lab'
<1>1. run # Null /\ run.pc = "tools" /\ Finish(run, "error")
  BY DEF ArgumentsBroken
<1>2. /\ run \in Run /\ Sound(run) /\ Typed
      /\ Len(run.sent) <= MaxIterations /\ run.tools
      /\ Last(run.received).calls # <<>>
  BY <1>1, LoopState, PromptLabAssumption DEF Replying
<1>3. Shown(run.steps, run.sent)
  BY <1>2, TracedIsShown
<1>4. Ended(run, "error")
  BY <1>2 DEF Ended, Final
<1>5. \A k \in 1 .. Len(run.sent) : Replied(run.sent[k])
  BY <1>2 DEF Sound
<1> QED
  BY <1>1, <1>2, <1>3, <1>4, <1>5, FinishStep

LEMMA StepEndsStep ==
    ASSUME Lab, StepEnds
    PROVE  Lab'
<1> DEFINE m == run.messages
           C == Last(run.received).calls
           sent == Last(run.sent)
           step == [request |-> run.messages, calls |-> Calls]
           steps == Append(run.steps, step)
           n == Len(run.steps)
           r == [run EXCEPT !.steps = Append(@, step)]
           g == [r EXCEPT !.pc = "request", !.iteration = @ + 1]
<1>1. run # Null /\ run.pc = "tools" /\ run.calls = <<>>
  BY DEF StepEnds
<1>2. /\ run \in Run /\ Sound(run) /\ Typed /\ run.tools
      /\ m \in Seq(Message) /\ C \in Seq(Call) /\ sent \in Seq(Message)
      /\ run.sent \in Seq(Seq(Message)) /\ run.steps \in Seq(Step)
      /\ Replied(sent) /\ C # <<>>
  BY <1>1, LoopState DEF Replying
<1>3. Len(C) \in Nat /\ Len(C) # 0 /\ Len(run.calls) = 0
  BY <1>1, <1>2
<1>4. /\ Len(m) = Len(sent) + 1 + Len(C)
      /\ \A i \in 1 .. Len(sent) : m[i] = sent[i]
      /\ m[Len(sent) + 1] = Assistant(C)
      /\ \A j \in 1 .. Len(C) : m[Len(sent) + 1 + j] = ToolReply(C[j])
  <2> DEFINE d == Len(C) - Len(run.calls)
  <2>1. d = Len(C)
    BY <1>3
  <2>2. /\ Len(m) = Len(sent) + 1 + d
        /\ \A i \in 1 .. Len(sent) : m[i] = sent[i]
        /\ m[Len(sent) + 1] = Assistant(C)
        /\ \A j \in 1 .. d : m[Len(sent) + 1 + j] = ToolReply(C[j])
    BY <1>1, LoopState DEF Replying
  <2> HIDE DEF d
  <2> QED
    BY <2>1, <2>2
<1>5. Replied(m) /\ IsPrefix(sent, m) /\ Len(m) - Len(sent) = 1 + Len(C)
  <2>1. Replied(m) /\ IsPrefix(sent, m)
    BY <1>2, <1>4, RepliedByAll
  <2>2. Len(m) - Len(sent) = 1 + Len(C)
    <3>1. Len(sent) \in Nat
      BY <1>2
    <3>2. Len(m) = Len(sent) + 1 + Len(C)
      BY <1>4
    <3> HIDE DEF m, C, sent
    <3> QED
      BY <1>3, <3>1, <3>2
  <2> QED
    BY <2>1, <2>2
<1>6. step \in Step /\ step.request = m /\ step.calls = Len(C)
  BY <1>2, <1>3 DEF Step, Calls
<1>7. /\ n \in Nat /\ Len(run.steps) = n /\ Len(run.sent) = n + 1
      /\ n + 1 = run.iteration /\ run.iteration \in 1 .. MaxIterations
      /\ Len(run.received) = run.iteration
      /\ \A k \in 1 .. Len(run.sent) : Replied(run.sent[k])
  BY <1>1, <1>2, LoopState, SMTT(30) DEF Sound
<1> HIDE DEF m, C, sent, step, n
<1>8. steps \in Seq(Step) /\ Shown(steps, run.sent)
  <2>1. Shown(run.steps, run.sent)
    BY <1>2, TracedIsShown
  <2>2. IsPrefix(Last(run.sent), step.request)
    BY <1>5, <1>6 DEF sent
  <2>3. Len(step.request) - Len(Last(run.sent)) =
           IF step.calls = 0 THEN 0 ELSE 1 + step.calls
    BY <1>3, <1>5, <1>6 DEF sent
  <2> QED
    BY <1>2, <1>6, <1>7, <2>1, <2>2, <2>3, ShownAppend
<1>9. /\ r \in Run /\ r.steps = steps /\ r.sent = run.sent
      /\ r.received = run.received /\ r.tools = run.tools
      /\ r.iteration = run.iteration /\ r.messages = run.messages
  BY <1>2, <1>8 DEF Run
<1>10. CASE Finish(r, "error")
  <2>1. Ended(r, "error")
    <3>1. ~Final(r)
      BY <1>2, <1>9 DEF Final, C
    <3>2. Len(r.sent) <= IF r.tools THEN MaxIterations ELSE 1
      BY <1>2, <1>7, <1>9, PromptLabAssumption
    <3> QED
      BY <3>1, <3>2 DEF Ended
  <2> HIDE DEF r, steps
  <2> QED
    BY <1>2, <1>7, <1>8, <1>9, <1>10, <2>1, FinishStep
<1>11. CASE /\ run.iteration # MaxIterations /\ run' = g
            /\ UNCHANGED <<history, last>>
  <2>1. run.iteration + 1 \in 1 .. MaxIterations
    BY <1>7, <1>11, PromptLabAssumption
  <2>2. /\ g \in Run /\ g.steps = steps /\ g.sent = run.sent /\ g.pc = "request"
        /\ g.received = run.received /\ g.tools = run.tools
        /\ g.iteration = run.iteration + 1 /\ g.messages = m
    <3> HIDE DEF r, steps
    <3>1. r \in Run /\ r.iteration + 1 \in Nat
      BY <1>9, <2>1
    <3>2. g \in Run
      BY <3>1 DEF Run
    <3>3. /\ g.steps = r.steps /\ g.sent = r.sent /\ g.received = r.received
          /\ g.pc = "request" /\ g.messages = r.messages
      BY <3>1 DEF Run
    <3>4. g.iteration = r.iteration + 1
      BY <3>1 DEF Run
    <3>5. g.tools = r.tools
      BY <3>1 DEF Run
    <3> HIDE DEF g
    <3> QED
      BY <1>9, <3>2, <3>3, <3>4, <3>5 DEF m
  <2> HIDE DEF r, g
  <2>3. Len(steps) = n + 1
    BY <1>2, <1>6, <1>7
  <2>4. Counted(g)
    <3>1. g.tools
      BY <1>2, <2>2
    <3> QED
      BY <1>7, <2>1, <2>2, <2>3, <3>1 DEF Counted
  <2>5. Traced(steps, run.sent, m)
    <3>1. ASSUME NEW k \in 1 .. n + 1
          PROVE  Links(steps[k], run.sent[k],
                       IF k < Len(run.sent) THEN run.sent[k + 1] ELSE m)
      <4>1. CASE k = n + 1
        <5>1. steps[k] = step /\ run.sent[k] = sent /\ ~(k < Len(run.sent))
          BY <1>2, <1>6, <1>7, <4>1 DEF sent, Last
        <5>2. Links(step, sent, m)
          BY <1>3, <1>5, <1>6 DEF Links
        <5> QED
          BY <5>1, <5>2
      <4>2. CASE k \in 1 .. n
        <5>1. steps[k] = run.steps[k]
          BY <1>2, <1>6, <1>7, <4>2
        <5>2. k < Len(run.sent)
          BY <1>7, <4>2
        <5>3. Links(run.steps[k], run.sent[k],
                    IF k < Len(run.sent) THEN run.sent[k + 1] ELSE run.messages)
          BY <1>2, <1>7, <4>2 DEF Sound, Traced
        <5> QED
          BY <5>1, <5>2, <5>3
      <4> QED
        BY <1>7, <4>1, <4>2
    <3> QED
      BY <2>3, <3>1 DEF Traced
  <2>6. Sound(g)
    BY <1>5, <1>7, <2>2, <2>4, <2>5 DEF Sound
  <2> QED
    BY <1>11, <2>2, <2>6, GoOn
<1> QED
  BY <1>10, <1>11 DEF StepEnds, r, g, step

-----------------------------------------------------------------------------
LEMMA LabInvariant == Spec => []Lab
<1>1. Init => Lab
  BY DEF Init, Lab, Typed, TraceStopsAtItsStep, RepliesFollowCalls, EndsAsReceived
<1>2. Lab /\ [Next]_vars => Lab'
  <2> SUFFICES ASSUME Lab, [Next]_vars PROVE Lab'
    OBVIOUS
  <2>1. CASE UNCHANGED vars
    BY <2>1 DEF vars, Lab, Typed, Sound, Counted, Traced, Links, Replying, Replied,
                TraceStopsAtItsStep, RepliesFollowCalls, EndsAsReceived
  <2> QED
    BY <2>1, ClickStep, CallFailsStep, ReceiveStep, ExecuteToolStep,
       ArgumentsBrokenStep, StepEndsStep DEF Next
<1> QED
  BY <1>1, <1>2, PTL DEF Spec

-----------------------------------------------------------------------------
(* What a run costs.  The running sum is defined by recursion; that it is    *)
(* defined for every list, and is one number more per response, is shown     *)
(* from the least index at which it could fail.                              *)

LEMMA LeastNatural ==
    ASSUME NEW S, S \subseteq Nat, S # {}
    PROVE  \E m \in S : \A n \in S : m <= n
<1> DEFINE R == OpToRel(<, Nat)
<1>1. IsWellFoundedOn(R, Nat)
  BY NatLessThanWellFounded
<1> HIDE DEF R
<1>2. PICK m \in S : \A n \in S : ~(<<n, m>> \in R)
  BY <1>1, WFMin
<1>3. \A a \in Nat, b \in Nat : <<a, b>> \in R <=> a < b
  BY DEF R, OpToRel
<1>4. ASSUME NEW n \in S PROVE m <= n
  <2>1. m \in Nat /\ n \in Nat /\ ~(n < m)
    BY <1>2, <1>3, Zenon
  <2> QED
    BY <2>1
<1> QED
  BY <1>2, <1>4, Zenon

IsSum(f, s) ==
    f = [n \in 0 .. Len(s) |-> IF n = 0 THEN 0 ELSE f[n - 1] + Tokens(s[n])]

LEMMA SpentIsSum ==
    ASSUME NEW s PROVE Spent(s) = (CHOOSE f : IsSum(f, s))[Len(s)]
BY DEF Spent, IsSum

LEMMA SumOfMore ==
    ASSUME NEW s \in Seq(Response), NEW x \in Response, NEW f, IsSum(f, s)
    PROVE  IsSum([n \in 0 .. Len(s) + 1 |->
                     IF n = Len(s) + 1 THEN f[Len(s)] + Tokens(x) ELSE f[n]],
                 Append(s, x))
<1> DEFINE k == Len(s)
           t == Append(s, x)
           g == [n \in 0 .. k + 1 |-> IF n = k + 1 THEN f[k] + Tokens(x) ELSE f[n]]
           h == [n \in 0 .. Len(t) |-> IF n = 0 THEN 0 ELSE g[n - 1] + Tokens(t[n])]
<1>1. k \in Nat /\ Len(t) = k + 1 /\ t[k + 1] = x /\ \A n \in 1 .. k : t[n] = s[n]
  OBVIOUS
<1>2. \A n \in 0 .. k : f[n] = IF n = 0 THEN 0 ELSE f[n - 1] + Tokens(s[n])
  BY DEF IsSum
<1> HIDE DEF k, t
<1>3. ASSUME NEW n \in 0 .. k + 1 PROVE g[n] = h[n]
  <2>1. CASE n = k + 1
    <3>1. g[n] = f[k] + Tokens(x) /\ g[n - 1] = f[k] /\ n # 0 /\ t[n] = x
      BY <1>1, <2>1
    <3>2. h[n] = g[n - 1] + Tokens(t[n])
      BY <1>1, <3>1
    <3> HIDE DEF g, h
    <3> QED
      BY <3>1, <3>2
  <2>2. CASE n = 0
    BY <1>1, <1>2, <2>2
  <2>3. CASE n \in 1 .. k
    <3>1. g[n] = f[n] /\ g[n - 1] = f[n - 1] /\ n # 0 /\ t[n] = s[n]
      BY <1>1, <2>3
    <3>2. h[n] = g[n - 1] + Tokens(t[n])
      BY <1>1, <3>1
    <3>3. f[n] = f[n - 1] + Tokens(s[n])
      BY <1>2, <2>3, <3>1
    <3> HIDE DEF g, h
    <3> QED
      BY <3>1, <3>2, <3>3
  <2> QED
    BY <1>1, <2>1, <2>2, <2>3
<1>4. g = h
  BY <1>1, <1>3
<1> QED
  BY <1>4 DEF IsSum, k, t

LEMMA SumExists ==
    ASSUME NEW s \in Seq(Response) PROVE \E f : IsSum(f, s)
<1> DEFINE Bad == {n \in Nat : \E q \in Seq(Response) : Len(q) = n /\ ~\E f : IsSum(f, q)}
<1> SUFFICES ASSUME Bad # {} PROVE FALSE
  OBVIOUS
<1>1. PICK m \in Bad : \A n \in Bad : m <= n
  <2> HIDE DEF Bad
  <2>1. Bad \subseteq Nat
    BY DEF Bad
  <2> QED
    BY <2>1, LeastNatural
<1>2. PICK q \in Seq(Response) : Len(q) = m /\ ~\E f : IsSum(f, q)
  OBVIOUS
<1>3. CASE m = 0
  <2>1. IsSum([n \in 0 .. 0 |-> 0], q)
    BY <1>2, <1>3 DEF IsSum
  <2> QED
    BY <1>2, <2>1
<1>4. CASE m # 0
  <2> DEFINE front == [i \in 1 .. m - 1 |-> q[i]]
  <2>1. m \in Nat /\ m - 1 \in Nat /\ q[m] \in Response
    BY <1>2, <1>4
  <2>2. front \in Seq(Response) /\ Len(front) = m - 1
    BY <1>2, <2>1
  <2>3. q = Append(front, q[m])
    BY <1>2, <2>1, <2>2
  <2> HIDE DEF front
  <2>4. PICK f : IsSum(f, front)
    <3>1. m - 1 \notin Bad
      BY <1>1, <2>1
    <3> QED
      BY <2>1, <2>2, <3>1
  <2>5. \E g : IsSum(g, Append(front, q[m]))
    BY <2>1, <2>2, <2>4, SumOfMore
  <2> QED
    BY <1>2, <2>3, <2>5
<1> QED
  BY <1>3, <1>4

\* Two sums of one list are equal, from the first index on.
LEMMA SumIsUnique ==
    ASSUME NEW s \in Seq(Response), NEW f, NEW g, IsSum(f, s), IsSum(g, s)
    PROVE  f[Len(s)] = g[Len(s)]
<1> DEFINE Bad == {n \in 0 .. Len(s) : f[n] # g[n]}
<1> SUFFICES ASSUME Bad # {} PROVE FALSE
  OBVIOUS
<1>1. PICK m \in Bad : \A n \in Bad : m <= n
  <2>1. Bad \subseteq Nat
    OBVIOUS
  <2> HIDE DEF Bad
  <2> QED
    BY <2>1, LeastNatural
<1>2. \A n \in 0 .. Len(s) :
         /\ f[n] = IF n = 0 THEN 0 ELSE f[n - 1] + Tokens(s[n])
         /\ g[n] = IF n = 0 THEN 0 ELSE g[n - 1] + Tokens(s[n])
  BY DEF IsSum
<1>3. m \in 0 .. Len(s) /\ f[m] # g[m] /\ Len(s) \in Nat
  OBVIOUS
<1>4. m # 0
  BY <1>2, <1>3
<1>5. m - 1 \in 0 .. Len(s) /\ m - 1 \notin Bad
  BY <1>1, <1>3, <1>4
<1>6. f[m - 1] = g[m - 1]
  BY <1>5
<1> QED
  BY <1>2, <1>3, <1>4, <1>6

LEMMA SpentMore ==
    /\ Spent(<<>>) = 0
    /\ \A s \in Seq(Response), x \in Response :
          Spent(Append(s, x)) = Spent(s) + Tokens(x)
<1>1. Spent(<<>>) = 0
  <2> DEFINE s == <<>>
             f == CHOOSE a : IsSum(a, s)
  <2>1. s \in Seq(Response) /\ Len(s) = 0
    OBVIOUS
  <2>2. IsSum(f, s)
    BY <2>1, SumExists
  <2> HIDE DEF f
  <2>3. f[0] = 0
    BY <2>1, <2>2 DEF IsSum
  <2> QED
    BY <2>1, <2>3, SpentIsSum DEF f
<1>2. ASSUME NEW s \in Seq(Response), NEW x \in Response
      PROVE  Spent(Append(s, x)) = Spent(s) + Tokens(x)
  <2> DEFINE k == Len(s)
             t == Append(s, x)
             f == CHOOSE a : IsSum(a, s)
             h == CHOOSE a : IsSum(a, t)
             g == [n \in 0 .. k + 1 |-> IF n = k + 1 THEN f[k] + Tokens(x) ELSE f[n]]
  <2>1. t \in Seq(Response) /\ Len(t) = k + 1 /\ k \in Nat
    OBVIOUS
  <2>2. g[k + 1] = f[k] + Tokens(x)
    BY <2>1
  <2>3. IsSum(f, s) /\ IsSum(h, t)
    <3> HIDE DEF t
    <3> QED
      BY <2>1, SumExists
  <2>4. IsSum(g, t)
    <3> HIDE DEF f, h
    <3> QED
      BY <2>3, SumOfMore
  <2>5. Spent(s) = f[k] /\ Spent(t) = h[k + 1]
    BY <2>1, SpentIsSum
  <2> HIDE DEF f, g, h, t
  <2>6. h[k + 1] = g[k + 1]
    BY <2>1, <2>3, <2>4, SumIsUnique
  <2> QED
    BY <2>2, <2>5, <2>6 DEF t
<1> QED
  BY <1>1, <1>2

\* What a run has added up so far is what it has received.
Metered == (run # Null => run.usage = Spent(run.received)) /\ TokensAreCounted

LEMMA MeteredEnd ==
    ASSUME NEW r, NEW status, Finish(r, status), r.usage = Spent(r.received)
    PROVE  Metered'
BY DEF Finish, Metered, TokensAreCounted

LEMMA MeteredStep ==
    ASSUME Lab, Metered, [Next]_vars
    PROVE  Metered'
<1>1. run # Null => run \in Run /\ run.usage = Spent(run.received)
  BY DEF Lab, Typed, Metered
<1>2. ASSUME NEW key \in BOOLEAN, NEW tools \in BOOLEAN, NEW file \in Files,
             Click(key, tools, file)
      PROVE  Metered'
  <2>1. NewRun(tools).usage = 0 /\ NewRun(tools).received = <<>>
    BY DEF NewRun
  <2>2. NewRun(tools).usage = Spent(NewRun(tools).received)
    BY <2>1, SpentMore
  <2>3. CASE Finish(NewRun(tools), "error")
    BY <2>2, <2>3, MeteredEnd
  <2>4. CASE run' = NewRun(tools) /\ UNCHANGED <<history, last>>
    BY <2>2, <2>4 DEF Metered, TokensAreCounted
  <2> QED
    BY <1>2, <2>3, <2>4 DEF Click
<1>3. CASE CallFails
  <2> DEFINE r == [run EXCEPT !.sent = Append(@, run.messages)]
  <2>1. run # Null /\ Finish(r, "error")
    BY <1>3 DEF CallFails
  <2>2. r.usage = run.usage /\ r.received = run.received
    BY <1>1, <2>1 DEF Run
  <2> HIDE DEF r
  <2> QED
    BY <1>1, <2>1, <2>2, MeteredEnd
<1>4. ASSUME NEW response \in Responses, Receive(response) PROVE Metered'
  <2> DEFINE r == [run EXCEPT !.sent = Append(@, run.messages),
                              !.received = Append(@, response),
                              !.usage = Accumulate(@, response)]
             done == [r EXCEPT !.steps = Append(@, [request |-> run.messages, calls |-> 0])]
             more == [r EXCEPT !.pc = "tools", !.calls = response.calls,
                               !.messages = Append(@, Assistant(response.calls))]
  <2>1. run # Null /\ response \in Response
    BY <1>4, PromptLabAssumption DEF Receive
  <2>2. /\ r.usage = Accumulate(run.usage, response)
        /\ r.received = Append(run.received, response)
        /\ done.usage = r.usage /\ done.received = r.received
        /\ more.usage = r.usage /\ more.received = r.received
    BY <1>1, <2>1 DEF Run
  <2>3. run.usage \in Nat /\ run.received \in Seq(Response) /\ response.tokens \in Nat
    BY <1>1, <2>1 DEF Run, Response
  <2>4. \/ Finish(r, "error") \/ Finish(done, "success")
        \/ run' = more /\ UNCHANGED <<history, last>>
    BY <1>4 DEF Receive
  <2> HIDE DEF r, done, more
  <2>5. Accumulate(run.usage, response) = run.usage + Tokens(response)
    BY <2>3 DEF Accumulate, Tokens
  <2>6. Spent(Append(run.received, response)) = Spent(run.received) + Tokens(response)
    BY <2>1, <2>3, SpentMore
  <2>7. r.usage = Spent(r.received)
    BY <1>1, <2>1, <2>2, <2>5, <2>6
  <2> QED
    BY <2>2, <2>4, <2>7, MeteredEnd DEF Metered, TokensAreCounted
<1>5. CASE ExecuteTool
  <2>1. run # Null /\ run'.usage = run.usage /\ run'.received = run.received
    BY <1>1, <1>5 DEF ExecuteTool, Run
  <2>2. last' = last
    BY <1>5 DEF ExecuteTool
  <2> QED
    BY <1>1, <2>1, <2>2 DEF Metered, TokensAreCounted
<1>6. CASE ArgumentsBroken
  BY <1>1, <1>6, MeteredEnd DEF ArgumentsBroken
<1>7. CASE StepEnds
  <2> DEFINE r == [run EXCEPT !.steps =
                      Append(@, [request |-> run.messages, calls |-> Calls])]
             g == [r EXCEPT !.pc = "request", !.iteration = @ + 1]
  <2>1. run # Null /\ (Finish(r, "error") \/ (run' = g /\ UNCHANGED <<history, last>>))
    BY <1>7 DEF StepEnds
  <2>2. /\ r.usage = run.usage /\ r.received = run.received
        /\ g.usage = run.usage /\ g.received = run.received
    BY <1>1, <2>1 DEF Run
  <2> HIDE DEF r, g
  <2> QED
    BY <1>1, <2>1, <2>2, MeteredEnd DEF Metered, TokensAreCounted
<1>8. CASE UNCHANGED vars
  BY <1>8 DEF vars, Metered, TokensAreCounted
<1> QED
  BY <1>2, <1>3, <1>4, <1>5, <1>6, <1>7, <1>8 DEF Next

\* The trace of a run is its requests in order, and no step shows a message of a
\* later one: it is what was sent followed by the step's own calls and replies
\* (not what was sent alone), for every number of iterations and calls.
THEOREM TraceIsTrue == Spec => []TraceStopsAtItsStep
BY LabInvariant, PTL DEF Lab

\* Every request has one reply for each tool call, in order, right behind the
\* message that asks for them: whatever tools fail.
THEOREM EveryCallIsReplied == Spec => []RepliesFollowCalls
BY LabInvariant, PTL DEF Lab

\* A result is whole: it counts the tokens of every response received, however
\* many; the API is asked at most MaxIterations times, a run succeeds only by a
\* final answer to its last request, and its result heads the history.
THEOREM WholeResults == Spec => []ResultIsWhole
<1>1. Init => Metered
  BY DEF Init, Metered, TokensAreCounted
<1>2. Lab /\ Metered /\ [Next]_vars => Metered'
  BY MeteredStep
<1>3. Lab /\ Metered => ResultIsWhole
  BY DEF Lab, Metered, ResultIsWhole
<1> QED
  BY <1>1, <1>2, <1>3, LabInvariant, PTL DEF Spec
=============================================================================
