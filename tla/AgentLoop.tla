----------------------------- MODULE AgentLoop -----------------------------
(***************************************************************************)
(* One run of the tool loop, AgentRunner._run_with_tools of                *)
(* core/agent_loop.py, over a chat session of core/llm_provider.py: the    *)
(* prompt is sent, the calls of each response are executed and their       *)
(* answers sent back, until a response has no calls or something gives     *)
(* up.  Sends are retried, the history is pruned after each, and the       *)
(* token budget is shared with the other workers of the process.           *)
(*                                                                         *)
(* A tool call is answered once whatever becomes of it: a result, an       *)
(* exception, an unknown name and the STOP notice of a degraded tool differ *)
(* in the answer's text alone, which is left out.  So is the length of the *)
(* waits: a server may ask for any wait, so the cap on their sum may end   *)
(* the retries at any attempt.                                             *)
(***************************************************************************)
EXTENDS Naturals, SequencesExt

CONSTANTS
  Provider,       \* kinds of provider: "gemini", "local" or both
  MaxIterations,  \* max_iterations, which the caller chooses
  MaxCalls        \* bound: tool calls of one response

MaxRetries == 8
MaxHistoryTurns == 6

ASSUME AgentAssumption ==
  /\ Provider \subseteq {"gemini", "local"}
  /\ MaxIterations \in Nat /\ MaxCalls \in Nat

VARIABLES
  provider,  \* kind of the session's provider
  history,   \* the session's messages, committed by the last send that got through
  payload,   \* calls that are answered so far, in order; <<>> for the prompt
  turn,      \* iteration_count: responses with calls so far
  attempt,   \* sends of the payload that failed
  over,      \* tokens of the process have reached the budget's threshold
  overTurns, \* history: turns begun when they had
  pc

vars == <<provider, history, payload, turn, attempt, over, overTurns, pc>>

\* The calls of a response are named by the turns before it and their position.
Prompt == [role |-> "user", calls |-> <<>>, answers |-> <<>>]
Calls(n) == [i \in 1 .. n |-> <<turn, i>>]
Response(n) == [role |-> "model", calls |-> Calls(n), answers |-> <<>>]
Answering(role, calls) == [role |-> role, calls |-> <<>>, answers |-> calls]

\* What a payload adds to the history: a Gemini turn holds all its answers,
\* the OpenAI schema of the local provider has a message for each.
Messages ==
  CASE turn = 0 -> <<Prompt>>
    [] turn > 0 /\ provider = "gemini" -> <<Answering("user", payload)>>
    [] turn > 0 /\ provider = "local" ->
         [i \in DOMAIN payload |-> Answering("tool", <<payload[i]>>)]

Request == history \o Messages

Init ==
  /\ provider \in Provider
  /\ history = <<>> /\ payload = <<>>
  /\ turn = 0 /\ attempt = 0
  /\ over \in BOOLEAN /\ overTurns = 0
  /\ pc = "send"
-----------------------------------------------------------------------------
Goto(from, to) == pc = from /\ pc' = to

Raise(from) ==
  /\ Goto(from, "raised")
  /\ UNCHANGED <<provider, history, payload, turn, attempt, over, overTurns>>

\* The response arrives and the session commits it with the payload.  The
\* first response is only recorded in the budget, the later ones are pruned
\* first and then checked as well.
SendSucceeds ==
  /\ Goto("send", IF turn = 0 THEN "parse" ELSE "prune")
  /\ \E n \in 0 .. MaxCalls : history' = Append(Request, Response(n))
  /\ payload' = <<>> /\ attempt' = 0
  /\ IF turn = 0 THEN over' \in {over, TRUE} ELSE UNCHANGED over
  /\ UNCHANGED <<provider, turn, overTurns>>

\* Mutated form: the payload is put into the session's history before the
\* request is known to have succeeded, so a retry sends it twice.
SendRetried_Commit ==
  /\ pc = "send" /\ attempt < MaxRetries - 1
  /\ attempt' = attempt + 1
  /\ history' = Request
  /\ UNCHANGED <<provider, payload, turn, over, overTurns, pc>>

\* Mutated form: the last attempt is retried as well.
SendRetried_Last ==
  /\ pc = "send" /\ attempt < MaxRetries
  /\ attempt' = attempt + 1
  /\ UNCHANGED <<provider, history, payload, turn, over, overTurns, pc>>

\* A rate limit or internal error, with attempts and time left to wait.
SendRetried ==
  /\ pc = "send" /\ attempt < MaxRetries - 1
  /\ attempt' = attempt + 1
  /\ UNCHANGED <<provider, history, payload, turn, over, overTurns, pc>>

\* Another error, the last attempt, or a wait beyond the cap.
SendFails == Raise("send")

\* The role at which a provider may cut the history.
Boundary == IF provider = "gemini" THEN "model" ELSE "user"

\* Mutated form: the search starts two messages too early.
Cuts_Early(h) == {i \in 1 .. Len(h) - MaxHistoryTurns : h[i].role = Boundary}

\* The safe boundaries that leave at least max_turns - 1 messages.
Cuts(h) == {i \in 1 .. Len(h) - MaxHistoryTurns + 2 : h[i].role = Boundary}

Prunable(h) == Len(h) > MaxHistoryTurns /\ Cuts(h) # {}

\* prune_history keeps the first message and what the last boundary starts.
Pruned(h) ==
  IF Prunable(h) THEN <<Head(h)>> \o SubSeq(h, Max(Cuts(h)), Len(h)) ELSE h

\* Mutated form: the tokens are recorded and not checked.
PruneAndCheck_NoCheck ==
  /\ history' = Pruned(history)
  /\ over' \in {over, TRUE}
  /\ Goto("prune", "parse")
  /\ UNCHANGED <<provider, payload, turn, attempt, overTurns>>

\* A turn with tools ends: prune, record the response's tokens, and stop the
\* run if the budget's threshold is reached.
PruneAndCheck ==
  /\ history' = Pruned(history)
  /\ over' \in {over, TRUE}
  /\ Goto("prune", IF over' THEN "raised" ELSE "parse")
  /\ UNCHANGED <<provider, payload, turn, attempt, overTurns>>

\* Gemini prunes by creating another session, and that call may fail.
PruneFails ==
  /\ provider = "gemini" /\ Prunable(history)
  /\ Raise("prune")

\* A response without calls is the run's answer.
Finish ==
  /\ Goto("parse", "done")
  /\ Last(history).calls = <<>>
  /\ UNCHANGED <<provider, history, payload, turn, attempt, over, overTurns>>

\* A response with calls begins a turn, up to the cap.
BeginTurn ==
  /\ Goto("parse", "tools")
  /\ Last(history).calls # <<>>
  /\ turn < MaxIterations
  /\ turn' = turn + 1
  /\ overTurns' = IF over THEN overTurns + 1 ELSE overTurns
  /\ UNCHANGED <<provider, history, payload, attempt, over>>

\* Mutated form: the cap is compared with the count of the turn before.
TooManyTurns_Late ==
  /\ Raise("parse")
  /\ Last(history).calls # <<>> /\ turn > MaxIterations

TooManyTurns ==
  /\ Raise("parse")
  /\ Last(history).calls # <<>> /\ turn = MaxIterations

\* The tools of a response run one after the other.
RunTool ==
  /\ pc = "tools"
  /\ LET calls == Last(history).calls
     IN /\ payload' = Append(payload, calls[Len(payload) + 1])
        /\ pc' = IF Len(payload') = Len(calls) THEN "send" ELSE "tools"
  /\ UNCHANGED <<provider, history, turn, attempt, over, overTurns>>

\* Another worker records its tokens while this one waits.
OthersSpend ==
  /\ pc \in {"send", "prune", "tools"}
  /\ ~over /\ over' = TRUE
  /\ UNCHANGED <<provider, history, payload, turn, attempt, overTurns, pc>>

\* The worker's task is cancelled where it waits.
Cancelled == \E at \in {"send", "prune", "tools"} : Raise(at)

Advance ==
  \/ SendSucceeds \/ SendRetried \/ SendFails
  \/ PruneAndCheck \/ PruneFails
  \/ Finish \/ BeginTurn \/ TooManyTurns
  \/ RunTool

Next == Advance \/ OthersSpend \/ Cancelled

Spec == Init /\ [][Next]_vars

\* A provider's request, a tool and a wait each come to an end: the HTTP
\* client, the MCP wrapper and the sandbox have timeouts.
FairSpec == Spec /\ WF_vars(Advance)
-----------------------------------------------------------------------------
Ended == {"done", "raised"}

CallIds == Nat \X Nat

Message ==
  [role : {"user", "model", "tool"}, calls : Seq(CallIds), answers : Seq(CallIds)]

TypeOK ==
  /\ provider \in Provider
  /\ history \in Seq(Message) /\ payload \in Seq(CallIds)
  /\ turn \in 0 .. MaxIterations /\ attempt \in 0 .. MaxRetries - 1
  /\ overTurns \in 0 .. turn
  /\ over \in BOOLEAN
  /\ pc \in {"send", "prune", "parse", "tools"} \cup Ended

\* The answers between message i and the next response, in order.
AnswersAfter(h, i) ==
  LET later == {j \in i + 1 .. Len(h) : h[j].role = "model"}
      end == Min(later \cup {Len(h) + 1})
  IN FlattenSeq([k \in 1 .. end - i - 1 |-> h[i + k].answers])

\* What every provider demands of a conversation: it begins with the task's
\* prompt, each response is followed by the answers of exactly its calls, in
\* order, and no answer stands anywhere else.  Retries repeat a send, pruning
\* cuts the history and the local provider spreads a payload over messages;
\* whatever they do, what is sent next is such a conversation
\* (agent_loop.py:145, 280; llm_provider.py:157, 194, 282).
CallsAnsweredOnce ==
  pc = "send" =>
    /\ Head(Request) = Prompt
    /\ AnswersAfter(Request, 0) = <<>>
    /\ \A i \in DOMAIN Request :
         Request[i].role = "model" => AnswersAfter(Request, i) = Request[i].calls

\* With Gemini the sliding window holds: a turn starts with at most
\* MAX_HISTORY_TURNS messages, however long the run (agent_loop.py:152, 284).
WindowHeld ==
  provider = "gemini" /\ pc = "parse" => Len(history) <= MaxHistoryTurns

\* The budget is checked after every send but the first, so however late it
\* is used up, by this worker or by another, at most one more turn of tools
\* begins (agent_loop.py:145-146, 293-298).
OneTurnOverBudget == overTurns <= 1

\* The run ends, whatever the provider, the model and the tools do.
RunEnds == <>(pc \in Ended)

\* "Prunes the session history to prevent context window bloat"
\* (llm_provider.py:89): a prune leaves no more messages than it found.
PruneNeverGrows ==
  [][pc = "prune" => Len(history') <= Len(history)]_vars
=============================================================================
