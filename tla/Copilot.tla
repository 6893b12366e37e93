------------------------------- MODULE Copilot -------------------------------
(***************************************************************************)
(* The workflow drafts of Studio (studio/copilot.py): a chain of steps     *)
(* picked by the terms a prompt contains.  A prompt is the set of groups   *)
(* its terms belong to: "delay" (wait, pause, ...), "api" (fetch, url,     *)
(* ...), "send" (send, notify, create a task), "draft" (draft, post to),   *)
(* "channel" (slack, email, ...) and "condition" (only if, unless, ...).   *)
(* Labels, titles, notes and positions are left out.                       *)
(***************************************************************************)
EXTENDS Integers, Sequences, SequencesExt

TermGroups == {"delay", "api", "send", "draft", "channel", "condition"}

\* Data are fetched first only when nothing is to be sent or drafted.
WantsHttpFirst(prompt) == "api" \in prompt /\ prompt \cap {"send", "draft"} = {}
WantsSend(prompt) == prompt \cap {"send", "channel"} # {}

StepType(id) ==
  CASE id = "trigger" -> "trigger" [] id = "wait" -> "delay" [] id = "ai-task" -> "llm_prompt"
    [] id = "check-result" -> "condition" [] id \in {"fetch-data", "send-result"} -> "http"

StepIds(prompt) ==
  LET step(id, wanted) == IF wanted THEN <<id>> ELSE <<>>
  IN <<"trigger">> \o step("wait", "delay" \in prompt)
       \o step("fetch-data", WantsHttpFirst(prompt)) \o <<"ai-task">>
       \o step("check-result", "condition" \in prompt)
       \o step("send-result", WantsSend(prompt))

\* draft_workflow: each step follows the one before it, what comes behind the
\* condition when it is true.
DraftWorkflow(prompt) ==
  LET ids == StepIds(prompt)
  IN [nodes |-> [i \in DOMAIN ids |-> [id |-> ids[i], type |-> StepType(ids[i])]],
      edges |-> [i \in 1..Len(ids) - 1 |->
                   [source |-> ids[i], target |-> ids[i + 1],
                    handle |-> IF ids[i] = "check-result" THEN "true" ELSE "None"]]]

\* The template the AI task reads its input from.
UserMessage(prompt) ==
  LET ids == StepIds(prompt)
      previous == ids[SelectInSeq(ids, LAMBDA id : id = "ai-task") - 1]
  IN IF previous = "trigger" THEN <<"trigger", "text">> ELSE <<previous, "output">>

\* Minutes or seconds the prompt names, or a minute.
DraftDelay(number, unit) ==
  LET asked == IF unit = "minutes" THEN number * 60 ELSE number
  IN IF unit = "none" THEN 60
     ELSE IF asked < 1 THEN 1 ELSE IF asked > 300 THEN 300 ELSE asked
=============================================================================
