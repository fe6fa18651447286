----------------------------- MODULE MCPromptLab -----------------------------
EXTENDS PromptLab

MCFiles == {
    [root |-> "object", tools |-> "valid", advice |-> "invalid"],
    [root |-> "object", tools |-> "no object", advice |-> "valid"],
    [root |-> "object", tools |-> "invalid", advice |-> "valid"],
    [root |-> "object", tools |-> "absent", advice |-> "absent"],
    [root |-> "no object", tools |-> "valid", advice |-> "absent"],
    [root |-> "unreadable", tools |-> "valid", advice |-> "absent"]}

CallOf(id, tool, arguments) == [id |-> id, tool |-> tool, arguments |-> arguments]

Answer(usage, tokens, message, calls) ==
    [usage |-> usage, tokens |-> tokens, message |-> message, calls |-> calls]

\* A final answer, none, one without a count; one, two and broken tool calls.
MCResponses == {
    Answer("number", 1, TRUE, <<>>),
    Answer("number", 2, FALSE, <<>>),
    Answer("no number", 0, TRUE, <<>>),
    Answer("absent", 0, TRUE, <<CallOf(1, "known", "object")>>),
    Answer("number", 3, TRUE, <<CallOf(1, "unknown", "object"), CallOf(2, "known", "object")>>),
    Answer("number", 3, TRUE, <<CallOf(1, "known", "object"), CallOf(2, "known", "broken")>>)}
=============================================================================
