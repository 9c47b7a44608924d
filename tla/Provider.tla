------------------------------ MODULE Provider ------------------------------
(***************************************************************************)
(* The built-in agent's model provider: the request that is made of a      *)
(* conversation, and the stream of its answer.                             *)
(***************************************************************************)
EXTENDS Integers, Sequences, FiniteSets, SequencesExt

-----------------------------------------------------------------------------
(***************************************************************************)
(* What the simplest agent sends to a model: ConvertMessages of the three  *)
(* wires (OpenAI chat completions, OpenAI responses, Gemini) turns the     *)
(* messages of a conversation into the items of a request.  A conversation *)
(* is a sequence of messages of content blocks; each call of an assistant  *)
(* message is answered by a tool result right after it, which is what the  *)
(* agent's context builder hands over.                                     *)
(***************************************************************************)

CONSTANTS
    MaxTurns,   \* bound on user messages and assistant turns
    MaxBlocks   \* bound on the blocks of a message

VARIABLES
    wire,           \* "openai", "responses" or "gemini"
    supportsImage,  \* the model takes images
    gemini3,        \* the model is of the Gemini 3 family or later
    context,        \* the messages: [role, blocks, same, id]
    turns,
    items           \* the request: << >> until converted

requestVars == <<wire, supportsImage, gemini3, context, turns, items>>

Blocks(K) == UNION {[1 .. n -> K] : n \in 0 .. MaxBlocks}
CallsIn(m) == {b \in DOMAIN m.blocks : m.blocks[b] = "call"}

RequestInit ==
    /\ wire \in {"openai", "responses", "gemini"}
    /\ supportsImage \in BOOLEAN
    /\ gemini3 \in IF wire = "gemini" THEN BOOLEAN ELSE {FALSE}
    /\ context = <<>> /\ turns = 0 /\ items = <<>>

------------------------------------------------------------------------------
(* The conversation *)

Message(role, blocks, same, id) == [role |-> role, blocks |-> blocks, same |-> same, id |-> id]

AddUser ==
    /\ items = <<>> /\ turns < MaxTurns
    /\ \E blocks \in Blocks({"text", "image"}) :
        context' = Append(context, Message("user", blocks, TRUE, 0))
    /\ turns' = turns + 1
    /\ UNCHANGED <<wire, supportsImage, gemini3, items>>

(* An assistant message and the results of its calls, numbered as they     *)
(* come; "blank" is text of spaces only, and "same" says whether the model *)
(* asked now wrote it.  Reasoning is "thinking" when it has its signature; *)
(* that of a turn that was aborted is "unsigned", and "redacted" is one    *)
(* that is withheld and unsigned.                                          *)
Reasoning == {"thinking", "unsigned", "redacted"}

AddTurn ==
    /\ items = <<>> /\ turns < MaxTurns
    /\ \E blocks \in Blocks(Reasoning \cup {"text", "blank", "call"}), same \in BOOLEAN :
        LET asked == Message("assistant", blocks, same, Len(context) + 1)
            n == Cardinality(CallsIn(asked))
        IN  \E outputs \in [1 .. n -> {<<"text">>, <<"text", "image">>}] :
                context' = Append(context, asked) \o
                    [k \in 1 .. n |-> Message("tool", outputs[k], TRUE, Len(context) + 1)]
    /\ turns' = turns + 1
    /\ UNCHANGED <<wire, supportsImage, gemini3, items>>

------------------------------------------------------------------------------
(* The request: items of [role, parts], a part being [type, from, block]   *)

Part(type, i, b) == [type |-> type, from |-> i, block |-> b]
Item(role, parts) == [role |-> role, parts |-> parts]
NonEmpty(role, parts) == IF parts = <<>> THEN <<>> ELSE <<Item(role, parts)>>

\* The parts made of the blocks of message i that are of these kinds, in order.
PartsOf(i, kinds) ==
    LET kept == SelectSeq([b \in DOMAIN context[i].blocks |-> b],
                          LAMBDA b : context[i].blocks[b] \in kinds)
    IN  [k \in DOMAIN kept |-> Part(context[i].blocks[kept[k]], i, kept[k])]

Kinds(i) == Range(context[i].blocks)
Has(i, kind) == kind \in Kinds(i)

(* userParts, and the responses' loop: images the model does not take are  *)
(* replaced by one placeholder per run of them.                            *)
Placeholders(parts) ==
    LET shown(k) == parts[k].type # "image" \/ k = 1 \/ parts[k - 1].type # "image"
        kept == SelectSeq([k \in DOMAIN parts |-> k], shown)
    IN  [k \in DOMAIN kept |-> IF parts[kept[k]].type = "image"
                               THEN [parts[kept[k]] EXCEPT !.type = "placeholder"]
                               ELSE parts[kept[k]]]

UserParts(i) ==
    LET all == PartsOf(i, Kinds(i)) IN
    IF supportsImage THEN all ELSE Placeholders(all)

\* Without an image the content is the first text.
OpenAIUser(i) ==
    IF Has(i, "image") THEN NonEmpty("user", UserParts(i))
    ELSE NonEmpty("user", SubSeq(UserParts(i), 1, IF UserParts(i) = <<>> THEN 0 ELSE 1))

(* Reasoning is replayed to the model that wrote it only.  The signature   *)
(* is the item of the responses, and names the field of chat completions,  *)
(* in which all reasoning of the turn is then sent.                        *)
Reusable(i) ==
    CASE wire = "openai"    -> IF Has(i, "thinking") THEN Reasoning ELSE {}
      [] wire = "responses" -> {"thinking"}
      [] wire = "gemini"    -> {"thinking", "unsigned"}
Replayed(i) == {"text", "call"} \cup (IF context[i].same THEN Reusable(i) ELSE {})

(* The assistant case of ConvertMessages: chat completions drop text of    *)
(* spaces only, and an empty turn is skipped, unless the model reasoned    *)
(* in it.                                                                  *)
Assistant(i, role) ==
    LET parts == PartsOf(i, Replayed(i) \cup (IF wire = "openai" THEN {} ELSE {"blank"})) IN
    IF wire = "openai" /\ context[i].same /\ Kinds(i) \cap Reasoning # {} THEN <<Item(role, parts)>>
    ELSE NonEmpty(role, parts)

ToolResultOutput(i) ==
    <<Part("result", i, 0)>> \o (IF supportsImage THEN PartsOf(i, {"image"}) ELSE <<>>)

(* orSplitToolCallID is applied to a call and to its result alike. *)
Responses(i) ==
    CASE context[i].role = "user"      -> NonEmpty("user", UserParts(i))
      [] context[i].role = "assistant" ->
            LET item == Assistant(i, "assistant") IN
            IF item = <<>> THEN <<>>
            ELSE [k \in DOMAIN item[1].parts |-> Item("assistant", <<item[1].parts[k]>>)]
      [] context[i].role = "tool"      -> <<Item("tool", ToolResultOutput(i))>>

(* A run of tool results: one message each, then one with all its images.  *)
LastOfRun(i) == i = Len(context) \/ context[i + 1].role # "tool"
RunOf(i) == {j \in 1 .. i : \A k \in j .. i : context[k].role = "tool"}
RunImages(i) == FlattenSeq([j \in 1 .. i |-> IF j \in RunOf(i) THEN PartsOf(j, {"image"}) ELSE <<>>])

OpenAIResults(i) ==
    <<Item("tool", <<Part("result", i, 0)>>)>> \o
        (IF supportsImage /\ LastOfRun(i) THEN NonEmpty("user", RunImages(i)) ELSE <<>>)

OpenAI(i) ==
    CASE context[i].role = "user"      -> OpenAIUser(i)
      [] context[i].role = "assistant" -> Assistant(i, "assistant")
      [] context[i].role = "tool"      -> OpenAIResults(i)

hasFunctionResponse(item) == \E k \in DOMAIN item.parts : item.parts[k].type = "result"

Merges(contents) ==
    contents # <<>> /\ Last(contents).role = "user" /\ hasFunctionResponse(Last(contents))

WithParts(contents, parts) ==
    [contents EXCEPT ![Len(contents)].parts = @ \o parts]

(* Gemini's results: consecutive ones are one user entry; images go into   *)
(* it for Gemini 3 and into an entry of their own before.                  *)
GeminiResult(contents, i) ==
    LET response == <<Part("result", i, 0)>>
        merged == IF Merges(contents) THEN WithParts(contents, response)
                  ELSE Append(contents, Item("user", response))
        images == PartsOf(i, {"image"})
    IN  CASE images = <<>> \/ ~supportsImage -> merged
          [] gemini3 /\ images # <<>> /\ supportsImage -> WithParts(merged, images)
          [] OTHER -> Append(merged, Item("user", images))

(* Gemini's user images are sent whether or not the model takes them. *)
Gemini(contents, i) ==
    CASE context[i].role = "user"      -> contents \o NonEmpty("user", PartsOf(i, Kinds(i)))
      [] context[i].role = "assistant" -> contents \o Assistant(i, "model")
      [] context[i].role = "tool"      -> GeminiResult(contents, i)

ConvertMessages ==
    CASE wire = "openai"    -> FlattenSeq([i \in DOMAIN context |-> OpenAI(i)])
      [] wire = "responses" -> FlattenSeq([i \in DOMAIN context |-> Responses(i)])
      [] wire = "gemini"    -> FoldLeft(Gemini, <<>>, [i \in DOMAIN context |-> i])

(* buildRequest; an empty conversation makes an empty request. *)
BuildRequest ==
    /\ items = <<>> /\ ConvertMessages # <<>>
    /\ items' = ConvertMessages
    /\ UNCHANGED <<wire, supportsImage, gemini3, context, turns>>

RequestNext == AddUser \/ AddTurn \/ BuildRequest

RequestSpec == RequestInit /\ [][RequestNext]_requestVars

------------------------------------------------------------------------------

RequestTypeOK ==
    /\ turns \in 0 .. MaxTurns
    /\ \A k \in DOMAIN items : items[k].role \in {"user", "assistant", "model", "tool"}

Sent(type) == {p \in UNION {Range(items[k].parts) : k \in DOMAIN items} : p.type = type}
CountOf(k, type) == Cardinality({p \in DOMAIN items[k].parts : items[k].parts[p].type = type})
Answers(i) == {j \in DOMAIN context : context[j].role = "tool" /\ context[j].id = i}

(* Each result follows its calls with nothing between: after a chat        *)
(* completion message with calls come exactly that many tool messages, and *)
(* after a Gemini 3 entry with calls one user entry has all the responses. *)
ResultsFollowCalls ==
    \A k \in DOMAIN items :
        LET n == CountOf(k, "call") IN
        /\ (wire = "openai" /\ n > 0) =>
               /\ k + n <= Len(items)
               /\ \A j \in k + 1 .. k + n :
                     items[j].role = "tool" /\
                     Head(items[j].parts).from \in Answers(Head(items[k].parts).from)
        /\ (wire = "gemini" /\ gemini3 /\ n > 0) =>
               /\ k + 1 <= Len(items)
               /\ CountOf(k + 1, "result") = n

(* Each image of the conversation is sent, once, to a model that takes     *)
(* images, and none to an OpenAI model that does not.                      *)
ImagesAsSupported ==
    items # <<>> =>
        LET images == {<<i, b>> \in (DOMAIN context) \X (1 .. MaxBlocks) :
                          b \in DOMAIN context[i].blocks /\ context[i].blocks[b] = "image"}
        IN  IF supportsImage
            THEN /\ {<<p.from, p.block>> : p \in Sent("image")} = images
                 /\ \A im \in images :
                       Cardinality({<<k, p>> \in (DOMAIN items) \X (1 .. 8) :
                           p \in DOMAIN items[k].parts /\
                           items[k].parts[p] = Part("image", im[1], im[2])}) = 1
            ELSE wire # "gemini" => Sent("image") = {}

(* Reasoning another model wrote is never sent, what this one wrote and    *)
(* signed is, and nothing else of an assistant turn is lost but blank text *)
(* and reasoning without a signature, which most wires have no use for.    *)
TurnsReplayed ==
    items # <<>> => \A i \in DOMAIN context : context[i].role = "assistant" =>
        \A b \in DOMAIN context[i].blocks :
            LET kind == context[i].blocks[b] IN
            /\ kind \in Reasoning /\ Part(kind, i, b) \in Sent(kind) => context[i].same
            /\ kind \in {"text", "call"} \/ (kind = "thinking" /\ context[i].same)
                   => Part(kind, i, b) \in Sent(kind)

(* All the text of the user's messages is sent.                            *)
UserTextSent ==
    items # <<>> => \A i \in DOMAIN context : context[i].role = "user" =>
        \A b \in DOMAIN context[i].blocks :
            context[i].blocks[b] = "text" => Part("text", i, b) \in Sent("text")

(* Consecutive function responses are one user entry on every Gemini model *)
(* (the comment in ConvertMessages).                                       *)
ResponsesMerged ==
    wire = "gemini" => \A k \in DOMAIN items :
        CountOf(k, "call") > 0 => k < Len(items) /\ CountOf(k + 1, "result") = CountOf(k, "call")

-----------------------------------------------------------------------------
(***************************************************************************)
(* The providers of simplest: a request to a model, tried again while      *)
(* nothing has come back, and the stream of its answer turned into blocks  *)
(* of text, thinking and tool calls, with one terminal event.  The three   *)
(* wire formats are the chat completions and the responses of OpenAI and   *)
(* the API of Gemini.                                                      *)
(*                                                                         *)
(* A server sends the arguments of a tool call in fragments and labels     *)
(* them in its own way (style); the labels are what a fragment is put      *)
(* together by.                                                            *)
(***************************************************************************)

CONSTANTS MaxRetries, MaxFragments, MaxStreamBlocks

Wires == {"chat", "responses", "gemini"}
\* The index on every fragment and the id on the first; the id on every fragment; both on every
\* fragment; both on the first and the id from then on; the id, then both, then the index from then
\* on; neither, which only one call can have; neither until an id comes at the end.
Parallel == {"indexed", "ids", "both", "indexFirst", "indexLater"}
Styles == Parallel \cup {"bare", "lateId"}
ToolCalls == {1, 2}

VARIABLES
    frames, style,
    optional,  \* the model may leave the finish reason out
    attempt,
    phase,     \* "idle", "request", "stream", "over"
    content,   \* the blocks of the message
    open,      \* the open block of text or thinking, 0 for none
    toolAt,    \* the block of each index, of chat completions
    toolById,  \* the block of each id
    sent,      \* how many fragments of each call the server has sent
    finish,    \* the finish reason or terminal event of the server, or "none"
    terminal   \* the terminal event: "none", or the stop reason
streamVars == <<frames, style, optional, attempt, phase, content, open, toolAt, toolById, sent, finish, terminal>>

StreamInit ==
    /\ frames = "none" /\ style = "none" /\ optional = FALSE /\ attempt = 0 /\ phase = "idle"
    /\ content = <<>> /\ open = 0 /\ toolAt = [i \in {0, 1} |-> 0] /\ toolById = [c \in ToolCalls |-> 0]
    /\ sent = [c \in ToolCalls |-> 0] /\ finish = "none" /\ terminal = "none"

Stream(w, st, opt) ==
    /\ phase = "idle" /\ phase' = "request"
    /\ w # "chat" => st = "ids" /\ ~opt
    /\ frames' = w /\ style' = st /\ optional' = opt
    /\ UNCHANGED <<attempt, content, open, toolAt, toolById, sent, finish, terminal>>

Block(kind, c) == [kind |-> kind, of |-> c, id |-> 0, at |-> -1, ended |-> FALSE, attempt |-> attempt]

\* closeOpen: the open block of text or thinking is ended.
ClosedOpen(blocks) == IF open = 0 THEN blocks ELSE [blocks EXCEPT ![open].ended = TRUE]

\* Only a request that has brought nothing is tried again: ExecuteWithRetry covers the
\* request alone, and Gemini's loop stops once something was emitted.
MayRetry(retryable, emitted) == retryable /\ attempt < MaxRetries /\ ~emitted

\* The request fails, or Gemini's stream breaks; the failure is final (emitter.fail) or
\* the request is made again.
RequestFails(retryable) ==
    /\ phase = "request" \/ (phase = "stream" /\ frames = "gemini")
    /\ IF MayRetry(retryable, phase = "stream")
       THEN /\ attempt' = attempt + 1 /\ phase' = "request"
            /\ UNCHANGED <<content, open, terminal>>
       ELSE /\ terminal' = "error" /\ phase' = "over" /\ open' = 0
            /\ content' = ClosedOpen(content) /\ UNCHANGED attempt
    /\ UNCHANGED <<frames, style, optional, toolAt, toolById, sent, finish>>

Respond ==
    /\ phase = "request" /\ phase' = "stream"
    /\ UNCHANGED <<frames, style, optional, attempt, content, open, toolAt, toolById, sent, finish, terminal>>

\* textDelta and thinkingDelta of the emitter: the block of the kind that is open, or a
\* new one.  The text of the responses, which have events of their own, is left out.
Delta(kind) ==
    /\ phase = "stream" /\ frames # "responses" /\ finish = "none"
    /\ IF open # 0 /\ content[open].kind = kind
       THEN UNCHANGED <<content, open>>
       ELSE /\ Len(content) < MaxStreamBlocks
            /\ content' = Append(ClosedOpen(content), Block(kind, <<>>))
            /\ open' = Len(content) + 1
    /\ UNCHANGED <<frames, style, optional, attempt, phase, toolAt, toolById, sent, finish, terminal>>

\* The label of the next fragment of a call: its index, -1 for none, and its id, 0 for none.
Indexed(c) == CASE style \in {"indexed", "both"} -> TRUE
                [] style = "indexFirst" -> sent[c] = 0
                [] style = "indexLater" -> sent[c] > 0
                [] OTHER -> FALSE
Index(c) == IF Indexed(c) THEN c - 1 ELSE -1
Id(c) == CASE style = "indexed" -> IF sent[c] = 0 THEN c ELSE 0
           [] style \in {"ids", "both", "indexFirst"} -> c
           [] style = "indexLater" -> IF sent[c] < 2 THEN c ELSE 0
           [] style = "bare" -> 0
           [] style = "lateId" -> IF sent[c] + 1 = MaxFragments THEN c ELSE 0

\* Mutant: a fragment without an index always goes to the first call.
AccumulatorFirst(c) == IF Index(c) # -1 THEN toolAt[Index(c)] ELSE toolAt[0]

\* The block a fragment belongs to, 0 for a new one: by its index, then by its id;
\* one without an index may go to the block at index 0, if one of them has no id.
Accumulator(c) ==
    LET byIndex == IF Index(c) # -1 THEN toolAt[Index(c)] ELSE 0
        byId == IF Id(c) # 0 THEN toolById[Id(c)] ELSE 0
        legacy == IF Index(c) = -1 /\ toolAt[0] # 0 /\ (Id(c) = 0 \/ content[toolAt[0]].id = 0) THEN toolAt[0] ELSE 0
    IN  CASE byIndex # 0 -> byIndex
          [] byIndex = 0 /\ byId # 0 -> byId
          [] OTHER -> legacy

\* A fragment gives its index to the block it opens, and to one that was matched and has none yet.
Binds(acc, c) == Index(c) # -1 /\ (acc = 0 \/ (Id(c) # 0 /\ content[acc].at = -1))

\* A fragment of a tool call in chat completions.
Fragment(c) ==
    LET acc == Accumulator(c)
        k == IF acc # 0 THEN acc ELSE Len(content) + 1
        blocks == IF acc # 0 THEN content ELSE Append(ClosedOpen(content), Block("toolCall", <<>>))
    IN  /\ phase = "stream" /\ frames = "chat" /\ finish = "none" /\ sent[c] < MaxFragments
        /\ c > 1 => style \in Parallel
        /\ k <= MaxStreamBlocks
        /\ content' = [blocks EXCEPT ![k].of = Append(@, c), ![k].id = IF @ = 0 THEN Id(c) ELSE @,
                                     ![k].at = IF Binds(acc, c) THEN Index(c) ELSE @]
        /\ open' = IF acc # 0 THEN open ELSE 0
        /\ toolAt' = IF Binds(acc, c) THEN [toolAt EXCEPT ![Index(c)] = k]
                     ELSE IF acc = 0 /\ Index(c) = -1 /\ Id(c) = 0 THEN [toolAt EXCEPT ![0] = k]
                     ELSE toolAt
        /\ toolById' = IF Id(c) # 0 THEN [toolById EXCEPT ![Id(c)] = k] ELSE toolById
        /\ sent' = [sent EXCEPT ![c] = @ + 1]
        /\ UNCHANGED <<frames, style, optional, attempt, phase, finish, terminal>>

\* A call of Gemini comes whole; one of the responses is added, filled and done.
WholeCall(c) ==
    /\ phase = "stream" /\ frames = "gemini" /\ finish = "none" /\ sent[c] = 0 /\ Len(content) < MaxStreamBlocks
    /\ content' = Append(ClosedOpen(content),
                         [Block("toolCall", <<c>>) EXCEPT !.id = c, !.ended = TRUE])
    /\ open' = 0 /\ sent' = [sent EXCEPT ![c] = MaxFragments]
    /\ UNCHANGED <<frames, style, optional, attempt, phase, toolAt, toolById, finish, terminal>>
ItemAdded(c) ==
    /\ phase = "stream" /\ frames = "responses" /\ finish = "none" /\ toolById[c] = 0
    /\ Len(content) < MaxStreamBlocks
    /\ content' = Append(ClosedOpen(content), [Block("toolCall", <<>>) EXCEPT !.id = c])
    /\ open' = 0 /\ toolById' = [toolById EXCEPT ![c] = Len(content) + 1]
    /\ UNCHANGED <<frames, style, optional, attempt, phase, toolAt, sent, finish, terminal>>
ItemDelta(c) ==
    /\ phase = "stream" /\ frames = "responses" /\ toolById[c] # 0 /\ sent[c] < MaxFragments
    /\ content' = [content EXCEPT ![toolById[c]].of = Append(@, c)]
    /\ sent' = [sent EXCEPT ![c] = @ + 1]
    /\ UNCHANGED <<frames, style, optional, attempt, phase, open, toolAt, toolById, finish, terminal>>
ItemDone(c) ==
    /\ phase = "stream" /\ frames = "responses" /\ toolById[c] # 0 /\ sent[c] = MaxFragments
    /\ ~content[toolById[c]].ended
    /\ content' = [content EXCEPT ![toolById[c]].ended = TRUE]
    /\ UNCHANGED <<frames, style, optional, attempt, phase, open, toolAt, toolById, sent, finish, terminal>>

\* The server says how it ended: with a stop, at the length limit, or in error.
Finish(reason) ==
    /\ phase = "stream" /\ finish = "none" /\ finish' = reason
    /\ UNCHANGED <<frames, style, optional, attempt, phase, content, open, toolAt, toolById, sent, terminal>>

HasCalls == \E i \in DOMAIN content : content[i].kind = "toolCall"
Unended == {i \in DOMAIN content : content[i].kind = "toolCall" /\ ~content[i].ended}

\* How the end of the stream is reported.
StopReason(broken, aborted) ==
    IF broken \/ finish = "error" THEN "error"
    ELSE IF aborted THEN "aborted"
    ELSE IF finish = "none" /\ ~optional THEN "error"
    ELSE IF finish = "length" THEN "length"
    ELSE IF ~HasCalls THEN "stop"
    ELSE IF frames = "responses" /\ Unended # {} THEN "error"
    ELSE "toolUse"

\* The stream ends: read to its end, broken, or aborted with the run.  Chat completions
\* end their tool calls here, before the outcome is looked at.
EndStream(broken, aborted) ==
    /\ phase = "stream" /\ (frames = "gemini" => ~broken)
    /\ terminal' = StopReason(broken, aborted) /\ phase' = "over" /\ open' = 0
    /\ content' = [i \in DOMAIN content |->
            IF frames = "chat" /\ content[i].kind = "toolCall" THEN [content[i] EXCEPT !.ended = TRUE]
            ELSE ClosedOpen(content)[i]]
    /\ UNCHANGED <<frames, style, optional, attempt, toolAt, toolById, sent, finish>>

StreamNext ==
    \/ \E w \in Wires, st \in Styles, opt \in BOOLEAN : Stream(w, st, opt)
    \/ \E retryable \in BOOLEAN : RequestFails(retryable)
    \/ Respond
    \/ \E kind \in {"text", "thinking"} : Delta(kind)
    \/ \E c \in ToolCalls : Fragment(c) \/ WholeCall(c) \/ ItemAdded(c) \/ ItemDelta(c) \/ ItemDone(c)
    \/ \E reason \in {"stop", "length", "error"} : Finish(reason)
    \/ \E broken, aborted \in BOOLEAN : EndStream(broken, aborted)

---------------------------------------------------------------------------
\* The fragments of a call are put together and kept apart from those of another,
\* in each style of labels that tells calls apart: a block has fragments of one call,
\* and a call is in one block, so that no tool runs with half its arguments or with
\* another's (the accumulators of Stream, orSlot).  A server that gives two calls one
\* index is beyond the code, for which an index is decisive.
FragmentsTogether ==
    \A i \in DOMAIN content : content[i].kind = "toolCall" =>
        /\ Cardinality(Range(content[i].of)) <= 1
        /\ \A j \in DOMAIN content :
              j # i /\ content[j].kind = "toolCall" => Range(content[i].of) \cap Range(content[j].of) = {}

\* A turn that asks for tools to be run was ended by the server and has every call
\* whole: a stream that broke off, was aborted or ended without a word never makes
\* the agent run what has come of a call, unless the model may end so.
ToolUseIsWhole ==
    terminal = "toolUse" =>
        /\ optional \/ finish = "stop"
        /\ frames # "chat" => Unended = {} /\ \A c \in ToolCalls : sent[c] \in {0, MaxFragments}

\* What is shown and kept of an answer comes from one attempt: an answer that broke
\* off is never continued by that of another request.
OneAttempt == \A i, j \in DOMAIN content : content[i].attempt = content[j].attempt

\* Every block that was started has been ended by the time of the terminal event,
\* in chat completions and Gemini, also when the request fails or is aborted.
BlocksEnded ==
    phase = "over" /\ frames # "responses" => \A i \in DOMAIN content : content[i].ended
=============================================================================
