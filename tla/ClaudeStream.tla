---------------------------- MODULE ClaudeStream ----------------------------
(***************************************************************************)
(* A stream of OpenAI chunks turned into the events of a Claude message:   *)
(* the handler that holds back the chunk it got last                       *)
(* (relay/channel/openai/relay-openai.go, helper.go) and the converter     *)
(* StreamResponseOpenAI2Claude with the state it keeps between chunks      *)
(* (service/convert.go, ClaudeConvertInfo).                                *)
(*                                                                         *)
(* A chunk is the sorts of content it carries; the wording is left out.    *)
(***************************************************************************)
EXTENDS Integers, Sequences, FiniteSets, SequencesExt

CONSTANTS
  MaxTools,  \* bound on the parallel tool calls of a message
  MaxChunks, \* bound on the chunks with content
  MaxBlocks  \* bound on the content blocks, more than can be started

ASSUME ClaudeAssumption ==
  /\ MaxTools \in Nat /\ MaxChunks \in Nat \ {0} /\ MaxBlocks \in Nat
  /\ MaxBlocks >= MaxChunks + MaxTools + MaxTools + 1

NoChunk == [choices |-> FALSE, think |-> FALSE, text |-> FALSE, tools |-> <<>>,
            finish |-> FALSE, usage |-> FALSE]
Ev(t, i, k) == [t |-> t, i |-> i, k |-> k]

VARIABLES
  up,      \* the upstream: its stage, the tool calls it began, chunks sent, its way with usage;
           \* cut (its body ended within a line), and for the properties: odd (it took an order
           \* the converter does not follow), lost (text came with a finish without usage)
  held,    \* lastStreamData, a sequence of at most one chunk
  count,   \* info.SendResponseCount
  conv,    \* info.ClaudeConvertInfo
  out,     \* the events of the current chunk that are not sent yet
  ended,   \* HandleFinalResponse was called
  pieces,  \* pieces of content received and not delivered (history)
  phase, blocks, last   \* what the client has seen

client == <<phase, blocks, last>>
vars == <<up, held, count, conv, out, ended, pieces, client>>

\* When an upstream reports usage: with the finish reason, in a chunk of its own after
\* it, in every chunk, or never.
Usages == {"with_finish", "separate", "every", "never"}

Init ==
  /\ up \in [stage : {"first"}, tools : {0}, sent : {0}, usage : Usages,
             cut : {FALSE}, odd : {FALSE}, lost : {FALSE}]
  /\ held = <<>> /\ count = 0 /\ out = <<>> /\ ended = FALSE /\ pieces = 0
  /\ conv = [last |-> "none", idx |-> 0, base |-> 0, max |-> 0, usage |-> FALSE, done |-> FALSE]
  /\ phase = "before" /\ blocks = [i \in 0 .. MaxBlocks - 1 |-> "unused"]
  /\ last = Ev("none", 0, "none")

-----------------------------------------------------------------------------
(* StreamResponseOpenAI2Claude: the new state and the events               *)

StopOpenBlocks(c) ==
  CASE c.last \in {"text", "thinking"} -> <<Ev("block_stop", c.idx, "none")>>
    [] c.last = "tools" -> [n \in 1 .. c.max + 1 |-> Ev("block_stop", c.base + n - 1, "none")]
    [] OTHER -> <<>>

\* Mutant of Advance: the index stays where the tool calls began.
AdvanceTooLittle(c) ==
  CASE c.last = "none" -> c
    [] c.last = "tools" -> [c EXCEPT !.idx = c.base + c.max, !.base = 0, !.max = 0, !.last = "none"]
    [] OTHER -> [c EXCEPT !.last = "none"]

\* stopOpenBlocksAndAdvance
Advance(c) ==
  CASE c.last = "none" -> c
    [] c.last = "tools" -> [c EXCEPT !.idx = c.base + c.max + 1, !.base = 0, !.max = 0, !.last = "none"]
    [] OTHER -> [c EXCEPT !.idx = @ + 1, !.last = "none"]

Result(c, evs) == [c |-> c, evs |-> evs]

\* A piece of text or reasoning; the block is started when it is not the current one.
Words(c, k) ==
  LET d == Advance(c)
  IN IF c.last = k THEN Result(c, <<Ev("delta", c.idx, k)>>)
     ELSE Result([d EXCEPT !.last = k],
                 StopOpenBlocks(c) \o <<Ev("block_start", d.idx, k), Ev("delta", d.idx, k)>>)

\* A piece of a tool call: a name starts its block, arguments are a delta.
ToolEvents(i, tool) ==
  (IF tool.name THEN <<Ev("block_start", i, "tool")>> ELSE <<>>)
  \o (IF tool.args THEN <<Ev("delta", i, "tool")>> ELSE <<>>)

\* Pieces of tool calls: their blocks lie side by side and stay open together.
Tools(c, tools) ==
  LET b == IF c.last = "tools" THEN c
           ELSE [Advance(c) EXCEPT !.base = Advance(c).idx, !.max = 0]
      max == Max({b.max} \cup {tools[n].off : n \in DOMAIN tools})
  IN Result([b EXCEPT !.last = "tools", !.max = max, !.idx = b.base + max],
            (IF c.last = "tools" THEN <<>> ELSE StopOpenBlocks(c))
            \o FlattenSeq([n \in DOMAIN tools |-> ToolEvents(b.base + tools[n].off, tools[n])]))

\* The end of the message; its last delta reports the usage.
Close(r, usage) ==
  Result([r.c EXCEPT !.done = TRUE],
         r.evs \o StopOpenBlocks(r.c)
         \o (IF usage THEN <<Ev("message_delta", 0, "none")>> ELSE <<>>)
         \o <<Ev("message_stop", 0, "none")>>)

\* Words of the chunk that starts the message: their block is always started.
FirstWords(c, k) ==
  IF c.last = k THEN Result(c, <<Ev("block_start", c.idx, k), Ev("delta", c.idx, k)>>)
  ELSE Words(c, k)

\* The chunk that makes SendResponseCount 1 starts the message; of its tool calls
\* only the first is looked at.
FirstChunk(x, c) ==
  LET t == IF x.tools = <<>> THEN Result(c, <<>>)
           ELSE Result([c EXCEPT !.last = "tools", !.base = 0, !.max = 0],
                       ToolEvents(0, [x.tools[1] EXCEPT !.name = TRUE]))
      w == CASE x.think -> FirstWords(t.c, "thinking")
             [] ~x.think /\ x.text -> FirstWords(t.c, "text")
             [] OTHER -> Result(t.c, <<>>)
      r == Result(w.c, <<Ev("message_start", 0, "none")>> \o t.evs \o w.evs)
  IN IF x.finish THEN Close(r, x.usage \/ c.usage) ELSE r

\* The other chunks.  A finish reason without usage is put off until a chunk
\* brings the usage, and what comes with it is dropped.
LaterChunk(x, c) ==
  LET r == CASE x.tools # <<>> -> Tools(c, x.tools)
             [] x.tools = <<>> /\ x.think -> Words(c, "thinking")
             [] x.tools = <<>> /\ ~x.think /\ x.text -> Words(c, "text")
             [] OTHER -> Result(c, <<>>)
  IN CASE ~x.choices -> IF x.usage \/ c.usage THEN Close(Result(c, <<>>), TRUE) ELSE Result(c, <<>>)
       [] x.choices /\ x.finish -> IF x.usage THEN Close(r, TRUE) ELSE Result(c, <<>>)
       [] OTHER -> r

Convert(x, c, n) ==
  CASE c.done -> Result(c, <<>>)
    [] ~c.done /\ n = 1 -> FirstChunk(x, c)
    [] OTHER -> LaterChunk(x, c)

-----------------------------------------------------------------------------
(* The handler                                                             *)

\* What a chunk carries, in deltas.
Pieces(x) ==
  (IF x.think \/ x.text THEN 1 ELSE 0)
  + Cardinality({n \in DOMAIN x.tools : x.tools[n].args})

\* HandleStreamFormat and handleClaudeFormat.
HandleStreamFormat(x) ==
  LET r == Convert(x, [conv EXCEPT !.usage = @ \/ x.usage], count + 1)
  IN count' = count + 1 /\ conv' = r.c /\ out' = r.evs

\* The handler sends on the chunk it holds, when it holds one.
SendHeld == IF held = <<>> THEN UNCHANGED <<count, conv, out>> ELSE HandleStreamFormat(held[1])

\* Mutant of HandleFinalResponse: the last chunk is not converted.
HandleFinalResponseSkipped ==
  /\ out = <<>> /\ ~ended /\ ended' = TRUE /\ held' = <<>>
  /\ conv' = [conv EXCEPT !.usage = TRUE, !.done = TRUE] /\ out' = <<>>
  /\ UNCHANGED <<up, count, pieces, client>>

\* handleLastResponse and HandleFinalResponse, after the scanner has returned for
\* whatever reason: the last chunk is converted, with the usage it brings or an
\* estimate and without counting it.  Without a chunk that can be read nothing is sent.
HandleFinalResponse ==
  /\ out = <<>> /\ ~ended /\ ended' = TRUE /\ held' = <<>>
  /\ IF held = <<>> THEN UNCHANGED <<conv, out>>
     ELSE LET r == Convert(held[1], [conv EXCEPT !.usage = TRUE], count)
          IN conv' = [r.c EXCEPT !.done = TRUE] /\ out' = r.evs
  /\ UNCHANGED <<up, count, pieces, client>>

\* helper.ClaudeData: the events are sent one by one.
Emit ==
  LET e == Head(out)
  IN /\ out # <<>> /\ out' = Tail(out) /\ last' = e
     /\ phase' = CASE e.t = "message_start" -> "open"
                   [] e.t = "message_delta" -> "delta"
                   [] e.t = "message_stop" -> "stopped"
                   [] OTHER -> phase
     /\ blocks' = CASE e.t = "block_start" -> [blocks EXCEPT ![e.i] = e.k]
                    [] e.t = "block_stop" -> [blocks EXCEPT ![e.i] = "closed"]
                    [] OTHER -> blocks
     /\ pieces' = IF e.t = "delta" THEN pieces - 1 ELSE pieces
     /\ UNCHANGED <<up, held, count, conv, ended>>

\* OaiStreamHandler: a chunk comes, the one before it is sent on; the upstream becomes u.
Receive(x, u) ==
  /\ out = <<>> /\ ~ended /\ ~up.cut /\ held' = <<x>> /\ SendHeld
  /\ pieces' = pieces + Pieces(x) /\ up' = [u EXCEPT !.sent = @ + 1]
  /\ UNCHANGED <<ended, client>>

\* The body ends within a line: the rest takes the place of the held chunk and can
\* be read by nobody.
ReceiveRest ==
  /\ out = <<>> /\ ~ended /\ ~up.cut /\ held' = <<>> /\ SendHeld
  /\ up' = [up EXCEPT !.cut = TRUE, !.sent = @ + 1]
  /\ UNCHANGED <<ended, pieces, client>>

-----------------------------------------------------------------------------
(* The upstream: reasoning, text and tool calls in any order, then the     *)
(* finish reason and the usage.  It may end anywhere (HandleFinalResponse).*)

Chunk == [NoChunk EXCEPT !.choices = TRUE, !.usage = (up.usage = "every")]
SendRole == up.stage = "first" /\ Receive(Chunk, [up EXCEPT !.stage = "words"])
SendWords ==
  /\ up.stage \in {"first", "words", "tools"} /\ up.sent < MaxChunks
  /\ \/ Receive([Chunk EXCEPT !.text = TRUE], [up EXCEPT !.stage = "words"])
     \/ Receive([Chunk EXCEPT !.think = TRUE], [up EXCEPT !.stage = "words"])

\* New tool calls are numbered on; a piece of an old one has arguments only.  The
\* converter does not follow tool calls that go on after the words behind them (it
\* counts from the new block, the upstream from the first tool call) nor a second one
\* in the first chunk.
Tool(off, name) == [off |-> off, name |-> name, args |-> TRUE]
WithTools(n, odd) ==
  [up EXCEPT !.stage = "tools", !.tools = n,
             !.odd = @ \/ odd \/ (up.stage = "words" /\ up.tools > 0)]
SendTools ==
  /\ up.stage \in {"first", "words", "tools"} /\ up.sent < MaxChunks
  /\ \/ /\ up.tools < MaxTools
        /\ Receive([Chunk EXCEPT !.tools = <<Tool(up.tools, TRUE)>>], WithTools(up.tools + 1, FALSE))
     \/ /\ up.tools + 1 < MaxTools
        /\ Receive([Chunk EXCEPT !.tools = <<Tool(up.tools, TRUE), Tool(up.tools + 1, TRUE)>>],
                   WithTools(up.tools + 2, up.stage = "first"))
     \/ \E off \in 0 .. up.tools - 1 :
          Receive([Chunk EXCEPT !.tools = <<Tool(off, FALSE)>>], WithTools(up.tools, FALSE))

\* A finish reason in the first chunk is followed by message_stop even when there is no
\* usage for a message_delta.
SendFinish ==
  /\ up.stage \in {"first", "words", "tools"}
  /\ \E text \in BOOLEAN : LET usage == up.usage \in {"with_finish", "every"}
       IN Receive([Chunk EXCEPT !.finish = TRUE, !.text = text, !.usage = usage],
                  [up EXCEPT !.stage = IF up.usage \in {"separate", "every"} THEN "usage" ELSE "end",
                             !.odd = @ \/ up.stage = "first", !.lost = text /\ ~usage])

SendUsage ==
  up.stage = "usage" /\ Receive([NoChunk EXCEPT !.usage = TRUE], [up EXCEPT !.stage = "end"])

Next ==
  \/ SendRole \/ SendWords \/ SendTools \/ SendFinish \/ SendUsage \/ ReceiveRest
  \/ Emit \/ HandleFinalResponse

Spec == Init /\ [][Next]_vars

-----------------------------------------------------------------------------
(* Properties                                                              *)

WordKinds == {"text", "thinking"}
BlockKinds == WordKinds \cup {"tool"}
Index == 0 .. MaxBlocks - 1
ToolType == [off : Nat, name : BOOLEAN, args : BOOLEAN]
ChunkType == [choices : BOOLEAN, think : BOOLEAN, text : BOOLEAN, tools : Seq(ToolType),
              finish : BOOLEAN, usage : BOOLEAN]
ConvType == [last : WordKinds \cup {"none", "tools"}, idx : Nat, base : Nat, max : Nat,
             usage : BOOLEAN, done : BOOLEAN]
ClientType == [phase : {"before", "open", "delta", "stopped"},
               blocks : [Index -> BlockKinds \cup {"unused", "closed"}], pieces : Int]

UpType == [stage : {"first", "words", "tools", "usage", "end"}, tools : 0 .. MaxTools, sent : Nat,
           usage : Usages, cut : BOOLEAN, odd : BOOLEAN, lost : BOOLEAN]

\* Every variable has its type; a chunk is held back at most.
ClaudeTypeOK ==
  /\ up \in UpType /\ held \in Seq(ChunkType) /\ Len(held) <= 1 /\ count \in Nat /\ conv \in ConvType
  /\ ended \in BOOLEAN /\ [phase |-> phase, blocks |-> blocks, pieces |-> pieces] \in ClientType

\* The streams the converter follows: no order it does not know, and three chunks or
\* more.  HandleFinalResponse takes the last of two for the first once more, and the
\* only one for a later one.
Followed == ~up.odd /\ (ended => count >= 2)

\* Every event the client gets is one the Claude protocol allows then: blocks are
\* numbered on, get deltas of their type while open, and are all closed at the end.
\* It holds wherever the upstream or its body ends, of every stream that is followed.
Protocol == INSTANCE ClaudeProtocol
SpeaksClaude == Protocol!Init /\ [][Followed => Protocol!Next]_client

\* When the stream is over the client sees the message as ended, with every block
\* closed, exactly if the finish reason and the usage came: a stream that broke off is
\* never shown as complete.  Every piece that came was delivered, but text that came
\* with a finish reason without usage.
Over == ended /\ out = <<>>
Finished == \/ up.stage = "end" /\ up.usage # "never"
            \/ up.stage = "usage" /\ up.usage = "every"
MessageComplete ==
  Over /\ Followed =>
    /\ phase = "stopped" <=> Finished
    /\ Finished => Protocol!AllClosed
    /\ pieces = IF up.lost THEN 1 ELSE 0
=============================================================================
