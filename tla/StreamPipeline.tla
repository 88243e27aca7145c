---------------------------- MODULE StreamPipeline ----------------------------
(***************************************************************************)
(* One streamed answer (Manager.StreamGenerate, internal/ai/manager.go) on *)
(* its way to a client: the goroutine that replays a cached answer or runs *)
(* the provider, the forwarder goroutine that copies the chunks and caches *)
(* their text, and the gRPC, SSE or WebSocket handler that writes them.    *)
(* The three meet in two channels of Capacity chunks and watch different   *)
(* contexts: a gRPC or SSE request's ends with the client or the handler,  *)
(* a WebSocket request has a context of its own that ends after five       *)
(* minutes or when StreamGenerate returns.                                 *)
(***************************************************************************)
EXTENDS Integers, SequencesExt

CONSTANTS
  Transports,  \* a subset of {"grpc", "sse", "ws"}
  Symbols,     \* the letters and blanks that texts are made of
  Answers,     \* what the service of a model that streams may send: texts
  WholeTexts,  \* what that of a model that does not stream may answer
  CachedTexts, \* what Redis may hold for the key
  Caching,     \* the values of m.cache # nil
  Provided,    \* whether there is a provider for the request
  Native,      \* whether its model streams; Bedrock's llama models do not
  Capacity,    \* of both channels (100 in the code)
  Faults       \* which of "cut", "fail", "leave" and "timeout" may happen

ASSUME StreamAssumption ==
  /\ Transports \subseteq {"grpc", "sse", "ws"}
  /\ Caching \subseteq BOOLEAN /\ Provided \subseteq BOOLEAN
  /\ Native \subseteq BOOLEAN
  /\ Faults \subseteq {"cut", "fail", "leave", "timeout"}
  /\ Capacity \in Nat \ {0}
  /\ {"_", "/"} \subseteq Symbols
  /\ Answers \subseteq Seq(Seq(Symbols))
  /\ WholeTexts \subseteq Seq(Symbols) /\ CachedTexts \subseteq Seq(Symbols)

VARIABLES
  req,         \* the request: its transport, provider, cache and answer
  mgr,         \* where the goroutine that runs StreamGenerate is
  path,        \* where the chunks come from: "cache" or "provider"
  pos,         \* how many of them it has sent
  outcome,     \* what StreamGenerate returns, once it has sent all it will
  inner, innerClosed,  \* intermediateStream
  forwarder, held,     \* the forwarder and the chunk it is about to send
  full,        \* the chunks whose texts are in fullContent
  stored,      \* what Redis holds for the key
  outer, outerClosed,  \* the handler's channel
  handler,     \* the handler's loop
  delivered,   \* the chunks the client has received
  gone,        \* the client has disconnected
  ctxDone      \* the context given to StreamGenerate is done

mgrVars     == <<req, mgr, path, pos, outcome>>
innerVars   == <<inner, innerClosed>>
fwdVars     == <<forwarder, held, full, stored>>
outerVars   == <<outer, outerClosed>>
handlerVars == <<handler, delivered, gone>>
vars == <<mgrVars, innerVars, fwdVars, outerVars, handlerVars, ctxDone>>

NoText  == <<>>          \* Get returns "" for a missing key
Blanks  == {"_", "/"}    \* a space and a line break; other symbols are letters
Nothing == <<>>

Text(t)     == [text |-> t, last |-> FALSE]
FinalChunk  == [text |-> <<>>, last |-> TRUE]
Chunks      == [text : Seq(Symbols), last : BOOLEAN]
Joined(cs)  == FlattenSeq([i \in DOMAIN cs |-> cs[i].text])

\* strings.Fields, the maximal runs of letters, in one pass over a text: the
\* words that have ended, and the letters of the one under way.
NoWords  == [words |-> <<>>, word |-> <<>>]
Ended(s) == IF s.word = <<>> THEN s.words ELSE Append(s.words, s.word)
Reads(s, symbol) ==
  IF symbol \in Blanks THEN [words |-> Ended(s), word |-> <<>>]
  ELSE [s EXCEPT !.word = Append(@, symbol)]
Scan(text) ==
  LET after[i \in 0..Len(text)] ==
        IF i = 0 THEN NoWords ELSE Reads(after[i - 1], text[i])
  IN after[Len(text)]
Fields(text) == Ended(Scan(text))

\* A cached answer is sent word by word, a blank before all but the first.
BareWords(text) ==
  LET words == Fields(text)
  IN [i \in DOMAIN words |-> Text(words[i])]
ReplayChunks(text) ==
  LET words == Fields(text)
  IN [i \in DOMAIN words |-> Text(IF i = 1 THEN words[i] ELSE <<"_">> \o words[i])]

LiveChunks(answer) == [i \in DOMAIN answer |-> Text(answer[i])]

\* A model that cannot stream is asked for its whole answer, whose words are
\* sent with a blank after each.
SimulatedChunks(text) ==
  LET words == Fields(text)
  IN [i \in DOMAIN words |-> Text(words[i] \o <<"_">>)]

Source == CASE path = "cache" -> ReplayChunks(stored)
            [] path # "cache" /\ req.native -> LiveChunks(req.answer)
            [] OTHER -> SimulatedChunks(req.answer[1])

(* A faulty form may stand above a definition, for the mutation runs.      *)

RoomForOneMore(ch) == Len(ch) <= Capacity
Room(ch)           == Len(ch) < Capacity

\* The select of the forwarder takes ctx.Done.
PlainSend        == FALSE
ForwarderGivesUp == ctxDone

\* The chunk the forwarder still holds after it has sent one.
SentTwice == held
AfterSend == Nothing

\* The forwarder caches what it has gathered with the last chunk.
CachesEarly(chunk) == Joined(full) # NoText
Caches(chunk)      == chunk.last /\ Joined(full) # NoText

\* defer close(stream) in the provider.
NeverCloses   == FALSE
ProviderCloses == TRUE

\* HandleWebSocket's goroutine defers cancel() on StreamGenerate.
EveryTransport  == TRUE
CancelsOnReturn == req.transport = "ws"

\* The SSE handler's select has the request's context.
WatchesContext == req.transport = "sse"

-----------------------------------------------------------------------------
\* What a handler has parsed, and what the model will answer to it.
Requests ==
  {r \in [transport : Transports, cached : Caching, provided : Provided,
          native : Native, answer : Answers \union {<<t>> : t \in WholeTexts}] :
     IF r.native THEN r.answer \in Answers
     ELSE \E t \in WholeTexts : r.answer = <<t>>}

Init ==
  /\ req \in Requests
  /\ stored \in (IF req.cached THEN CachedTexts \union {NoText} ELSE {NoText})
  /\ mgr = "lookup" /\ path = "none" /\ pos = 0 /\ outcome = "none"
  /\ inner = <<>> /\ innerClosed = FALSE
  /\ forwarder = "none" /\ held = Nothing /\ full = <<>>
  /\ outer = <<>> /\ outerClosed = FALSE
  /\ handler = "ranging" /\ delivered = <<>>
  /\ gone = FALSE /\ ctxDone = FALSE

(* StreamGenerate.                                                         *)

\* It returns; a WebSocket's goroutine reports an error before it cancels.
Return(result) ==
  /\ outcome' = result
  /\ mgr' = IF result = "error" /\ req.transport = "ws"
            THEN "reporting" ELSE "returned"
  /\ ctxDone' = (ctxDone \/ (CancelsOnReturn /\ result = "nil"))

Hit ==
  /\ mgr = "lookup" /\ stored # NoText
  /\ mgr' = "replaying" /\ path' = "cache"
  /\ UNCHANGED <<req, pos, outcome, innerVars, fwdVars, outerVars,
                 handlerVars, ctxDone>>

\* No entry, or Redis does not answer.
Miss ==
  /\ mgr = "lookup" /\ req.provided
  /\ mgr' = "streaming" /\ path' = "provider"
  /\ forwarder' = IF req.cached THEN "running" ELSE "none"
  /\ UNCHANGED <<req, pos, outcome, innerVars, held, full, stored, outerVars,
                 handlerVars, ctxDone>>

NoProvider ==
  /\ mgr = "lookup" /\ ~req.provided
  /\ Return("error")
  /\ UNCHANGED <<req, path, pos, innerVars, fwdVars, outerVars, handlerVars>>

Replay ==
  /\ mgr = "replaying" /\ pos < Len(Source) /\ Room(outer)
  /\ outer' = Append(outer, Source[pos + 1])
  /\ pos' = pos + 1
  /\ UNCHANGED <<req, mgr, path, outcome, innerVars, fwdVars, outerClosed,
                 handlerVars, ctxDone>>

ReplayEnds ==
  /\ mgr = "replaying" /\ pos = Len(Source) /\ Room(outer)
  /\ outer' = Append(outer, FinalChunk) /\ outerClosed' = TRUE
  /\ Return("nil")
  /\ UNCHANGED <<req, path, pos, innerVars, fwdVars, handlerVars>>

\* ctx.Done: it returns and leaves the channel open.
ReplayGivesUp ==
  /\ mgr = "replaying" /\ ctxDone
  /\ Return("error")
  /\ UNCHANGED <<req, path, pos, innerVars, fwdVars, outerVars, handlerVars>>

(* The provider, in the same goroutine, with a channel to send on.         *)

ProviderSends(chunks, closes) ==
  IF req.cached
  THEN /\ inner' = inner \o chunks
       /\ innerClosed' = (closes /\ ProviderCloses)
       /\ UNCHANGED outerVars
  ELSE /\ outer' = outer \o chunks
       /\ outerClosed' = (closes /\ ProviderCloses)
       /\ UNCHANGED innerVars

Sink == IF req.cached THEN inner ELSE outer

Produce ==
  /\ mgr = "streaming" /\ pos < Len(Source) /\ Room(Sink)
  /\ ProviderSends(<<Source[pos + 1]>>, FALSE)
  /\ pos' = pos + 1
  /\ UNCHANGED <<req, mgr, path, outcome, fwdVars, handlerVars, ctxDone>>

\* The service's stream ends, is cut or is cancelled with the context: each
\* way the final chunk is sent. Azure's provider returns nil after a cut. An
\* answer that is only sent word by word is neither cut nor cancelled.
UpstreamEnds ==
  /\ mgr = "streaming" /\ Room(Sink)
  /\ ProviderSends(<<FinalChunk>>, FALSE)
  /\ \/ pos = Len(Source) /\ outcome' = "nil"
     \/ /\ req.native /\ ("cut" \in Faults \/ ctxDone)
        /\ outcome' \in {"nil", "error"}
  /\ mgr' = "closing"
  /\ UNCHANGED <<req, path, pos, fwdVars, handlerVars, ctxDone>>

\* defer close(stream); then StreamGenerate returns. Meanwhile the forwarder may
\* pass on what is left, and cache it.
UpstreamCloses ==
  /\ mgr = "closing"
  /\ ProviderSends(<<>>, TRUE)
  /\ Return(outcome)
  /\ UNCHANGED <<req, path, pos, fwdVars, handlerVars>>

\* The service refuses the call.
UpstreamFails ==
  /\ mgr = "streaming" /\ pos = 0 /\ ("fail" \in Faults \/ ctxDone)
  /\ ProviderSends(<<>>, TRUE)
  /\ Return("error")
  /\ UNCHANGED <<req, path, pos, fwdVars, handlerVars>>

\* conn.WriteJSON of the error, while the handler may be writing a chunk.
Report ==
  /\ mgr = "reporting"
  /\ mgr' = "returned" /\ ctxDone' = TRUE
  /\ UNCHANGED <<req, path, pos, outcome, innerVars, fwdVars, outerVars,
                 handlerVars>>

(* The forwarder.                                                          *)

Receive ==
  /\ forwarder = "running" /\ held = Nothing /\ inner # <<>>
  /\ held' = <<Head(inner)>> /\ inner' = Tail(inner)
  /\ UNCHANGED <<mgrVars, innerClosed, forwarder, full, stored, outerVars,
                 handlerVars, ctxDone>>

\* cache.Set fails with a context that is done, and may fail without.
Forward ==
  /\ forwarder = "running" /\ held # Nothing /\ Room(outer)
  /\ LET chunk == Head(held)
     IN /\ outer' = Append(outer, chunk)
        /\ full' = IF chunk.last THEN full ELSE Append(full, chunk)
        /\ \/ UNCHANGED stored
           \/ Caches(chunk) /\ ~ctxDone /\ stored' = Joined(full)
  /\ held' = AfterSend
  /\ UNCHANGED <<mgrVars, innerVars, forwarder, outerClosed, handlerVars, ctxDone>>

GiveUp ==
  /\ forwarder = "running" /\ held # Nothing /\ ForwarderGivesUp
  /\ forwarder' = "ended" /\ held' = Nothing /\ outerClosed' = TRUE
  /\ UNCHANGED <<mgrVars, innerVars, full, stored, outer, handlerVars, ctxDone>>

ForwarderEnds ==
  /\ forwarder = "running" /\ held = Nothing /\ inner = <<>> /\ innerClosed
  /\ forwarder' = "ended" /\ outerClosed' = TRUE
  /\ UNCHANGED <<mgrVars, innerVars, held, full, stored, outer, handlerVars, ctxDone>>

(* The handler. The context of a gRPC or SSE request ends with it.         *)

HandlerEnds(how) ==
  /\ handler' = how
  /\ ctxDone' = (ctxDone \/ req.transport # "ws")

Write ==
  /\ handler = "ranging" /\ outer # <<>> /\ ~gone
  /\ delivered' = Append(delivered, Head(outer)) /\ outer' = Tail(outer)
  /\ UNCHANGED <<mgrVars, innerVars, fwdVars, outerClosed, handler, gone, ctxDone>>

\* gRPC's Send and, sooner or later, WriteJSON fail; SSE ignores the error.
WriteFails ==
  /\ handler = "ranging" /\ outer # <<>> /\ gone
  /\ outer' = Tail(outer)
  /\ \/ req.transport # "sse" /\ HandlerEnds("failed")
     \/ req.transport # "grpc" /\ UNCHANGED <<handler, ctxDone>>
  /\ UNCHANGED <<mgrVars, innerVars, fwdVars, outerClosed, delivered, gone>>

SeesClosed ==
  /\ handler = "ranging" /\ outer = <<>> /\ outerClosed
  /\ HandlerEnds("closed")
  /\ UNCHANGED <<mgrVars, innerVars, fwdVars, outerVars, delivered, gone>>

SeesContext ==
  /\ handler = "ranging" /\ WatchesContext /\ ctxDone
  /\ HandlerEnds("left")
  /\ UNCHANGED <<mgrVars, innerVars, fwdVars, outerVars, delivered, gone>>

(* The client and the five minutes of a WebSocket request.                 *)

Leave ==
  /\ "leave" \in Faults /\ handler = "ranging" /\ ~gone
  /\ gone' = TRUE
  /\ ctxDone' = (ctxDone \/ req.transport # "ws")
  /\ UNCHANGED <<mgrVars, innerVars, fwdVars, outerVars, handler, delivered>>

Timeout ==
  /\ "timeout" \in Faults /\ req.transport = "ws"
  /\ mgr # "returned" /\ ~ctxDone
  /\ ctxDone' = TRUE
  /\ UNCHANGED <<mgrVars, innerVars, fwdVars, outerVars, handlerVars>>

-----------------------------------------------------------------------------
Manage == \/ Hit \/ Miss \/ NoProvider
          \/ Replay \/ ReplayEnds \/ ReplayGivesUp
          \/ Produce \/ UpstreamEnds \/ UpstreamCloses \/ UpstreamFails
          \/ Report

ForwardStep == Receive \/ Forward \/ GiveUp \/ ForwarderEnds

Handle == Write \/ WriteFails \/ SeesClosed \/ SeesContext

Next == Manage \/ ForwardStep \/ Handle \/ Leave \/ Timeout

Spec == Init /\ [][Next]_vars

\* Goroutines run, the model service answers or gives up, and a timer fires.
\* A client need not leave.
Fairness == /\ WF_vars(Manage) /\ WF_vars(ForwardStep)
            /\ WF_vars(Handle) /\ WF_vars(Timeout)

FairSpec == Spec /\ Fairness

-----------------------------------------------------------------------------
(* Properties.                                                             *)

TypeOK ==
  /\ req \in Requests
  /\ mgr \in {"lookup", "replaying", "streaming", "closing", "reporting", "returned"}
  /\ path \in {"none", "cache", "provider"} /\ pos \in Nat
  /\ outcome \in {"none", "nil", "error"}
  /\ forwarder \in {"none", "running", "ended"}
  /\ handler \in {"ranging", "closed", "failed", "left"}
  /\ {inner, outer, held, full, delivered} \subseteq Seq(Chunks)
  /\ Len(inner) <= Capacity /\ Len(outer) <= Capacity /\ Len(held) <= 1
  /\ {innerClosed, outerClosed, gone, ctxDone} \subseteq BOOLEAN

\* The client sees the texts of the source in order, without a hole or a
\* repetition, and nothing after the final chunk, whatever is cancelled.
InOrder ==
  \A i \in DOMAIN delivered :
    IF delivered[i].last THEN i = Len(delivered)
    ELSE i <= Len(Source) /\ delivered[i] = Source[i]

\* An answer that the source gave in full and StreamGenerate ended without an
\* error reaches a client that stays to its last chunk, the final one included
\* (README.md:617 "Verificar si terminó").
Complete ==
  handler = "closed" /\ ~gone /\ outcome = "nil" /\ pos = Len(Source) =>
    /\ delivered # <<>> /\ Last(delivered).last
    /\ Front(delivered) = Source

\* gRPC and SSE streams keep that promise: their context outlives the return
\* of StreamGenerate, so the forwarder has time to hand on what it holds.
CompleteUnlessWS == req.transport # "ws" => Complete

\* The three goroutines and their channels do for the client and for Redis what
\* one hand would (StreamPromise): no chunk is lost on the way, repeated or
\* invented, and what a stream puts into Redis is all that the provider sent, and
\* only once it has sent its last chunk (573-615). A cut stream has one as well.
SP == INSTANCE StreamPromise WITH
        Parts  <- [text : Seq(Symbols), last : {FALSE}],
        Final  <- FinalChunk,
        TextOf <- Joined,
        source <- IF path = "none" THEN <<>> ELSE Source,
        sent   <- pos,
        over   <- mgr \in {"closing", "reporting", "returned"},
        told   <- delivered,
        kept   <- stored

FulfilsStreamPromise == SP!SPSpec

\* A client that stays reads the words of the answer, all of them and apart
\* from each other, though not always the blanks between them: those of a
\* cached answer (manager.go 512-551), and those of a complete one, also when
\* the model cannot stream (aws_provider.go 374-405).
WordsKept ==
  handler = "closed" /\ ~gone =>
    /\ path = "cache" => Fields(Joined(delivered)) = Fields(stored)
    /\ path = "provider" /\ req.transport # "ws" /\ outcome = "nil"
         /\ pos = Len(Source) =>
         Fields(Joined(delivered)) = Fields(FlattenSeq(req.answer))

\* A handler whose client stays reaches the end of its stream, unless
\* StreamGenerate came back from one of the returns that leave the channel
\* open: no provider, or a context that ended during a replay (530, 545, 563).
LeftOpen == mgr = "returned" /\ path # "provider" /\ ~outerClosed

\* The SSE handler is freed when its client leaves in any case (handler.go
\* 579-582).
StreamEnds ==
  /\ <>(handler # "ranging" \/ LeftOpen)
  /\ (gone /\ req.transport = "sse") ~> (handler # "ranging")

\* Nothing outlives the handler for ever, but for a provider that waits for
\* room in a channel nobody reads any more.
Stuck == /\ mgr = "streaming" /\ ~Room(Sink)
         /\ IF req.cached THEN forwarder = "ended" ELSE handler # "ranging"

GoroutinesEnd ==
  (handler # "ranging") ~> (forwarder # "running" /\ (mgr = "returned" \/ Stuck))
=============================================================================
