--------------------------- MODULE StreamPromise ---------------------------
(***************************************************************************)
(* What a streamed answer promises to its client and to the cache, as if   *)
(* one hand passed on the chunks: the client is told the chunks of one     *)
(* source, each once and in order and never ahead of their sender; the     *)
(* final chunk comes after all that was sent, once nothing more will be,   *)
(* and nothing comes after it; and the cache changes only then, to the     *)
(* text of all that was sent. StreamPipeline implements this with three    *)
(* goroutines and two channels, whatever is cancelled on the way.          *)
(***************************************************************************)
EXTENDS Naturals, Sequences

CONSTANTS
  Parts,     \* the chunks that sources are made of
  Final,     \* the final chunk
  TextOf(_)  \* the text of a sequence of chunks

VARIABLES
  source,  \* the chunks there are to send
  sent,    \* how many of them have been sent
  over,    \* nothing more will be sent
  told,    \* the chunks the client has
  kept     \* the text in the cache

spVars == <<source, sent, over, told, kept>>

SPInit == source = <<>> /\ sent = 0 /\ ~over /\ told = <<>>

\* It turns out where the chunks come from.
Choose ==
  /\ source = <<>> /\ sent = 0 /\ ~over /\ told = <<>>
  /\ source' \in Seq(Parts)
  /\ UNCHANGED <<sent, over, told, kept>>

Send ==
  /\ ~over /\ sent < Len(source)
  /\ sent' = sent + 1
  /\ UNCHANGED <<source, over, told, kept>>

\* With the source exhausted or not.
Stop == ~over /\ over' = TRUE /\ UNCHANGED <<source, sent, told, kept>>

Tell ==
  /\ Len(told) < sent
  /\ told' = Append(told, source[Len(told) + 1])
  /\ UNCHANGED <<source, sent, over, kept>>

TellFinal ==
  /\ over /\ Len(told) = sent
  /\ told' = Append(told, Final)
  /\ UNCHANGED <<source, sent, over, kept>>

Keep ==
  /\ over /\ kept' = TextOf(SubSeq(source, 1, sent))
  /\ UNCHANGED <<source, sent, over, told>>

SPNext == Choose \/ Send \/ Stop \/ Tell \/ TellFinal \/ Keep

SPSpec == SPInit /\ [][SPNext]_spVars
=============================================================================
