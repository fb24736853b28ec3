-------------------------------- MODULE Adapter --------------------------------
(***************************************************************************)
(* chat_completion_stream of the adapters: libcurl hands the provider's    *)
(* response to stream_write_callback in pieces of its own choosing, a      *)
(* parser cuts it into server-sent events, and the callback of the session *)
(* gets the text of each and the end.  The parser is sse_handler for the   *)
(* providers that speak OpenAI's format (stream/sse_handler.cpp,           *)
(* adapter/openai_compatible_adapter.cpp) and anthropic_stream_parser for  *)
(* Anthropic's (adapter/anthropic_adapter.cpp).                            *)
(*                                                                         *)
(* A response is a sequence of lines and newlines.  A line is one token:   *)
(* where libcurl cuts it does not matter, since both parsers look for the  *)
(* two newlines that end an event before they look at anything else.       *)
(***************************************************************************)
EXTENDS Naturals, Sequences, FiniteSetsExt, SequencesExt

CONSTANTS Texts,         \* data lines that carry a piece of the answer
          Streams        \* responses a provider may give

NL == "newline"
DoneLine == "data: [DONE]"
OtherData == "data: other"             \* data without text, or no JSON at all
DeltaLine == "event: content_block_delta"
StopLine == "event: message_stop"

DataLines == Texts \cup {DoneLine, OtherData}
EventLines == {DeltaLine, StopLine}
Tokens == DataLines \cup EventLines \cup {NL}

Formats == {"openai", "anthropic"}

\* What an event comes to when it is not a text.
End == "end"
Nothing == "nothing"

ASSUME AdapterAssumption ==
  /\ Texts \cap {NL, DoneLine, OtherData, DeltaLine, StopLine, End, Nothing} = {}
  /\ Streams \subseteq Seq(Tokens)

VARIABLES format,        \* the provider's, one of Formats
          stream,        \* the provider's whole response
          pc,            \* "init", "nocurl", "transfer" (between two write
                         \* callbacks), "feed" (the parser's loop), "calls"
                         \* (of the session's callback), "returned", "threw"
          received,      \* tokens handed to the write callback so far
          buffer,        \* the parser's buffer
          done,          \* the parser's done flag
          messages,      \* what feed has found and the session not yet got
          out            \* calls of the session's callback

vars == <<format, stream, pc, received, buffer, done, messages, out>>

Init ==
  /\ format \in Formats
  /\ stream \in Streams
  /\ pc = "init"
  /\ received = 0
  /\ buffer = <<>>
  /\ done = FALSE
  /\ messages = <<>>
  /\ out = <<>>

-----------------------------------------------------------------------------
(* What the parsers make of an event.                                      *)

\* An OpenAI event is one data line; with anything before or after it, it is
\* not the JSON, or the [DONE], it was.  Mutant: the line itself is forwarded.
RawLine(e) == IF e = <<>> THEN Nothing ELSE e[1]
DecodeOpenAI(e) ==
  IF e = <<DoneLine>> THEN End
  ELSE IF Len(e) = 1 /\ e[1] \in Texts THEN e[1]
  ELSE Nothing

\* The last line of an event among some lines, Nothing when there is none.
LastOf(e, lines) ==
  LET at == {i \in DOMAIN e : e[i] \in lines} IN
  IF at = {} THEN Nothing ELSE e[Max(at)]

\* An Anthropic event has an event line and a data line.
DecodeAnthropic(e) ==
  CASE LastOf(e, EventLines) = StopLine -> End
    [] /\ LastOf(e, EventLines) = DeltaLine
       /\ LastOf(e, DataLines) \in Texts   -> LastOf(e, DataLines)
    [] OTHER -> Nothing

Decode(f, e) == IF f = "openai" THEN DecodeOpenAI(e) ELSE DecodeAnthropic(e)

-----------------------------------------------------------------------------
(* http_post_stream.                                                       *)

CurlInitFails ==
  /\ pc = "init"
  /\ pc' = "nocurl"
  /\ out' = <<End>>
  /\ UNCHANGED <<format, stream, received, buffer, done, messages>>

Perform ==
  /\ pc = "init"
  /\ pc' = "transfer"
  /\ UNCHANGED <<format, stream, received, buffer, done, messages, out>>

\* The provider may end the response at any point.
TransferSucceeds ==
  /\ pc = "transfer"
  /\ pc' = "returned"
  /\ UNCHANGED <<format, stream, received, buffer, done, messages, out>>

\* No libcurl, a network error, a stalled transfer, or a status other than 200.
Throw ==
  /\ pc \in {"nocurl", "transfer"}
  /\ pc' = "threw"
  /\ UNCHANGED <<format, stream, received, buffer, done, messages, out>>

-----------------------------------------------------------------------------
(* The write callback: feed, then a call for each of its messages.         *)

WriteCallback(n) ==
  /\ pc = "transfer"
  /\ received + n <= Len(stream)
  /\ buffer' = buffer \o SubSeq(stream, received + 1, received + n)
  /\ received' = received + n
  /\ messages' = <<>>
  /\ pc' = "feed"
  /\ UNCHANGED <<format, stream, done, out>>

\* Where two newlines follow each other.
Breaks(b) == {i \in 1 .. Len(b) - 1 : b[i] = NL /\ b[i + 1] = NL}

\* feed cuts the first event off the buffer.
TakeEvent ==
  /\ pc = "feed"
  /\ Breaks(buffer) # {}
  /\ LET p == Min(Breaks(buffer))
         d == Decode(format, SubSeq(buffer, 1, p - 1))
     IN /\ buffer' = SubSeq(buffer, p + 2, Len(buffer))
        /\ done' = (done \/ d = End)
        /\ messages' = IF d \in {End, Nothing} THEN messages
                       ELSE Append(messages, d)
  /\ UNCHANGED <<format, stream, pc, received, out>>

\* Mutant: what is left of the buffer is thrown away.
Discard(rest) == <<>>
Kept(rest) == rest

\* Mutant: the end is reported before the texts that came with it.
EndFirst ==
  /\ pc = "feed"
  /\ Breaks(buffer) = {}
  /\ buffer' = Kept(buffer)
  /\ out' = IF done THEN Append(out, End) ELSE out
  /\ pc' = "calls"
  /\ UNCHANGED <<format, stream, received, done, messages>>

FeedReturns ==
  /\ pc = "feed"
  /\ Breaks(buffer) = {}
  /\ buffer' = Kept(buffer)
  /\ pc' = "calls"
  /\ UNCHANGED <<format, stream, received, done, messages, out>>

CallText ==
  /\ pc = "calls"
  /\ messages # <<>>
  /\ out' = Append(out, Head(messages))
  /\ messages' = Tail(messages)
  /\ UNCHANGED <<format, stream, pc, received, buffer, done>>

\* The end is reported by every callback from the one that saw it.
CallbackReturns ==
  /\ pc = "calls"
  /\ messages = <<>>
  /\ out' = IF done THEN Append(out, End) ELSE out
  /\ pc' = "transfer"
  /\ UNCHANGED <<format, stream, received, buffer, done, messages>>

Next ==
  \/ CurlInitFails \/ Perform \/ TransferSucceeds \/ Throw
  \/ \E n \in 1 .. Len(stream) : WriteCallback(n)
  \/ TakeEvent \/ FeedReturns \/ CallText \/ CallbackReturns

Spec == Init /\ [][Next]_vars
-----------------------------------------------------------------------------
\* The types of the variables.
TypeOK ==
  /\ format \in Formats
  /\ stream \in Seq(Tokens)
  /\ pc \in {"init", "nocurl", "transfer", "feed", "calls", "returned", "threw"}
  /\ received \in 0 .. Len(stream)
  /\ buffer \in Seq(Tokens)
  /\ done \in BOOLEAN
  /\ messages \in Seq(Texts)
  /\ out \in Seq(Texts \cup {End})

\* Reference: read a response token by token.  A newline is kept back; a second
\* one ends the event, any other token shows that it belonged to the event.
ReadToken(state, token) ==
  LET said == IF state.newline THEN Append(state.event, NL) ELSE state.event IN
  IF token # NL
    THEN [state EXCEPT !.event = Append(said, token), !.newline = FALSE]
  ELSE IF state.newline
    THEN [events  |-> Append(state.events, state.event),
          event   |-> <<>>, newline |-> FALSE]
  ELSE [state EXCEPT !.newline = TRUE]

\* What has been read after each number of tokens.
NothingRead == [events |-> <<>>, event |-> <<>>, newline |-> FALSE]
Reading(tokens) ==
  LET Read[n \in 0 .. Len(tokens)] ==
        IF n = 0 THEN NothingRead
        ELSE ReadToken(Read[n - 1], tokens[n])
  IN Read

Decoded(f, events) == [i \in DOMAIN events |-> Decode(f, events[i])]
Reference == Decoded(format, Reading(stream)[received].events)

\* The texts in a sequence of calls or decoded events, in their order.  (Written
\* out rather than with SelectSeq, of which nothing can be proved.)
AddText(texts, d) == IF d \in {End, Nothing} THEN texts ELSE Append(texts, d)
TextsOf(s) ==
  LET Heard[n \in 0 .. Len(s)] ==
        IF n = 0 THEN <<>> ELSE AddText(Heard[n - 1], s[n])
  IN Heard[Len(s)]
HasEnd(s) == \E i \in DOMAIN s : s[i] = End

(***************************************************************************)
(* However libcurl cuts the response, the session has got, between two     *)
(* write callbacks and at the return, the texts of the complete events     *)
(* received so far, each once and in order, and the end exactly when it is *)
(* among them (sse_handler.h:28-33).                                       *)
(***************************************************************************)
ReadsAsWhole ==
  pc \in {"transfer", "returned"} \/ (pc = "threw" /\ received > 0) =>
    /\ TextsOf(out) = TextsOf(Reference)
    /\ HasEnd(out) = HasEnd(Reference)

\* The providers say nothing after the end of a response.
NoTextAfterEnd ==
  \A f \in Formats, s \in Streams : \A n \in 0 .. Len(s) :
    LET d == Decoded(f, Reading(s)[n].events)
    IN \A i, j \in DOMAIN d : d[i] = End /\ i < j => d[j] \in {End, Nothing}

Source == INSTANCE StreamSource WITH
  said   <- [i \in DOMAIN out |-> IF out[i] = End THEN "end" ELSE "text"],
  status <- IF pc \in {"returned", "threw"} THEN pc ELSE "running"

(***************************************************************************)
(* When no response has text after the end (NoTextAfterEnd), the adapter   *)
(* gives the session what StreamSource promises: also when the last text   *)
(* and the end arrive together, and when more callbacks follow the end.    *)
(***************************************************************************)
ImplementsStreamSource == Source!Spec
=============================================================================
