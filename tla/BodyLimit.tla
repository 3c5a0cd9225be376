------------------------------- MODULE BodyLimit -------------------------------
(***************************************************************************)
(* The request size boundary in front of the application: the messages of  *)
(* a request body are collected until it ends, it turns out too large or   *)
(* the client is gone, and are then replayed to the application.           *)
(*                                                                         *)
(* Sources: BodyLimitMiddleware (app/presentation/body_limit.py).          *)
(*                                                                         *)
(* A message is [bytes |-> n, more |-> b], what ASGI calls an http.request *)
(* with more_body = b; b is FALSE for the last one.  The operators here    *)
(* are the steps of one request; module ToolCalls, whose requests come in  *)
(* through them, gives them their place.                                   *)
(***************************************************************************)
EXTENDS Naturals, Sequences, SequencesExt

CONSTANTS
    Call,       \* requests
    MaxBytes,   \* mcp_max_request_bytes
    MaxChunk,   \* the largest message a client sends
    MaxParts    \* bound on the messages of a body

ASSUME BodyBounds == MaxBytes \in Nat /\ MaxChunk \in Nat /\ MaxParts \in Nat \ {0}

VARIABLES
    sent,       \* messages the client has sent, per request
    messages,   \* those the middleware holds
    size,       \* their bytes, as it has added them up
    index,      \* how many of them it has replayed
    seen        \* messages the application has received

bodyVars == <<sent, messages, size, index, seen>>

Message == [bytes : 0..MaxChunk, more : BOOLEAN]

BodyTypeOK ==
    /\ sent \in [Call -> Seq(Message)]
    /\ messages \in [Call -> Seq(Message)]
    /\ size \in [Call -> Nat]
    /\ index \in [Call -> Nat]
    /\ seen \in [Call -> Seq(Message)]

BodyInit ==
    /\ sent = [c \in Call |-> <<>>]
    /\ messages = [c \in Call |-> <<>>]
    /\ size = [c \in Call |-> 0]
    /\ index = [c \in Call |-> 0]
    /\ seen = [c \in Call |-> <<>>]

\* Fault: only the message at hand is measured.
FitsAlone(c, m) == m.bytes <= MaxBytes

\* "size += len(body)": what is held and message m stay within the limit.
Fits(c, m) == size[c] + m.bytes <= MaxBytes

\* The client sends m; its last message is the last that is allowed for.
Send(c, m) ==
    /\ Len(sent[c]) + 1 = MaxParts => ~m.more
    /\ sent' = [sent EXCEPT ![c] = Append(@, m)]

\* m is within the limit and kept.
Keep(c, m) ==
    /\ Fits(c, m)
    /\ messages' = [messages EXCEPT ![c] = Append(@, m)]
    /\ size' = [size EXCEPT ![c] = @ + m.bytes]
    /\ UNCHANGED <<index, seen>>

\* What the request held is gone with it.
Forget(c) ==
    /\ sent' = [sent EXCEPT ![c] = <<>>]
    /\ messages' = [messages EXCEPT ![c] = <<>>]
    /\ size' = [size EXCEPT ![c] = 0]
    /\ index' = [index EXCEPT ![c] = 0]
    /\ seen' = [seen EXCEPT ![c] = <<>>]

\* Fault: the position moves on before the message is taken.
ReplayLate(c) ==
    /\ index[c] + 1 < Len(messages[c])
    /\ seen' = [seen EXCEPT ![c] = Append(@, messages[c][index[c] + 2])]
    /\ index' = [index EXCEPT ![c] = @ + 1]
    /\ UNCHANGED <<sent, messages, size>>

\* replay: the application's next receive() takes the next message.
Replay(c) ==
    /\ index[c] < Len(messages[c])
    /\ seen' = [seen EXCEPT ![c] = Append(@, messages[c][index[c] + 1])]
    /\ index' = [index EXCEPT ![c] = @ + 1]
    /\ UNCHANGED <<sent, messages, size>>

\* The application has received the message that ends the body.
BodyRead(c) == seen[c] # <<>> /\ ~Last(seen[c]).more

-----------------------------------------------------------------------------
(* What a property says of a body.                                          *)

\* SizeUpTo(body)[i] is the size of the first i messages ...
SizeUpTo(body) ==
    LET upTo[i \in 0..Len(body)] == IF i = 0 THEN 0 ELSE upTo[i - 1] + body[i].bytes
    IN  upTo

\* ... and Size that of all of them.
Size(body) == SizeUpTo(body)[Len(body)]
=============================================================================
