----------------------------- MODULE TokenStream -----------------------------
(***************************************************************************)
(* The way of one generation from the worker thread of core/ai-daemon to   *)
(* the client: generate_impl sends tokens into a bounded channel, the      *)
(* handler task relays them into the bounded response channel of the gRPC  *)
(* stream (or collects them, for the unary call), and the reader thread of *)
(* the desktop shell's AiClient consumes the responses.                    *)
(*                                                                         *)
(* Token n is the n-th non-empty piece the model produces.                 *)
(***************************************************************************)
EXTENDS Integers, Sequences

CONSTANTS
    TokenCap,   \* capacity of the token channel (64 in generate_stream)
    RespCap,    \* capacity of the response channel (64 in stream_generate)
    MaxTokens,  \* bound on the pieces a generation produces
    Calls       \* the kinds of call made: "stream", "unary"

ASSUME CapacityAssumption ==
    /\ TokenCap \in Nat \ {0}
    /\ RespCap \in Nat \ {0}
    /\ MaxTokens \in Nat
    /\ Calls \subseteq {"stream", "unary"}

\* What travels through the channels besides tokens.
FinishItem == 0
ErrorItem == -1
Items == ErrorItem..MaxTokens

VARIABLES
    call,     \* which of the two handlers serves the request
    wpc,      \* the worker: generating, sending its last item, ended
    outcome,  \* how generate_impl ended
    sampled,  \* pieces produced so far
    tokens,   \* the token channel
    relay,    \* the handler task: "recv", "send" or "ended"
    carry,    \* the item the handler is sending
    resp,     \* the response channel
    client,   \* what the client knows about its request
    got       \* tokens the client has (for "unary": the collected text)

vars == <<call, wpc, outcome, sampled, tokens, relay, carry, resp, client, got>>
channels == <<tokens, relay, carry, resp>>

\* The token receiver lives as long as the handler task.
TokenRx == relay # "ended"

\* The response receiver lives as long as the client's call.
RespRx == client = "reading"

-----------------------------------------------------------------------------
(* generate_impl, on the worker thread *)

\* Mutant: a full channel drops the token and the generation goes on.
Sample_DropOnFull ==
    /\ wpc = "generate"
    /\ sampled < MaxTokens
    /\ sampled' = sampled + 1
    /\ tokens' = IF TokenRx /\ Len(tokens) < TokenCap
                 THEN Append(tokens, sampled + 1) ELSE tokens
    /\ UNCHANGED <<call, wpc, outcome, relay, carry, resp, client, got>>

\* A piece is produced and try_send is attempted; a closed and a full
\* channel are the same error, and the generation returns Ok without
\* signalling completion.
Sample ==
    /\ wpc = "generate"
    /\ sampled < MaxTokens
    /\ sampled' = sampled + 1
    /\ IF TokenRx /\ Len(tokens) < TokenCap
       THEN /\ tokens' = Append(tokens, sampled + 1)
            /\ UNCHANGED <<wpc, outcome>>
       ELSE /\ wpc' = "ended"
            /\ outcome' = "aborted"
            /\ UNCHANGED tokens
    /\ UNCHANGED <<call, relay, carry, resp, client, got>>

\* End of generation, the token limit, or an error of the model.
StopSampling(last) ==
    /\ wpc = "generate"
    /\ wpc' = last
    /\ UNCHANGED <<call, outcome, sampled, channels, client, got>>

LastItem == IF wpc = "finish" THEN FinishItem ELSE ErrorItem
LastOutcome == IF wpc = "finish" THEN "complete" ELSE "failed"

\* Mutant: a closed channel does not wake the sender.
SendLast_Deaf ==
    /\ wpc \in {"finish", "fail"}
    /\ Len(tokens) < TokenCap /\ TokenRx
    /\ tokens' = Append(tokens, LastItem)
    /\ wpc' = "ended"
    /\ outcome' = LastOutcome
    /\ UNCHANGED <<call, sampled, relay, carry, resp, client, got>>

\* blocking_send: waits for room, gives up when the receiver is gone.
SendLast ==
    /\ wpc \in {"finish", "fail"}
    /\ \/ /\ ~TokenRx
          /\ UNCHANGED tokens
       \/ /\ TokenRx /\ Len(tokens) < TokenCap
          /\ tokens' = Append(tokens, LastItem)
    /\ wpc' = "ended"
    /\ outcome' = LastOutcome
    /\ UNCHANGED <<call, sampled, relay, carry, resp, client, got>>

WorkerStep == Sample \/ StopSampling("finish") \/ StopSampling("fail") \/ SendLast

-----------------------------------------------------------------------------
(* The task of stream_generate *)

\* The receiver is dropped, with what it still held.
EndRelay == relay' = "ended" /\ tokens' = <<>>

\* token_stream.next() yields an item.
RelayRecv ==
    /\ call = "stream"
    /\ relay = "recv"
    /\ tokens # <<>>
    /\ carry' = Head(tokens)
    /\ tokens' = Tail(tokens)
    /\ relay' = "send"
    /\ UNCHANGED <<call, wpc, outcome, sampled, resp, client, got>>

\* tx.send waits for room; after the last item, or when the client has gone,
\* the loop breaks.
RelaySend ==
    /\ relay = "send"
    /\ IF RespRx
       THEN /\ Len(resp) < RespCap
            /\ resp' = Append(resp, carry)
            /\ IF carry \in {FinishItem, ErrorItem}
               THEN EndRelay
               ELSE relay' = "recv" /\ UNCHANGED tokens
       ELSE EndRelay /\ UNCHANGED resp
    /\ UNCHANGED <<call, wpc, outcome, sampled, carry, client, got>>

\* Mutant: the loop ends only with a last item, not with the channel.
RelayEof_Ignored ==
    /\ call = "stream"
    /\ relay = "recv"
    /\ tokens = <<>>
    /\ wpc = "ended"
    /\ UNCHANGED vars

\* next() yields None: the worker has dropped its sender.
RelayEof ==
    /\ call = "stream"
    /\ relay = "recv"
    /\ tokens = <<>>
    /\ wpc = "ended"
    /\ EndRelay
    /\ UNCHANGED <<call, wpc, outcome, sampled, carry, resp, client, got>>

-----------------------------------------------------------------------------
(* generate: the unary handler collects the text *)

\* The completion item is skipped, an error ends the call, and the end of
\* the token stream is a successful response with is_finished = true.
Collect ==
    /\ call = "unary"
    /\ relay = "recv"
    /\ tokens # <<>>
    /\ IF Head(tokens) = ErrorItem
       THEN EndRelay /\ client' = "error" /\ UNCHANGED got
       ELSE /\ tokens' = Tail(tokens)
            /\ got' = IF Head(tokens) = FinishItem THEN got
                      ELSE Append(got, Head(tokens))
            /\ UNCHANGED <<relay, client>>
    /\ UNCHANGED <<call, wpc, outcome, sampled, carry, resp>>

CollectEof ==
    /\ call = "unary"
    /\ relay = "recv"
    /\ tokens = <<>>
    /\ wpc = "ended"
    /\ EndRelay
    /\ client' = "finished"
    /\ UNCHANGED <<call, wpc, outcome, sampled, carry, resp, got>>

RelayStep == RelayRecv \/ RelaySend \/ RelayEof \/ Collect \/ CollectEof

-----------------------------------------------------------------------------
(* AiClient::runGeneration *)

\* reader->Read: a token, generationFinished, or the status of the stream.
ClientRead ==
    /\ client = "reading"
    /\ resp # <<>>
    /\ resp' = Tail(resp)
    /\ \/ Head(resp) = FinishItem /\ client' = "finished" /\ UNCHANGED got
       \/ Head(resp) = ErrorItem /\ client' = "error" /\ UNCHANGED got
       \/ /\ Head(resp) \notin {FinishItem, ErrorItem}
          /\ got' = Append(got, Head(resp)) /\ UNCHANGED client
    /\ UNCHANGED <<call, wpc, outcome, sampled, tokens, relay, carry>>

\* Read returns false and Finish returns OK: neither generationFinished nor
\* errorOccurred is emitted.
ClientEof ==
    /\ call = "stream"
    /\ client = "reading"
    /\ resp = <<>>
    /\ relay = "ended"
    /\ client' = "silent"
    /\ UNCHANGED <<call, wpc, outcome, sampled, channels, got>>

\* TryCancel, the 180 s deadline, or a connection that breaks.  The future of
\* the unary handler is dropped with its token receiver.
ClientGone ==
    /\ client = "reading"
    /\ client' = "gone"
    /\ resp' = <<>>
    /\ IF call = "unary" THEN EndRelay ELSE UNCHANGED <<tokens, relay>>
    /\ UNCHANGED <<call, wpc, outcome, sampled, carry, got>>

-----------------------------------------------------------------------------

Init ==
    /\ call \in Calls
    /\ wpc = "generate"
    /\ outcome = "none"
    /\ sampled = 0
    /\ tokens = <<>>
    /\ relay = "recv"
    /\ carry = FinishItem
    /\ resp = <<>>
    /\ client = "reading"
    /\ got = <<>>

\* The request is over on both sides.
Terminated ==
    /\ wpc = "ended" /\ relay = "ended" /\ client # "reading"
    /\ UNCHANGED vars

Next ==
    \/ WorkerStep \/ RelayStep
    \/ ClientRead \/ ClientEof \/ ClientGone
    \/ Terminated

Spec == Init /\ [][Next]_vars

\* The worker thread and the handler task keep running.  A client reads or
\* goes away: AiClient's calls have a deadline, and the server's HTTP/2
\* keepalive resets a dead connection.
FairSpec ==
    /\ Spec
    /\ WF_vars(WorkerStep)
    /\ WF_vars(RelayStep)
    /\ WF_vars(ClientRead \/ ClientEof \/ ClientGone)

-----------------------------------------------------------------------------
(* Properties *)

TypeOK ==
    /\ call \in Calls
    /\ wpc \in {"generate", "finish", "fail", "ended"}
    /\ outcome \in {"none", "complete", "aborted", "failed"}
    /\ sampled \in 0..MaxTokens
    /\ tokens \in Seq(Items)
    /\ Len(tokens) <= TokenCap
    /\ relay \in {"recv", "send", "ended"}
    /\ carry \in Items
    /\ resp \in Seq(Items)
    /\ Len(resp) <= RespCap
    /\ client \in {"reading", "finished", "error", "silent", "gone"}
    /\ got \in Seq(1..MaxTokens)

\* What is in the pipeline, from the client's end to the worker's.
Pipeline ==
    got \o resp \o (IF relay = "send" THEN <<carry>> ELSE <<>>) \o tokens

\* The pieces that entered the pipeline: one that was refused did not.
Produced == IF outcome = "aborted" THEN sampled - 1 ELSE sampled

\* While the request is served nothing is lost, repeated or reordered between
\* the worker and the client, whatever the channels' fill levels: the pipeline
\* holds the pieces produced so far, then at most the worker's last item.
NothingLost ==
    client = "reading" /\ relay # "ended" =>
        \E last \in {<<>>, <<FinishItem>>, <<ErrorItem>>} :
            /\ Pipeline = [i \in 1..Produced |-> i] \o last
            /\ last # <<>> => wpc = "ended"

\* A client that saw is_finished has everything the worker put into the
\* channel, and no generation that failed is reported as finished.  The
\* streamed answer is then the whole answer.  The unary handler says
\* is_finished at the end of the channel, so its answer is whole unless the
\* channel was full and the worker gave up: then it is cut there.
FinishedIsComplete ==
    client = "finished" =>
        /\ got = [i \in 1..Produced |-> i]
        /\ outcome = "complete" \/ (call = "unary" /\ outcome = "aborted")

\* A stream ends without is_finished and without an error only when the
\* worker gave up in the middle: a generation that ran to its end, or failed,
\* always tells a client that stayed.
SilentOnlyIfAborted ==
    client = "silent" => outcome = "aborted"

\* The worker thread, which serves every request, is freed again: no reader,
\* however slow, holds it for ever.
WorkerFreed == <>(wpc = "ended")

\* The handler task ends: it does not wait for ever on a worker that gave up
\* without sending its last item.
HandlerEnds == <>(relay = "ended")

\* llama_cpp.rs: "If the receiver has been dropped (client disconnected), we
\* abort generation": an answer is cut short only for a client that has gone.
AbortOnlyAfterDisconnect ==
    outcome = "aborted" => client = "gone"

\* The pipeline delivers: what a client has is what the worker sent, a
\* finished streamed answer is whole, a finished unary one up to the point
\* where a full channel ended it, and a stream that ends without a word was
\* aborted.
PipelineIntact == TypeOK /\ NothingLost /\ FinishedIsComplete /\ SilentOnlyIfAborted
=============================================================================
