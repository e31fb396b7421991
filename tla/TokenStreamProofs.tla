------------------------- MODULE TokenStreamProofs -------------------------
(***************************************************************************)
(* Proofs about TokenStream for all capacities of the two channels and any *)
(* number of tokens: the pipeline neither loses, repeats nor reorders what *)
(* the worker produced.                                                    *)
(***************************************************************************)
EXTENDS TokenStream, SequenceTheorems, TLAPS

-----------------------------------------------------------------------------
(* The sequences 1, 2, ..., n with or without a last item.                 *)

Ordered(s, n) ==
    /\ Len(s) \in {n, n + 1}
    /\ \A i \in 1..n : s[i] = i
    /\ Len(s) = n + 1 => s[n + 1] \in {FinishItem, ErrorItem}

\* A non-empty sequence is its head before its tail.
LEMMA HeadThenTail ==
    ASSUME NEW S, NEW q \in Seq(S), q # <<>>
    PROVE  /\ Head(q) \in S /\ <<Head(q)>> \in Seq(S) /\ Tail(q) \in Seq(S)
           /\ q = <<Head(q)>> \o Tail(q)
<1>1. Head(q) \in S /\ Tail(q) \in Seq(S) /\ <<Head(q)>> \in Seq(S)
  BY HeadTailProperties
<1>2. <<Head(q)>> \o Tail(q) \in Seq(S) /\ Len(<<Head(q)>> \o Tail(q)) = Len(q)
  BY <1>1, HeadTailProperties, ConcatProperties, EmptySeq
<1>3. \A i \in 1..Len(q) : (<<Head(q)>> \o Tail(q))[i] = q[i]
  BY <1>1, HeadTailProperties, ConcatProperties
<1>4. QED
  BY <1>2, <1>3, SeqEqual

\* Taking an item from the back part and putting it at the end of the front
\* part leaves the whole as it was.
LEMMA MoveItem ==
    ASSUME NEW S, NEW p \in Seq(S), NEW q \in Seq(S), q # <<>>
    PROVE  /\ p \o q = Append(p, Head(q)) \o Tail(q)
           /\ p \o q = (p \o <<Head(q)>>) \o Tail(q)
<1>1. Head(q) \in S /\ <<Head(q)>> \in Seq(S) /\ Tail(q) \in Seq(S)
  BY HeadThenTail
<1>2. p \o q = p \o (<<Head(q)>> \o Tail(q))
  BY HeadThenTail
<1>3. p \o (<<Head(q)>> \o Tail(q)) = (p \o <<Head(q)>>) \o Tail(q)
  BY <1>1, ConcatAssociative
<1>4. Append(p, Head(q)) = p \o <<Head(q)>>
  BY <1>1, AppendIsConcat
<1>5. QED
  BY <1>2, <1>3, <1>4

\* Appending to the back part appends to the whole.
LEMMA AppendBack ==
    ASSUME NEW S, NEW p \in Seq(S), NEW q \in Seq(S), NEW e \in S
    PROVE  p \o Append(q, e) = Append(p \o q, e)
<1>1. <<e>> \in Seq(S) /\ p \o q \in Seq(S)
  BY ConcatProperties
<1>2. p \o (q \o <<e>>) = (p \o q) \o <<e>>
  BY <1>1, ConcatAssociative
<1>3. QED
  BY <1>1, <1>2, AppendIsConcat

\* Nothing follows a last item, and everything precedes it.
LEMMA NothingAfterLast ==
    ASSUME NEW n \in Nat, NEW p \in Seq(Items), NEW q \in Seq(Items),
           NEW c \in {FinishItem, ErrorItem}, Ordered((p \o <<c>>) \o q, n)
    PROVE  /\ q = <<>>
           /\ Len((p \o <<c>>) \o q) = n + 1 /\ ((p \o <<c>>) \o q)[n + 1] = c
           /\ Len(p) = n /\ \A i \in 1..n : p[i] = i
<1> DEFINE s == (p \o <<c>>) \o q
<1>1. c \in Items /\ <<c>> \in Seq(Items)
  BY CapacityAssumption DEF Items, FinishItem, ErrorItem
<1>2. /\ p \o <<c>> \in Seq(Items) /\ Len(p \o <<c>>) = Len(p) + 1
      /\ Len(p) \in Nat /\ Len(q) \in Nat
      /\ \A i \in 1..Len(p) : (p \o <<c>>)[i] = p[i]
      /\ (p \o <<c>>)[Len(p) + 1] = c
  BY <1>1, ConcatProperties, LenProperties
<1>3. /\ s \in Seq(Items) /\ Len(s) = Len(p) + 1 + Len(q)
      /\ \A i \in 1..Len(p) : s[i] = p[i]
      /\ s[Len(p) + 1] = c
  BY <1>2, ConcatProperties
<1> HIDE DEF s
<1>4. Len(p) + 1 \notin 1..n
  BY <1>2, <1>3 DEF Ordered, s, FinishItem, ErrorItem
<1>5. Len(p) = n /\ Len(q) = 0
  BY <1>2, <1>3, <1>4 DEF Ordered, s
<1>6. q = <<>>
  BY <1>5, EmptySeq
<1>7. QED
  BY <1>3, <1>5, <1>6 DEF Ordered, s

-----------------------------------------------------------------------------
(* The inductive invariant.                                                *)

\* Somebody still consumes what the worker sends.  The task of a stream has
\* handed everything on when it ends, the unary call has returned.
Served == client = "reading" /\ (call = "stream" \/ relay # "ended")

\* The pipeline holds what was produced; a last item tells how the worker
\* ended.  When the worker has ended it is lacking only after an abort, or
\* where the unary handler has skipped it.
PipelineInv == Served =>
    /\ Ordered(Pipeline, Produced)
    /\ Len(Pipeline) = Produced + 1 =>
         outcome = (IF Pipeline[Produced + 1] = FinishItem THEN "complete" ELSE "failed")
    /\ Len(Pipeline) = Produced =>
         \/ wpc # "ended" \/ outcome = "aborted"
         \/ call = "unary" /\ outcome = "complete"

\* How the worker's end, the handler's end and the client's news relate.
Ends ==
    /\ outcome = "none" <=> wpc # "ended"
    /\ outcome = "aborted" => sampled >= 1
    /\ relay = "ended" => tokens = <<>>
    /\ call = "unary" => resp = <<>> /\ relay # "send" /\ (relay = "recv" => client = "reading")
    /\ call = "stream" /\ client = "reading" /\ relay = "ended" => wpc = "ended"

IInv == TypeOK /\ PipelineInv /\ Ends /\ FinishedIsComplete /\ SilentOnlyIfAborted

\* The parts of the pipeline, with its items and from the client's end on.
Carried == IF relay = "send" THEN <<carry>> ELSE <<>>

LEMMA PipelineParts ==
    ASSUME TypeOK
    PROVE  /\ got \in Seq(Items) /\ resp \in Seq(Items) /\ tokens \in Seq(Items)
           /\ Carried \in Seq(Items) /\ got \o resp \in Seq(Items)
           /\ (got \o resp) \o Carried \in Seq(Items)
           /\ Pipeline = ((got \o resp) \o Carried) \o tokens
           /\ Pipeline \in Seq(Items)
<1>1. 1..MaxTokens \subseteq Items
  BY CapacityAssumption DEF Items, ErrorItem
<1>2. got \in Seq(Items) /\ resp \in Seq(Items) /\ tokens \in Seq(Items)
  BY <1>1, SeqMonotonic DEF TypeOK
<1>3. Carried \in Seq(Items)
  BY DEF TypeOK, Carried
<1>4. Pipeline = ((got \o resp) \o Carried) \o tokens
  BY DEF Pipeline, Carried
<1>5. QED
  BY <1>2, <1>3, <1>4, ConcatProperties

\* Every step keeps the types: no channel overflows, only tokens reach got.
LEMMA TypeStep == TypeOK /\ [Next]_vars => TypeOK'
<1> SUFFICES ASSUME TypeOK, [Next]_vars
             PROVE  TypeOK'
  OBVIOUS
<1>0. /\ MaxTokens \in Nat /\ FinishItem \in Items /\ ErrorItem \in Items
      /\ \A k \in 0..MaxTokens : k \in Items
      /\ \A k \in Items : k \notin {FinishItem, ErrorItem} => k \in 1..MaxTokens
      /\ <<>> \in Seq(Items) /\ Len(<<>>) = 0 /\ TokenCap \in Nat /\ RespCap \in Nat
  BY CapacityAssumption, EmptySeq DEF Items, FinishItem, ErrorItem
<1>e. <<>> \in Seq(Items) /\ Len(<<>>) <= TokenCap /\ Len(<<>>) <= RespCap
  BY <1>0
<1>t. ASSUME tokens # <<>>
      PROVE  /\ Head(tokens) \in Items /\ Tail(tokens) \in Seq(Items)
             /\ Len(Tail(tokens)) <= TokenCap
  BY <1>0, <1>t, HeadTailProperties, LenProperties DEF TypeOK
<1>r. ASSUME resp # <<>>
      PROVE  /\ Head(resp) \in Items /\ Tail(resp) \in Seq(Items)
             /\ Len(Tail(resp)) <= RespCap
  BY <1>0, <1>r, HeadTailProperties, LenProperties DEF TypeOK
<1>a. ASSUME NEW e \in Items
      PROVE  /\ Append(tokens, e) \in Seq(Items)
             /\ Len(tokens) < TokenCap => Len(Append(tokens, e)) <= TokenCap
             /\ Append(resp, e) \in Seq(Items)
             /\ Len(resp) < RespCap => Len(Append(resp, e)) <= RespCap
             /\ e \notin {FinishItem, ErrorItem} => Append(got, e) \in Seq(1..MaxTokens)
  BY <1>0, AppendProperties, LenProperties DEF TypeOK
<1> USE DEF TypeOK, channels
<1>1. CASE WorkerStep
  <2>1. CASE Sample
    <3>1. sampled + 1 \in Items /\ sampled + 1 \in 0..MaxTokens
      BY <1>0, <2>1 DEF Sample
    <3>2. CASE TokenRx /\ Len(tokens) < TokenCap
      BY <1>a, <2>1, <3>1, <3>2 DEF Sample
    <3>3. CASE ~(TokenRx /\ Len(tokens) < TokenCap)
      BY <2>1, <3>1, <3>3 DEF Sample
    <3>4. QED
      BY <3>2, <3>3
  <2>2. ASSUME NEW last \in {"finish", "fail"}, StopSampling(last)
        PROVE  TypeOK'
    BY <2>2 DEF StopSampling
  <2>3. CASE SendLast
    <3>1. LastItem \in Items /\ LastOutcome \in {"complete", "failed"}
      BY <1>0 DEF LastItem, LastOutcome
    <3>2. tokens' \in Seq(Items) /\ Len(tokens') <= TokenCap
      BY <1>a, <2>3, <3>1 DEF SendLast
    <3>3. QED
      BY <2>3, <3>1, <3>2 DEF SendLast
  <2>4. QED
    BY <1>1, <2>1, <2>2, <2>3 DEF WorkerStep
<1>2. CASE RelayRecv
  BY <1>t, <1>2 DEF RelayRecv
<1>3. CASE RelaySend \/ RelayEof
  <2>1. tokens' \in Seq(Items) /\ Len(tokens') <= TokenCap
    <3>1. tokens' \in {tokens, <<>>}
      BY <1>3 DEF RelaySend, RelayEof, EndRelay
    <3>2. QED
      BY <1>e, <3>1
  <2>2. resp' \in Seq(Items) /\ Len(resp') <= RespCap
    BY <1>a, <1>3 DEF RelaySend, RelayEof
  <2>3. QED
    BY <1>3, <2>1, <2>2 DEF RelaySend, RelayEof, EndRelay
<1>4. CASE Collect
  <2>1. tokens' \in Seq(Items) /\ Len(tokens') <= TokenCap
    <3>1. tokens' \in {Tail(tokens), <<>>}
      BY <1>4 DEF Collect, EndRelay
    <3>2. QED
      BY <1>e, <1>t, <1>4, <3>1 DEF Collect
  <2>2. got' \in Seq(1..MaxTokens)
    BY <1>t, <1>a, <1>4 DEF Collect
  <2>3. QED
    BY <1>4, <2>1, <2>2 DEF Collect, EndRelay
<1>5. CASE CollectEof \/ ClientEof \/ ClientGone
  <2>1. /\ tokens' \in Seq(Items) /\ Len(tokens') <= TokenCap
        /\ resp' \in Seq(Items) /\ Len(resp') <= RespCap
    <3>1. tokens' \in {tokens, <<>>} /\ resp' \in {resp, <<>>}
      BY <1>5 DEF CollectEof, ClientEof, ClientGone, EndRelay
    <3>2. QED
      BY <1>e, <3>1
  <2>2. QED
    BY <1>5, <2>1 DEF CollectEof, ClientEof, ClientGone, EndRelay
<1>6. CASE ClientRead
  <2>1. resp' \in Seq(Items) /\ Len(resp') <= RespCap
    BY <1>r, <1>6 DEF ClientRead
  <2>2. got' \in Seq(1..MaxTokens)
    BY <1>r, <1>a, <1>6 DEF ClientRead
  <2>3. QED
    BY <1>6, <2>1, <2>2 DEF ClientRead
<1>7. CASE Terminated \/ UNCHANGED vars
  BY <1>7 DEF Terminated, vars
<1>8. QED
  BY <1>1, <1>2, <1>3, <1>4, <1>5, <1>6, <1>7 DEF Next, RelayStep

-----------------------------------------------------------------------------
(* What the steps do to the pipeline.                                      *)

\* Handing an item on, from one part of the pipeline to the next, leaves the
\* pipeline as it was.
LEMMA HandOver ==
    ASSUME TypeOK, TypeOK', Ends,
           \/ RelayRecv
           \/ RelaySend /\ RespRx /\ tokens' = tokens
           \/ RelayEof
           \/ ClientRead /\ got' # got
           \/ Collect /\ got' # got
    PROVE  Pipeline' = Pipeline
<1> DEFINE p == got \o resp
<1>0. /\ got \in Seq(Items) /\ resp \in Seq(Items) /\ tokens \in Seq(Items)
      /\ carry \in Items /\ p \in Seq(Items) /\ <<>> \in Seq(Items)
      /\ <<carry>> \in Seq(Items)
      /\ p \o <<>> = p /\ got \o <<>> = got
  BY PipelineParts, ConcatEmptySeq DEF TypeOK
<1>1. CASE RelayRecv
  <2>1. Pipeline = (p \o <<>>) \o tokens
    BY <1>1 DEF RelayRecv, Pipeline
  <2>2. Pipeline' = (p \o <<Head(tokens)>>) \o Tail(tokens)
    BY <1>1 DEF RelayRecv, Pipeline
  <2>3. tokens # <<>>
    BY <1>1 DEF RelayRecv
  <2> HIDE DEF p
  <2>4. QED
    BY <1>0, <2>1, <2>2, <2>3, MoveItem
<1>2. CASE RelaySend /\ RespRx /\ tokens' = tokens
  <2>1. Pipeline = (p \o <<carry>>) \o tokens
    BY <1>2 DEF RelaySend, Pipeline
  <2>2. Pipeline' = ((got \o Append(resp, carry)) \o <<>>) \o tokens
    BY <1>2 DEF RelaySend, EndRelay, Pipeline
  <2>3. got \o Append(resp, carry) = p \o <<carry>>
    BY <1>0, AppendBack, AppendIsConcat
  <2>4. (p \o <<carry>>) \o <<>> = p \o <<carry>>
    <3>1. p \o <<carry>> \in Seq(Items)
      BY <1>0, ConcatProperties
    <3>2. QED
      BY <3>1, ConcatEmptySeq
  <2> HIDE DEF p
  <2>5. QED
    BY <2>1, <2>2, <2>3, <2>4
<1>3. CASE RelayEof
  BY <1>3 DEF RelayEof, EndRelay, Pipeline
<1>4. CASE ClientRead /\ got' # got
  <2>1. got' = Append(got, Head(resp)) /\ resp' = Tail(resp) /\ resp # <<>>
        /\ UNCHANGED <<relay, carry, tokens>>
    BY <1>4 DEF ClientRead
  <2>2. got' \o resp' = got \o resp
    BY <1>0, <2>1, MoveItem
  <2>3. QED
    BY <2>1, <2>2 DEF Pipeline
<1>5. CASE Collect /\ got' # got
  <2>1. /\ got' = Append(got, Head(tokens)) /\ tokens' = Tail(tokens) /\ tokens # <<>>
        /\ resp = <<>> /\ resp' = <<>> /\ relay = "recv" /\ relay' = "recv"
    BY <1>5 DEF Collect, Ends
  <2>2. Pipeline = ((got \o <<>>) \o <<>>) \o tokens
    BY <2>1 DEF Pipeline
  <2>3. Pipeline' = ((Append(got, Head(tokens)) \o <<>>) \o <<>>) \o Tail(tokens)
    BY <2>1 DEF Pipeline
  <2>4. Append(got, Head(tokens)) \in Seq(Items)
    BY <1>0, <2>1, HeadTailProperties, AppendProperties
  <2>5. Append(got, Head(tokens)) \o <<>> = Append(got, Head(tokens))
    BY <2>4, ConcatEmptySeq
  <2>6. got \o tokens = Append(got, Head(tokens)) \o Tail(tokens)
    BY <1>0, <2>1, MoveItem
  <2>7. QED
    BY <1>0, <2>2, <2>3, <2>5, <2>6
<1>6. QED
  BY <1>1, <1>2, <1>3, <1>4, <1>5

\* What the worker sends is appended to the pipeline.
LEMMA Produce ==
    ASSUME TypeOK, NEW e \in Items, tokens' = Append(tokens, e),
           UNCHANGED <<relay, carry, resp, got>>
    PROVE  Pipeline' = Append(Pipeline, e)
<1> DEFINE p == (got \o resp) \o Carried
<1>1. p \in Seq(Items) /\ tokens \in Seq(Items) /\ Pipeline = p \o tokens
  BY PipelineParts
<1>2. Pipeline' = p \o Append(tokens, e)
  BY DEF Pipeline, Carried
<1> HIDE DEF p
<1>3. QED
  BY <1>1, <1>2, AppendBack

\* A pipeline that ends where production stands grows by one item.
LEMMA OrderedGrows ==
    ASSUME NEW s \in Seq(Items), NEW n \in Nat, Ordered(s, n), Len(s) = n, NEW e \in Items
    PROVE  /\ Len(Append(s, e)) = n + 1 /\ Append(s, e)[n + 1] = e
           /\ e = n + 1 => Ordered(Append(s, e), n + 1)
           /\ e \in {FinishItem, ErrorItem} => Ordered(Append(s, e), n)
<1>1. /\ Len(Append(s, e)) = n + 1 /\ Append(s, e)[n + 1] = e
      /\ \A i \in 1..n : Append(s, e)[i] = i
  BY AppendProperties DEF Ordered
<1>2. QED
  BY <1>1 DEF Ordered

\* A last item that is about to be handed on, or read, is the only one left.
LEMMA LastInPipeline ==
    ASSUME TypeOK, PipelineInv, Ends, Served,
           NEW front \in Seq(Items), NEW back \in Seq(Items),
           NEW c \in {FinishItem, ErrorItem}, Pipeline = (front \o <<c>>) \o back
    PROVE  /\ back = <<>> /\ wpc = "ended"
           /\ outcome = (IF c = FinishItem THEN "complete" ELSE "failed")
           /\ Produced = sampled /\ Len(front) = sampled
           /\ \A i \in 1..sampled : front[i] = i
<1>1. Produced \in Nat /\ Ordered(Pipeline, Produced)
  BY DEF TypeOK, Ends, PipelineInv, Produced
<1>2. /\ back = <<>> /\ Len(Pipeline) = Produced + 1 /\ Pipeline[Produced + 1] = c
      /\ Len(front) = Produced /\ \A i \in 1..Produced : front[i] = i
  BY <1>1, NothingAfterLast
<1>3. outcome = (IF c = FinishItem THEN "complete" ELSE "failed")
  BY <1>2 DEF PipelineInv
<1>4. wpc = "ended" /\ Produced = sampled
  BY <1>3 DEF Ends, Produced
<1>5. QED
  BY <1>2, <1>3, <1>4

\* The worker's steps keep what the pipeline holds.
LEMMA WorkerKeeps ==
    ASSUME TypeOK, PipelineInv, Ends, WorkerStep
    PROVE  PipelineInv' /\ Ends'
<1>1. CASE Sample
  <2>1. Ends'
    <3>1. sampled' \in Nat /\ sampled' >= 1
      BY <1>1, CapacityAssumption DEF Sample, TypeOK
    <3>2. /\ outcome' = "none" <=> wpc' # "ended"
          /\ relay' = "ended" => tokens' = <<>>
      BY <1>1 DEF Sample, TokenRx, Ends
    <3>3. /\ call' = "unary" => resp' = <<>> /\ relay' # "send" /\ (relay' = "recv" => client' = "reading")
          /\ call' = "stream" /\ client' = "reading" /\ relay' = "ended" => wpc' = "ended"
      BY <1>1 DEF Sample, Ends
    <3>4. QED
      BY <3>1, <3>2, <3>3 DEF Ends
  <2>2. ASSUME Served'
        PROVE  /\ Ordered(Pipeline, sampled) /\ Len(Pipeline) = sampled
               /\ relay # "ended" /\ Pipeline \in Seq(Items)
    <3>1. Served /\ Produced = sampled /\ outcome = "none" /\ relay # "ended"
      BY <1>1, <2>2 DEF Sample, Served, Ends, Produced, TypeOK
    <3>2. QED
      BY <3>1, PipelineParts DEF PipelineInv, Ordered
  <2>3. CASE TokenRx /\ Len(tokens) < TokenCap
    <3>1. /\ tokens' = Append(tokens, sampled + 1) /\ UNCHANGED <<wpc, outcome>>
          /\ sampled' = sampled + 1 /\ sampled + 1 \in Items /\ sampled \in Nat
          /\ wpc = "generate" /\ outcome = "none"
          /\ UNCHANGED <<relay, carry, resp, got>>
      BY <1>1, <2>3, CapacityAssumption DEF Sample, TypeOK, Items, ErrorItem, Ends
    <3>2. Pipeline' = Append(Pipeline, sampled + 1) /\ Produced' = sampled + 1
      BY <3>1, Produce DEF Produced
    <3>3. Served' => Ordered(Pipeline', sampled + 1) /\ Len(Pipeline') = sampled + 1
      BY <2>2, <3>1, <3>2, OrderedGrows
    <3>4. PipelineInv'
      BY <3>1, <3>2, <3>3 DEF PipelineInv
    <3>5. QED
      BY <2>1, <3>4
  <2>4. CASE ~(TokenRx /\ Len(tokens) < TokenCap)
    <3>1. /\ Pipeline' = Pipeline /\ sampled \in Nat
          /\ sampled' = sampled + 1 /\ outcome' = "aborted"
      BY <1>1, <2>4 DEF Sample, Pipeline, TypeOK
    <3>2. Produced' = sampled
      BY <3>1 DEF Produced
    <3>3. PipelineInv'
      BY <2>2, <3>1, <3>2 DEF PipelineInv
    <3>4. QED
      BY <2>1, <3>3
  <2>5. QED
    BY <2>3, <2>4
<1>2. ASSUME NEW last \in {"finish", "fail"}, StopSampling(last)
      PROVE  PipelineInv' /\ Ends'
  <2>1. Ends'
    BY <1>2 DEF StopSampling, channels, Ends
  <2>2. /\ Pipeline' = Pipeline /\ Produced' = Produced /\ (Served' <=> Served)
        /\ outcome' = outcome /\ wpc' # "ended"
    BY <1>2 DEF StopSampling, channels, Pipeline, Produced, Served
  <2>3. QED
    BY <2>1, <2>2 DEF PipelineInv
<1>3. CASE SendLast
  <2>1. Ends'
    BY <1>3 DEF SendLast, LastOutcome, TokenRx, Ends
  <2>2. /\ LastItem \in {FinishItem, ErrorItem} /\ LastItem \in Items
        /\ outcome' = (IF LastItem = FinishItem THEN "complete" ELSE "failed")
        /\ sampled \in Nat /\ Produced' = sampled /\ Produced = sampled
    BY <1>3, CapacityAssumption
       DEF SendLast, LastItem, LastOutcome, FinishItem, ErrorItem, Items, Produced, Ends, TypeOK
  <2>3. ASSUME Served'
        PROVE  /\ Ordered(Pipeline', sampled) /\ Len(Pipeline') = sampled + 1
               /\ Pipeline'[sampled + 1] = LastItem
    <3>1. Served /\ outcome = "none" /\ relay # "ended"
      BY <1>3, <2>3 DEF SendLast, Served, Ends
    <3>2. Ordered(Pipeline, sampled) /\ Len(Pipeline) = sampled /\ Pipeline \in Seq(Items)
      BY <2>2, <3>1, PipelineParts DEF PipelineInv, Ordered
    <3>3. Pipeline' = Append(Pipeline, LastItem)
      BY <1>3, <2>2, <3>1, Produce DEF SendLast, TokenRx
    <3>4. QED
      BY <2>2, <3>2, <3>3, OrderedGrows
  <2>4. PipelineInv'
    BY <2>2, <2>3 DEF PipelineInv
  <2>5. QED
    BY <2>1, <2>4
<1>4. QED
  BY <1>1, <1>2, <1>3 DEF WorkerStep

\* The handler's steps keep what the pipeline holds, until nobody is served.
LEMMA RelayKeeps ==
    ASSUME TypeOK, TypeOK', PipelineInv, Ends, RelayStep
    PROVE  PipelineInv' /\ Ends'
<1>0. call \in {"stream", "unary"} /\ call' = call /\ wpc' = wpc /\ Produced' = Produced
      /\ outcome' = outcome /\ sampled' = sampled
  BY CapacityAssumption DEF TypeOK, RelayStep, RelayRecv, RelaySend, RelayEof, Collect,
     CollectEof, Produced
<1>1. ASSUME Served' => Served /\ Pipeline' = Pipeline
      PROVE  PipelineInv'
  BY <1>0, <1>1 DEF PipelineInv
<1>2. CASE RelayRecv
  <2>1. Pipeline' = Pipeline
    BY <1>2, HandOver
  <2>2. (Served' => Served) /\ Ends'
    BY <1>2 DEF RelayRecv, Served, Ends
  <2>3. QED
    BY <1>1, <2>1, <2>2
<1>3. CASE RelaySend
  <2>1. CASE ~RespRx
    <3>1. ~Served' /\ Ends'
      BY <1>3, <2>1 DEF RelaySend, RespRx, EndRelay, Served, Ends
    <3>2. QED
      BY <1>1, <3>1
  <2>2. CASE RespRx /\ carry \notin {FinishItem, ErrorItem}
    <3>1. tokens' = tokens /\ (Served' => Served) /\ Ends'
      BY <1>3, <2>2 DEF RelaySend, RespRx, Served, Ends
    <3>2. QED
      BY <1>1, <1>3, <2>2, <3>1, HandOver
  <2>3. CASE RespRx /\ carry \in {FinishItem, ErrorItem}
    <3>1. Served /\ call = "stream"
      BY <1>0, <1>3, <2>3 DEF RelaySend, RespRx, Served, Ends
    <3>2. Pipeline = ((got \o resp) \o <<carry>>) \o tokens
      BY <1>3 DEF RelaySend, Pipeline
    <3>3. tokens = <<>> /\ wpc = "ended"
      BY <2>3, <3>1, <3>2, PipelineParts, LastInPipeline
    <3>4. tokens' = <<>>
      BY <1>3, <2>3 DEF RelaySend, EndRelay
    <3>5. Ends'
      BY <1>0, <1>3, <2>3, <3>1, <3>3, <3>4 DEF RelaySend, EndRelay, Ends
    <3>6. QED
      BY <1>1, <1>3, <2>3, <3>1, <3>3, <3>4, <3>5, HandOver
  <2>4. QED
    BY <2>1, <2>2, <2>3
<1>4. CASE RelayEof
  <2>1. Pipeline' = Pipeline
    BY <1>4, HandOver
  <2>2. (Served' => Served) /\ Ends'
    BY <1>4 DEF RelayEof, EndRelay, Served, Ends
  <2>3. QED
    BY <1>1, <2>1, <2>2
<1>5. CASE Collect
  <2>1. Ends'
    BY <1>5 DEF Collect, EndRelay, Ends
  <2>2. CASE Head(tokens) = ErrorItem
    <3>1. ~Served'
      BY <1>5, <2>2 DEF Collect, EndRelay, Served
    <3>2. QED
      BY <1>1, <2>1, <3>1
  <2>3. CASE Head(tokens) \notin {FinishItem, ErrorItem}
    <3>1. (Served' => Served) /\ got' = Append(got, Head(tokens))
      BY <1>5, <2>3 DEF Collect, Served
    <3>2. got' # got
      BY <3>1, PipelineParts, AppendProperties, LenProperties, HeadTailProperties, <1>5 DEF Collect
    <3>3. QED
      BY <1>1, <1>5, <2>1, <3>1, <3>2, HandOver
  <2>4. CASE Head(tokens) = FinishItem
    <3>1. /\ tokens # <<>> /\ tokens' = Tail(tokens) /\ got' = got /\ call = "unary"
          /\ resp = <<>> /\ resp' = <<>> /\ relay = "recv" /\ relay' = "recv"
          /\ (Served' => Served)
      BY <1>5, <2>4 DEF Collect, Ends, FinishItem, ErrorItem, Served
    <3>2. Pipeline = (got \o <<FinishItem>>) \o Tail(tokens) /\ Tail(tokens) \in Seq(Items)
      <4>1. Pipeline = ((got \o <<>>) \o <<>>) \o tokens
        BY <3>1 DEF Pipeline
      <4>2. got \o <<>> = got
        BY PipelineParts, ConcatEmptySeq
      <4>3. QED
        BY <2>4, <3>1, <4>1, <4>2, PipelineParts, MoveItem, HeadThenTail
    <3>3. ASSUME Served'
          PROVE  /\ Pipeline' = got /\ Produced' = sampled
                 /\ Len(got) = sampled /\ \A i \in 1..sampled : got[i] = i
                 /\ outcome = "complete"
      <4>1. /\ Tail(tokens) = <<>> /\ Produced = sampled
            /\ Len(got) = sampled /\ \A i \in 1..sampled : got[i] = i
            /\ outcome = "complete"
        BY <3>1, <3>2, <3>3, PipelineParts, LastInPipeline
      <4>2. Pipeline' = ((got \o <<>>) \o <<>>) \o <<>>
        BY <3>1, <4>1 DEF Pipeline
      <4>3. got \o <<>> = got
        BY PipelineParts, ConcatEmptySeq
      <4>4. QED
        BY <1>0, <4>1, <4>2, <4>3
    <3>4. PipelineInv'
      <4>1. sampled \in Nat
        BY CapacityAssumption DEF TypeOK
      <4>2. ASSUME Served'
            PROVE  Ordered(Pipeline', Produced') /\ Len(Pipeline') # Produced' + 1
        BY <3>3, <4>1, <4>2 DEF Ordered
      <4>3. call' = "unary" /\ (Served' => outcome' = "complete")
        BY <1>0, <3>1, <3>3
      <4>4. QED
        BY <4>2, <4>3 DEF PipelineInv
    <3>5. QED
      BY <2>1, <3>4
  <2>5. QED
    BY <2>2, <2>3, <2>4
<1>6. CASE CollectEof
  <2>1. ~Served' /\ Ends'
    BY <1>6 DEF CollectEof, EndRelay, Served, Ends
  <2>2. QED
    BY <1>1, <2>1
<1>7. QED
  BY <1>2, <1>3, <1>4, <1>5, <1>6 DEF RelayStep

\* The pipeline seen from the item the client reads next.
AfterHead == (Tail(resp) \o Carried) \o tokens

LEMMA PipelineAtHead ==
    ASSUME TypeOK, resp # <<>>
    PROVE  /\ Pipeline = (got \o <<Head(resp)>>) \o AfterHead
           /\ AfterHead \in Seq(Items)
<1> DEFINE Cat(p, q) == p \o q
           L == Seq(Items)
           a == got
           b == resp
           c == Carried
           d == tokens
           one == <<Head(resp)>>
           t == Tail(resp)
<1>1. \A p, q \in L : Cat(p, q) \in L
  BY ConcatProperties
<1>2. \A p, q, r \in L : Cat(Cat(p, q), r) = Cat(p, Cat(q, r))
  BY ConcatAssociative, SMTT(30)
<1>3. a \in L /\ c \in L /\ d \in L /\ t \in L /\ one \in L
  BY PipelineParts, HeadThenTail
<1>4. b = Cat(one, t) /\ Pipeline = Cat(Cat(Cat(a, b), c), d)
  BY PipelineParts, HeadThenTail
<1>5. AfterHead = Cat(Cat(t, c), d)
  BY DEF AfterHead
<1> HIDE DEF Cat, L, a, b, c, d, one, t
<1>6. Cat(a, one) \in L /\ Cat(t, c) \in L
  BY <1>1, <1>3
<1>7. AfterHead \in L
  BY <1>1, <1>3, <1>5, <1>6
<1>8. Cat(Cat(a, one), t) = Cat(a, b)
  <2>1. Cat(Cat(a, one), t) = Cat(a, Cat(one, t))
    BY <1>2, <1>3
  <2>2. QED
    BY <1>4, <2>1
<1>9. Cat(Cat(a, b), c) = Cat(Cat(a, one), Cat(t, c))
  <2>1. Cat(Cat(Cat(a, one), t), c) = Cat(Cat(a, one), Cat(t, c))
    BY <1>2, <1>3, <1>6
  <2>2. QED
    BY <1>8, <2>1
<1>10. Cat(Cat(Cat(a, b), c), d) = Cat(Cat(a, one), AfterHead)
  <2>1. Cat(Cat(Cat(a, one), Cat(t, c)), d) = Cat(Cat(a, one), Cat(Cat(t, c), d))
    BY <1>2, <1>3, <1>6
  <2>2. QED
    BY <1>5, <1>9, <2>1
<1>11. QED
  BY <1>4, <1>7, <1>10 DEF Cat, L, a, one

\* What the client has been told about its answer.
Told == FinishedIsComplete /\ SilentOnlyIfAborted

\* Reading, the end of the stream, and a client that goes away.
LEMMA ClientKeeps ==
    ASSUME TypeOK, TypeOK', PipelineInv, Ends, Told,
           ClientRead \/ ClientEof \/ ClientGone
    PROVE  PipelineInv' /\ Ends' /\ Told'
<1> USE DEF Told, SilentOnlyIfAborted
<1>0. /\ call' = call /\ wpc' = wpc /\ outcome' = outcome /\ sampled' = sampled
      /\ Produced' = Produced /\ call \in {"stream", "unary"}
  BY CapacityAssumption DEF TypeOK, ClientRead, ClientEof, ClientGone, channels, Produced
<1>1. CASE ClientRead
  <2>1. /\ client = "reading" /\ resp # <<>> /\ resp' = Tail(resp) /\ call = "stream"
        /\ UNCHANGED <<relay, tokens, carry>> /\ Served
    BY <1>0, <1>1 DEF ClientRead, Ends, Served
  <2>2. Ends'
    BY <1>0, <1>1, <2>1 DEF ClientRead, Ends
  <2>3. CASE Head(resp) \notin {FinishItem, ErrorItem}
    <3>1. got' = Append(got, Head(resp)) /\ client' = client
      BY <1>1, <2>3 DEF ClientRead
    <3>2. got' # got
      BY <2>1, <3>1, PipelineParts, AppendProperties, LenProperties, HeadTailProperties
    <3>3. Pipeline' = Pipeline
      BY <1>1, <3>2, HandOver
    <3>4. PipelineInv'
      BY <1>0, <2>1, <3>3 DEF PipelineInv
    <3>5. Told'
      BY <2>1, <3>1 DEF FinishedIsComplete
    <3>6. QED
      BY <2>2, <3>4, <3>5
  <2>4. CASE Head(resp) \in {FinishItem, ErrorItem}
    <3> DEFINE h == Head(resp)
    <3>1. /\ client' = (IF h = FinishItem THEN "finished" ELSE "error") /\ got' = got
      BY <1>1, <2>4 DEF ClientRead, FinishItem, ErrorItem
    <3>2. got \in Seq(Items)
      BY PipelineParts
    <3>3. Pipeline = (got \o <<h>>) \o AfterHead /\ AfterHead \in Seq(Items)
      BY <2>1, PipelineAtHead
    <3> HIDE DEF h
    <3>4. /\ outcome = (IF h = FinishItem THEN "complete" ELSE "failed")
          /\ Len(got) = sampled /\ \A i \in 1..sampled : got[i] = i
      <4>1. h \in {FinishItem, ErrorItem}
        BY <2>4 DEF h
      <4>2. QED
        BY <2>1, <3>2, <3>3, <4>1, LastInPipeline
    <3>5. Produced' = sampled /\ got = [i \in 1..sampled |-> i]
      BY <1>0, <3>2, <3>4, LenProperties DEF Produced
    <3>6. ~Served'
      BY <3>1 DEF Served
    <3>7. PipelineInv'
      BY <3>6 DEF PipelineInv
    <3>8. Told'
      BY <1>0, <3>1, <3>4, <3>5 DEF FinishedIsComplete
    <3>9. QED
      BY <2>2, <3>7, <3>8
  <2>5. QED
    BY <2>3, <2>4
<1>2. CASE ClientEof
  <2>1. /\ client = "reading" /\ resp = <<>> /\ relay = "ended" /\ tokens = <<>>
        /\ call = "stream" /\ client' = "silent" /\ wpc = "ended" /\ Served
        /\ UNCHANGED <<tokens, relay, carry, resp>>
    BY <1>2 DEF ClientEof, channels, Ends, Served
  <2>2. Pipeline = got
    BY <2>1, PipelineParts, ConcatEmptySeq DEF Pipeline
  <2>3. got \in Seq(1..MaxTokens) /\ Ordered(got, Produced) /\ Produced \in Nat
    BY <2>1, <2>2, CapacityAssumption DEF TypeOK, PipelineInv, Ends, Produced
  <2>4. Len(got) # Produced + 1
    <3>1. SUFFICES ASSUME Len(got) = Produced + 1
                   PROVE  FALSE
      OBVIOUS
    <3>2. got[Produced + 1] \in 1..MaxTokens
      <4>1. Produced + 1 \in 1..Len(got)
        BY <2>3, <3>1
      <4>2. QED
        BY <2>3, <4>1, ElementOfSeq
    <3>3. QED
      BY <2>3, <3>1, <3>2, CapacityAssumption DEF Ordered, FinishItem, ErrorItem
  <2>5. outcome = "aborted"
    BY <2>1, <2>2, <2>3, <2>4 DEF PipelineInv, Ordered
  <2>6. ~Served' /\ Ends' /\ Told'
    BY <1>0, <2>1, <2>5 DEF Served, Ends, FinishedIsComplete
  <2>7. QED
    BY <2>6 DEF PipelineInv
<1>3. CASE ClientGone
  <2>1. client' = "gone" /\ ~Served' /\ Told'
    BY <1>3 DEF ClientGone, Served, FinishedIsComplete
  <2>2. Ends'
    BY <1>0, <1>3 DEF ClientGone, EndRelay, Ends
  <2>3. QED
    BY <2>1, <2>2 DEF PipelineInv
<1>4. QED
  BY <1>1, <1>2, <1>3

\* At the end of the token channel the unary handler has everything.
LEMMA CollectedAll ==
    ASSUME TypeOK, PipelineInv, Ends, CollectEof
    PROVE  /\ got = [i \in 1..Produced |-> i]
           /\ outcome = "complete" \/ (call = "unary" /\ outcome = "aborted")
<1>1. /\ Served /\ call = "unary" /\ resp = <<>> /\ relay = "recv" /\ tokens = <<>>
      /\ wpc = "ended"
  BY DEF CollectEof, Ends, Served, TypeOK
<1>2. Pipeline = got
  BY <1>1, PipelineParts, ConcatEmptySeq DEF Pipeline
<1>3. got \in Seq(1..MaxTokens) /\ Ordered(got, Produced) /\ Produced \in Nat
  BY <1>1, <1>2, CapacityAssumption DEF TypeOK, PipelineInv, Ends, Produced
<1>4. Len(got) # Produced + 1
  <2>1. SUFFICES ASSUME Len(got) = Produced + 1
                 PROVE  FALSE
    OBVIOUS
  <2>2. Produced + 1 \in 1..Len(got)
    BY <1>3, <2>1
  <2>3. got[Produced + 1] \in 1..MaxTokens
    BY <1>3, <2>2, ElementOfSeq
  <2>4. QED
    BY <1>3, <2>1, <2>3, CapacityAssumption DEF Ordered, FinishItem, ErrorItem
<1>5. Len(got) = Produced /\ \A i \in 1..Produced : got[i] = i
  BY <1>3, <1>4 DEF Ordered
<1>6. got = [i \in 1..Produced |-> i]
  BY <1>3, <1>5, LenProperties
<1>7. QED
  BY <1>1, <1>2, <1>5, <1>6 DEF PipelineInv

\* What the client has been told stays true: nothing is produced after it.
LEMMA ToldStays ==
    ASSUME TypeOK, PipelineInv, Ends, Told, WorkerStep \/ RelayStep
    PROVE  Told'
<1>1. CASE WorkerStep
  <2>1. wpc # "ended" /\ UNCHANGED <<call, client, got>> /\ outcome = "none"
    BY <1>1 DEF WorkerStep, Sample, StopSampling, SendLast, Ends
  <2>2. QED
    BY <2>1 DEF Told, FinishedIsComplete, SilentOnlyIfAborted
<1>2. CASE RelayRecv \/ RelaySend \/ RelayEof
  BY <1>2 DEF RelayRecv, RelaySend, RelayEof, Told, FinishedIsComplete, SilentOnlyIfAborted,
     Produced
<1>3. CASE Collect
  <2>1. client = "reading" /\ client' \in {"reading", "error"}
    BY <1>3 DEF Collect, Ends
  <2>2. QED
    BY <2>1 DEF Told, FinishedIsComplete, SilentOnlyIfAborted
<1>4. CASE CollectEof
  <2>1. Produced' = Produced /\ UNCHANGED <<got, outcome, call>> /\ client' = "finished"
    BY <1>4 DEF CollectEof, Produced
  <2>2. QED
    BY <1>4, <2>1, CollectedAll DEF Told, FinishedIsComplete, SilentOnlyIfAborted
<1>5. QED
  BY <1>1, <1>2, <1>3, <1>4 DEF RelayStep

\* While a request is served its pipeline is the sequence of pieces and at
\* most one last item, as NothingLost has it.
LEMMA NothingLostHolds == IInv => NothingLost
<1> SUFFICES ASSUME IInv, client = "reading", relay # "ended"
             PROVE  \E last \in {<<>>, <<FinishItem>>, <<ErrorItem>>} :
                      /\ Pipeline = [i \in 1..Produced |-> i] \o last
                      /\ last # <<>> => wpc = "ended"
  BY DEF NothingLost, Produced
<1> DEFINE n == Produced
           s == [i \in 1..n |-> i]
<1>1. n \in Nat /\ Ordered(Pipeline, n) /\ Pipeline \in Seq(Items) /\ Items \subseteq Int
  BY PipelineParts, CapacityAssumption
     DEF IInv, TypeOK, Ends, PipelineInv, Served, Produced, Items, ErrorItem
<1>2. Len(Pipeline) = n + 1 => wpc = "ended"
  BY <1>1 DEF IInv, PipelineInv, Served, Ends
<1> HIDE DEF n
<1>3. s \in Seq(Int) /\ Len(s) = n /\ \A i \in 1..n : s[i] = i
  BY <1>1
<1>4. Pipeline \in Seq(Int) /\ <<>> \in Seq(Int)
  <2>1. ASSUME NEW q \in Seq(Items), Items \subseteq Int
        PROVE  q \in Seq(Int)
    BY <2>1, SeqMonotonic
  <2>2. QED
    BY <1>1, <2>1, EmptySeq
<1> HIDE DEF s
<1>5. CASE Len(Pipeline) = n
  <2>1. Pipeline = s
    BY <1>1, <1>3, <1>4, <1>5, SeqEqual DEF Ordered
  <2>2. QED
    BY <1>3, <2>1, ConcatEmptySeq DEF n, s
<1>6. CASE Len(Pipeline) = n + 1
  <2>1. PICK c \in {FinishItem, ErrorItem} : Pipeline[n + 1] = c
    BY <1>1, <1>6 DEF Ordered
  <2>2. <<c>> \in Seq(Int) /\ Len(<<c>>) = 1 /\ <<c>>[1] = c /\ <<c>> # <<>>
    BY DEF FinishItem, ErrorItem
  <2>3. /\ s \o <<c>> \in Seq(Int) /\ Len(s \o <<c>>) = n + 1
        /\ \A i \in 1..n : (s \o <<c>>)[i] = i
        /\ (s \o <<c>>)[n + 1] = c
    BY <1>1, <1>3, <2>2, ConcatProperties
  <2>4. \A i \in 1..n + 1 : Pipeline[i] = (s \o <<c>>)[i]
    BY <1>1, <2>1, <2>3 DEF Ordered
  <2>5. Pipeline = s \o <<c>>
    BY <1>4, <1>6, <2>3, <2>4, SeqEqual
  <2>6. QED
    BY <1>2, <1>6, <2>1, <2>5 DEF n, s
<1>7. QED
  BY <1>1, <1>5, <1>6 DEF Ordered

\* For all capacities and any number of tokens, what a client has is what the
\* worker produced: nothing lost, doubled or out of order, a finished answer
\* is whole, and a stream only ends without a word when the worker gave up.
THEOREM PipelineDelivers == Spec => []PipelineIntact
<1>1. Init => IInv
  <2> SUFFICES ASSUME Init
               PROVE  IInv
    OBVIOUS
  <2> USE CapacityAssumption DEF Init
  <2>1. <<>> \in Seq(Items) /\ <<>> \in Seq(1..MaxTokens) /\ Len(<<>>) = 0
    BY EmptySeq
  <2>2. TypeOK
    BY <2>1 DEF TypeOK, Items, FinishItem, ErrorItem
  <2>3. Pipeline = <<>>
    BY <2>1, ConcatEmptySeq DEF Pipeline
  <2>4. Produced = 0 /\ Ordered(<<>>, 0)
    BY <2>1 DEF Produced, Ordered
  <2>5. PipelineInv
    BY <2>1, <2>3, <2>4 DEF PipelineInv
  <2>6. Ends /\ FinishedIsComplete /\ SilentOnlyIfAborted
    BY DEF Ends, FinishedIsComplete, SilentOnlyIfAborted
  <2>7. QED
    BY <2>2, <2>5, <2>6 DEF IInv
<1>2. IInv /\ [Next]_vars => IInv'
  <2> SUFFICES ASSUME IInv, [Next]_vars
               PROVE  IInv'
    OBVIOUS
  <2>1. TypeOK /\ TypeOK' /\ PipelineInv /\ Ends /\ Told
    BY TypeStep DEF IInv, Told
  <2>2. CASE WorkerStep \/ RelayStep
    BY <2>1, <2>2, WorkerKeeps, RelayKeeps, ToldStays DEF IInv, Told
  <2>3. CASE ClientRead \/ ClientEof \/ ClientGone
    BY <2>1, <2>3, ClientKeeps DEF IInv, Told
  <2>4. CASE Terminated \/ UNCHANGED vars
    <3>1. UNCHANGED vars
      BY <2>4 DEF Terminated
    <3>2. /\ Pipeline' = Pipeline /\ Produced' = Produced /\ Served' = Served
          /\ Ends' /\ FinishedIsComplete' /\ SilentOnlyIfAborted'
      BY <2>1, <3>1, Zenon DEF vars, Pipeline, Produced, Served, Ends, Told,
         FinishedIsComplete, SilentOnlyIfAborted
    <3>3. PipelineInv'
      BY <2>1, <3>1, <3>2 DEF vars, PipelineInv
    <3>4. QED
      BY <2>1, <3>2, <3>3 DEF IInv
  <2>5. QED
    BY <2>2, <2>3, <2>4 DEF Next
<1>3. IInv => PipelineIntact
  BY NothingLostHolds DEF IInv, PipelineIntact
<1>4. QED
  BY <1>1, <1>2, <1>3, PTL DEF Spec
=============================================================================
