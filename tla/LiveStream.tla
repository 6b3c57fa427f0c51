----------------------------- MODULE LiveStream -----------------------------
(***************************************************************************)
(* One SSE subscription: the ledger of a Session, the lossy NATS subjects  *)
(* that carry wakeups and preview frames, the tail goroutine that turns    *)
(* them into cursor reads, and the bounded frame channel the HTTP handler  *)
(* drains.  Sources: internal/live/nats.go, internal/app/stream.go,        *)
(* internal/httpapi/events.go, CallModel in internal/temporal.             *)
(***************************************************************************)
EXTENDS Naturals, FiniteSets, Sequences, SequencesExt

CONSTANTS
    ModelRequests,  \* model requests, 1..n in order
    Attempts,       \* attempts of CallModel: each has its own message event id
    FrameBuffer,    \* capacity of the frames channel (bufferSize)
    MaxPreviews     \* bound: preview frames published

ASSUME LiveStreamAssumption ==
    /\ ModelRequests \subseteq Nat \ {0} /\ FrameBuffer \in Nat \ {0} /\ MaxPreviews \in Nat

VARIABLES
    ledger,    \* events: [kind, req, attempt]
    liveOn,    \* the Session row exists
    wakeup,    \* a message on the event subject of this subscriber
    previews,  \* messages on its preview subject
    published, \* preview frames published so far
    tail,      \* the goroutine: pc, cursor, its batch and its fences
    frames,    \* the frames channel
    sent       \* every frame ever put in the channel (history)

liveVars == <<ledger, liveOn, wakeup, previews, published, tail, frames, sent>>

Ev(kind, r, a) == [kind |-> kind, req |-> r, attempt |-> a]

NoTail == [pc |-> "off", cursor |-> 0, origin |-> 0, batch |-> <<>>, preview |-> <<>>,
           prepared |-> {}, closedMessages |-> {}, closedRequests |-> {}]

LiveInit ==
    /\ ledger = <<>> /\ liveOn = TRUE /\ wakeup = FALSE /\ previews = <<>>
    /\ published = 0 /\ tail = NoTail /\ frames = <<>> /\ sent = <<>>

Subscribed == tail.pc \notin {"off", "cursor", "closed"}

-----------------------------------------------------------------------------
(* The worker: commits to the ledger, notifies, publishes previews         *)

\* NotifySession after a commit; core NATS delivers it at most once.
Commit(events) ==
    /\ ledger' = ledger \o events
    /\ wakeup' \in IF Subscribed THEN {wakeup, TRUE} ELSE {FALSE}

Started(r) == \E i \in DOMAIN ledger : ledger[i].kind = "start" /\ ledger[i].req = r
Ended(r) == \E i \in DOMAIN ledger : ledger[i].kind = "end" /\ ledger[i].req = r

\* StartModelRequest; requests follow one another
StartRequest(r) ==
    /\ liveOn /\ ~Started(r) /\ \A q \in ModelRequests : q < r => Ended(q)
    /\ Commit(<<Ev("start", r, 0)>>)
    /\ UNCHANGED <<liveOn, previews, published, tail, frames, sent>>

\* the round commits its message and its end together, or only the end when it
\* failed or was interrupted
CommitRequest(r, a, failed) ==
    /\ liveOn /\ Started(r) /\ ~Ended(r)
    /\ Commit(IF failed THEN <<Ev("end", r, 0)>> ELSE <<Ev("message", r, a), Ev("end", r, 0)>>)
    /\ UNCHANGED <<liveOn, previews, published, tail, frames, sent>>

\* OnTextDelta of an attempt, which may be one its Workflow has given up on
PublishPreview(r, a) ==
    /\ Started(r) /\ published < MaxPreviews /\ published' = published + 1
    /\ previews' \in IF Subscribed THEN {previews, Append(previews, <<r, a>>)} ELSE {<<>>}
    /\ UNCHANGED <<ledger, liveOn, wakeup, tail, frames, sent>>

DeleteLiveSession ==
    /\ liveOn /\ liveOn' = FALSE
    /\ ledger' = <<>>
    /\ UNCHANGED <<wakeup, previews, published, tail, frames, sent>>

-----------------------------------------------------------------------------
(* The stream                                                              *)

\* subscribeContext reads the cursor, then subscribes to the subjects.
LatestEventSequence ==
    /\ tail.pc = "off" /\ liveOn
    /\ tail' = [tail EXCEPT !.pc = "cursor", !.cursor = Len(ledger), !.origin = Len(ledger)]
    /\ UNCHANGED <<ledger, liveOn, wakeup, previews, published, frames, sent>>

Subscribe ==
    /\ tail.pc = "cursor"
    /\ tail' = [tail EXCEPT !.pc = "wait"]
    /\ UNCHANGED <<ledger, liveOn, wakeup, previews, published, frames, sent>>

EventsAfter(cursor) == SubSeq(ledger, cursor + 1, Len(ledger))

\* a wakeup, or the ticker that repairs a lost one, starts a reconcile
StartReconcile ==
    /\ tail.pc = "wait" /\ wakeup' = FALSE
    /\ tail' = [tail EXCEPT !.pc = "reconcile", !.batch = EventsAfter(tail.cursor)]
    /\ UNCHANGED <<ledger, liveOn, previews, published, frames, sent>>

\* a preview: the first frame of its event waits for a reconcile
NeedsReconcile(p) == p \notin tail.prepared

ReceivePreview ==
    /\ tail.pc = "wait" /\ previews # <<>> /\ previews' = Tail(previews)
    /\ tail' = LET p == Head(previews)
               IN  IF NeedsReconcile(p)
                     THEN [tail EXCEPT !.pc = "reconcile", !.preview = <<p>>,
                                       !.batch = EventsAfter(tail.cursor)]
                     ELSE [tail EXCEPT !.pc = "forward", !.preview = <<p>>]
    /\ UNCHANGED <<ledger, liveOn, wakeup, published, frames, sent>>

\* Mutant: a slow consumer is queued for without limit.
PushUnbounded(frame, next) ==
    frames' = Append(frames, frame) /\ sent' = Append(sent, frame) /\ tail' = next

\* the non-blocking send: a slow consumer is disconnected
Push(frame, next) ==
    IF Len(frames) < FrameBuffer
      THEN frames' = Append(frames, frame) /\ sent' = Append(sent, frame) /\ tail' = next
      ELSE tail' = [tail EXCEPT !.pc = "closed"] /\ UNCHANGED <<frames, sent>>

\* Mutant: only an authoritative message closes previews.
FencedByMessage(t, e) ==
    [t EXCEPT !.cursor = @ + 1, !.batch = Tail(@),
              !.closedMessages = IF e.kind = "message" THEN @ \cup {<<e.req, e.attempt>>} ELSE @]

\* what the fences learn of an event before it is sent
Fenced(t, e) ==
    [t EXCEPT !.cursor = @ + 1, !.batch = Tail(@),
              !.closedMessages = IF e.kind = "message" THEN @ \cup {<<e.req, e.attempt>>} ELSE @,
              !.closedRequests = IF e.kind = "end" THEN @ \cup {e.req} ELSE @]

SendEvent ==
    /\ tail.pc = "reconcile" /\ tail.batch # <<>>
    /\ Push(Head(tail.batch), Fenced(tail, Head(tail.batch)))
    /\ UNCHANGED <<ledger, liveOn, wakeup, previews, published>>

\* SessionExists: the stream of a deleted Session ends with session.deleted.
EndReconcile ==
    /\ tail.pc = "reconcile" /\ tail.batch = <<>>
    /\ IF ~liveOn
         THEN /\ Len(frames) < FrameBuffer  \* this send blocks
              /\ frames' = Append(frames, Ev("deleted", 0, 0))
              /\ sent' = Append(sent, Ev("deleted", 0, 0))
              /\ tail' = [tail EXCEPT !.pc = "closed"]
         ELSE /\ tail' = [tail EXCEPT !.pc = IF tail.preview = <<>> THEN "wait" ELSE "forward",
                                      !.prepared = @ \cup ToSet(tail.preview)]
              /\ UNCHANGED <<frames, sent>>
    /\ UNCHANGED <<ledger, liveOn, wakeup, previews, published>>

ForwardPreview ==
    /\ tail.pc = "forward"
    /\ LET p == Head(tail.preview)
           done == [tail EXCEPT !.pc = "wait", !.preview = <<>>]
       IN  IF p \in tail.closedMessages \/ p[1] \in tail.closedRequests
             THEN tail' = done /\ UNCHANGED <<frames, sent>>
             ELSE Push(Ev("preview", p[1], p[2]), done)
    /\ UNCHANGED <<ledger, liveOn, wakeup, previews, published>>

\* writeEventStream
WriteFrame ==
    /\ frames # <<>> /\ frames' = Tail(frames)
    /\ UNCHANGED <<ledger, liveOn, wakeup, previews, published, tail, sent>>

\* the request's context ends
CancelStream ==
    /\ Subscribed
    /\ tail' = [tail EXCEPT !.pc = "closed"]
    /\ UNCHANGED <<ledger, liveOn, wakeup, previews, published, frames, sent>>

LiveNext ==
    \/ \E r \in ModelRequests : StartRequest(r)
    \/ \E r \in ModelRequests, a \in Attempts : PublishPreview(r, a)
    \/ \E r \in ModelRequests, a \in Attempts, failed \in BOOLEAN : CommitRequest(r, a, failed)
    \/ DeleteLiveSession \/ LatestEventSequence \/ Subscribe
    \/ StartReconcile \/ ReceivePreview \/ SendEvent \/ EndReconcile \/ ForwardPreview
    \/ WriteFrame \/ CancelStream

LiveSpec == LiveInit /\ [][LiveNext]_liveVars

-----------------------------------------------------------------------------
(* Properties                                                              *)

\* The buffer of a stream is bounded and its cursor never moves back.
LiveTypeOK ==
    /\ Len(frames) <= FrameBuffer /\ tail.origin <= tail.cursor
    /\ tail.pc \in {"off", "cursor", "wait", "reconcile", "forward", "closed"}

IsEvent(frame) == frame.kind \notin {"preview", "deleted"}

\* how many events of the ledger are among the first n frames
EventsSent(n) == Cardinality({i \in 1..n : IsEvent(sent[i])})

\* The stream is the ledger from the cursor on, without a gap or a repeat, in
\* the order of the ledger: losing wakeups and closing slow consumers included.
StreamHasNoGap ==
    liveOn => \A i \in DOMAIN sent : IsEvent(sent[i]) =>
        /\ tail.origin + EventsSent(i) \in DOMAIN ledger
        /\ sent[i] = ledger[tail.origin + EventsSent(i)]

\* A preview frame is sent only inside its request: after the start of the
\* request, if the stream saw it begin, and never after the message it previews
\* or after the end of its request, however late the frame arrives.
PreviewsInsideRequest ==
    \A i \in DOMAIN sent : sent[i].kind = "preview" =>
        /\ \A j \in 1..(i - 1) :
             /\ sent[j] # Ev("message", sent[i].req, sent[i].attempt)
             /\ sent[j] # Ev("end", sent[i].req, 0)
        /\ \/ \E j \in 1..(i - 1) : sent[j] = Ev("start", sent[i].req, 0)
           \/ ~\E j \in DOMAIN sent : sent[j] = Ev("start", sent[i].req, 0)

\* A stream sends each event of the ledger once and in order, and each preview
\* where it belongs between them.
StreamIsExact == StreamHasNoGap /\ PreviewsInsideRequest
=============================================================================
