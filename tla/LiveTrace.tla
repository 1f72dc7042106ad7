----------------------------- MODULE LiveTrace -----------------------------
(***************************************************************************)
(* A run's Tracer and the dashboard server that shows its spans live.  A    *)
(* browser that asks for /events is sent every span there is (the backlog), *)
(* is then registered as a client, and from then on is sent each span that  *)
(* ends.  Its page keeps the last it was told of every span.                *)
(*                                                                          *)
(* The two runtimes differ in who can act in between.  In TypeScript the    *)
(* request handler and end_span each run to their end on the one thread; in *)
(* Python every request has a thread, and the run's thread goes on beside.  *)
(***************************************************************************)
EXTENDS FiniteSets, Sequences, SequencesExt, Integers

CONSTANTS
    Span,           \* the spans of the run
    Browser,        \* browsers, each with one page
    MaxLosses,      \* bound: connections that the network loses
    NoSpan

ASSUME LiveTraceAssumption == NoSpan \notin Span /\ MaxLosses \in Nat

VARIABLES
    python,         \* which runtime this is
    span,           \* TraceSpan: none, open, or ended (ended_at is set)
    ending,         \* the span whose listeners end_span has yet to call
    over,           \* has done() been called?
    closed,         \* has close() been called?
    conn,           \* the connection of each browser, as its handler sees it
    backlog,        \* the spans that the handler of /events has yet to write
    stream,         \* written or queued, and not yet at the browser
    page,           \* what the browser knows of each span
    gap,            \* spans broadcast while the browser's handler was not done
    losses

traceVars == <<python, span, ending, over, closed, conn, backlog, stream, page, gap, losses>>

States == {"none", "open", "ended"}
SpanEvents == Span \X {"open", "ended"}
Done == <<"done">>
End == <<"end">>
Events == SpanEvents \cup {Done, End}
Conns == {"closed", "backlog", "live", "finished"}

TraceTypeOK ==
    /\ python \in BOOLEAN /\ over \in BOOLEAN /\ closed \in BOOLEAN
    /\ span \in [Span -> States]
    /\ ending \in Span \cup {NoSpan}
    /\ conn \in [Browser -> Conns]
    /\ backlog \in [Browser -> SUBSET Span]
    /\ stream \in [Browser -> Seq(Events)]
    /\ page \in [Browser -> [Span -> States]]
    /\ gap \in [Browser -> SUBSET Span]
    /\ losses \in 0..MaxLosses

TraceInit ==
    /\ python \in BOOLEAN
    /\ span = [s \in Span |-> "none"]
    /\ ending = NoSpan
    /\ over = FALSE /\ closed = FALSE
    /\ conn = [b \in Browser |-> "closed"]
    /\ backlog = [b \in Browser |-> {}]
    /\ stream = [b \in Browser |-> <<>>]
    /\ page = [b \in Browser |-> [s \in Span |-> "none"]]
    /\ gap = [b \in Browser |-> {}]
    /\ losses = 0
-----------------------------------------------------------------------------
(* May the run act while handlers are at work, and a handler while the run    *)
(* is in end_span?  Only as threads.                                          *)
Handling == {b \in Browser : conn[b] = "backlog"}
RunMayAct == python \/ Handling = {}
HandlerMayAct(b) == python \/ (ending = NoSpan /\ Handling \subseteq {b})

Clients == {b \in Browser : conn[b] = "live"}

Broadcast(event) ==
    stream' = [b \in Browser |->
                  IF b \in Clients THEN Append(stream[b], event) ELSE stream[b]]

(***************************************************************************)
(* The run: the tracer's spans, and the end of it.                          *)
(***************************************************************************)
StartSpan(s) ==
    /\ RunMayAct /\ ending = NoSpan /\ ~over
    /\ span[s] = "none"
    /\ span' = [span EXCEPT ![s] = "open"]
    /\ UNCHANGED <<python, ending, over, closed, conn, backlog, stream, page, gap, losses>>

EndSpan(s) ==
    /\ RunMayAct /\ ending = NoSpan /\ ~over
    /\ span[s] = "open"
    /\ span' = [span EXCEPT ![s] = "ended"]
    /\ ending' = s
    /\ UNCHANGED <<python, over, closed, conn, backlog, stream, page, gap, losses>>

CallListeners ==
    /\ RunMayAct /\ ending # NoSpan
    /\ Broadcast(<<ending, "ended">>)
    /\ gap' = [b \in Browser |-> IF b \in Handling THEN gap[b] \cup {ending} ELSE gap[b]]
    /\ ending' = NoSpan
    /\ UNCHANGED <<python, span, over, closed, conn, backlog, page, losses>>

RunIsDone ==
    /\ RunMayAct /\ ending = NoSpan /\ ~over
    /\ over' = TRUE
    /\ Broadcast(Done)
    /\ UNCHANGED <<python, span, ending, closed, conn, backlog, page, gap, losses>>

\* Mutant: the server stops and leaves its connections open.
CloseQuietly ==
    /\ RunMayAct /\ over /\ ~closed
    /\ closed' = TRUE
    /\ UNCHANGED <<python, span, ending, over, conn, backlog, stream, page, gap, losses>>

Close ==
    /\ RunMayAct /\ over /\ ~closed
    /\ closed' = TRUE
    /\ Broadcast(End)
    /\ UNCHANGED <<python, span, ending, over, conn, backlog, page, gap, losses>>

(***************************************************************************)
(* The handler of /events: a copy of the list of spans, each written as it  *)
(* is by then, and the registration.                                        *)
(***************************************************************************)
\* Mutants: spans that have not started are in the backlog; only those that
\* are still open are.
KnownOrNot == Span
KnownIfOpen == {s \in Span : span[s] = "open"}

Known == {s \in Span : span[s] # "none"}

Connect(b) ==
    /\ HandlerMayAct(b) /\ ~closed
    /\ conn[b] = "closed"
    /\ conn' = [conn EXCEPT ![b] = "backlog"]
    /\ backlog' = [backlog EXCEPT ![b] = Known]
    /\ gap' = [gap EXCEPT ![b] = {}]
    /\ UNCHANGED <<python, span, ending, over, closed, stream, page, losses>>

\* Mutant: a span is written as it was when it started.
WriteBacklogAsStarted(b) ==
    /\ HandlerMayAct(b) /\ conn[b] = "backlog"
    /\ \E s \in backlog[b] :
          /\ stream' = [stream EXCEPT ![b] = Append(@, <<s, "open">>)]
          /\ backlog' = [backlog EXCEPT ![b] = @ \ {s}]
    /\ UNCHANGED <<python, span, ending, over, closed, conn, page, gap, losses>>

WriteBacklog(b) ==
    /\ HandlerMayAct(b) /\ conn[b] = "backlog"
    /\ \E s \in backlog[b] :
          /\ stream' = [stream EXCEPT ![b] = Append(@, <<s, span[s]>>)]
          /\ backlog' = [backlog EXCEPT ![b] = @ \ {s}]
    /\ UNCHANGED <<python, span, ending, over, closed, conn, page, gap, losses>>

Register(b) ==
    /\ HandlerMayAct(b) /\ conn[b] = "backlog" /\ backlog[b] = {}
    /\ conn' = [conn EXCEPT ![b] = "live"]
    /\ UNCHANGED <<python, span, ending, over, closed, backlog, stream, page, gap, losses>>

(***************************************************************************)
(* The browser: each event replaces what the page had of the span; done     *)
(* closes the EventSource for good, and a lost connection is opened again.  *)
(***************************************************************************)
\* Mutant: a span that the page has is not replaced.
ShowIfNew(b, e) ==
    page' = IF e \in SpanEvents /\ page[b][e[1]] = "none"
            THEN [page EXCEPT ![b][e[1]] = e[2]] ELSE page

Show(b, e) == page' = IF e \in SpanEvents THEN [page EXCEPT ![b][e[1]] = e[2]] ELSE page

Leaves(b, e) ==
    conn' = CASE e = Done -> [conn EXCEPT ![b] = "finished"]
              [] e = End -> [conn EXCEPT ![b] = "closed"]
              [] OTHER -> conn

Receive(b) ==
    /\ conn[b] \in {"backlog", "live"} /\ stream[b] # <<>>
    /\ Show(b, Head(stream[b]))
    /\ Leaves(b, Head(stream[b]))
    /\ stream' = [stream EXCEPT ![b] = IF conn'[b] = conn[b] THEN Tail(@) ELSE <<>>]
    /\ UNCHANGED <<python, span, ending, over, closed, backlog, gap, losses>>

Lose(b) ==
    /\ losses < MaxLosses /\ losses' = losses + 1
    /\ conn[b] \in {"backlog", "live"}
    /\ conn' = [conn EXCEPT ![b] = "closed"]
    /\ backlog' = [backlog EXCEPT ![b] = {}]
    /\ stream' = [stream EXCEPT ![b] = <<>>]
    /\ UNCHANGED <<python, span, ending, over, closed, page, gap>>

BrowserStep(b) == WriteBacklog(b) \/ Register(b) \/ Receive(b)

TraceNext ==
    \/ \E s \in Span : StartSpan(s) \/ EndSpan(s)
    \/ CallListeners \/ RunIsDone \/ Close
    \/ \E b \in Browser : Connect(b) \/ BrowserStep(b) \/ Lose(b)

TraceSpec == TraceInit /\ [][TraceNext]_traceVars

(***************************************************************************)
(* Threads and the event loop run, connections deliver what is written to   *)
(* them, and browsers reconnect.  That spans end and that anybody calls     *)
(* done or close is not assumed.                                            *)
(***************************************************************************)
Fairness ==
    /\ WF_traceVars(CallListeners)
    /\ \A b \in Browser : WF_traceVars(BrowserStep(b)) /\ WF_traceVars(Connect(b))

FairTraceSpec == TraceSpec /\ Fairness
-----------------------------------------------------------------------------
Reaches(b, s) == page[b][s] = "ended" \/ <<s, "ended">> \in Range(stream[b])

(* A browser that is connected, or was told that the run is done, has or is   *)
(* about to get the end of every span that has ended, whenever it connected   *)
(* and however often: the backlog and the live stream leave nothing out.      *)
(* Only in Python, spans whose listeners were called while the handler was    *)
(* between its copy of the list and the registration may be missing.          *)
NothingIsLeftOut ==
    \A b \in Browser, s \in Span :
        conn[b] \in {"live", "finished"} /\ span[s] = "ended" /\ s # ending
        => Reaches(b, s) \/ (python /\ s \in gap[b])

(* What a page shows as ended it does not show as running again, whatever     *)
(* backlog it is sent later.                                                  *)
PageNeverGoesBack ==
    [][\A b \in Browser, s \in Span :
          page[b][s] = "ended" => page'[b][s] = "ended"]_traceVars

(* A span that ends while a browser is connected comes to be shown as ended,  *)
(* unless the connection is lost.                                             *)
EndsAreShown ==
    \A b \in Browser, s \in Span :
        (conn[b] = "live" /\ ending = s) ~> (page[b][s] = "ended" \/ conn[b] # "live")

(* After close, no connection stays open in TypeScript; in Python the handler *)
(* of a browser that was being sent its backlog waits for ever.               *)
ConnectionsEnd ==
    \A b \in Browser : (closed /\ ~python) ~> conn[b] \in {"closed", "finished"}
=============================================================================
