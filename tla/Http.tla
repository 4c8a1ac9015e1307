-------------------------------- MODULE Http --------------------------------
(***************************************************************************)
(* The HTTP client (http/): http_request and what its caller does with the *)
(* response, the host context with its queue of requests and its task, and *)
(* the connections, each with three tasks: process_requests,               *)
(* fill_input_buffer and process_responses.                                *)
(*                                                                         *)
(* A call is a request and its response.  The bytes a server sends are     *)
(* tokens: the head of a reply, then its body.  Queues, channels and       *)
(* watches take the steps that the modules about them show to matter; a    *)
(* parsed head, however it arrives, is one token, and the replies under    *)
(* way fit into the input buffer.  The server and the socket are external. *)
(***************************************************************************)
EXTENDS Integers, Sequences

CONSTANTS
  Calls,
  MaxConnections,   \* bound on max_connections_; what it leaves may go wrong
  BodyLength,       \* of a reply that has a body
  ReplyKinds        \* the replies the server may give, see Reply

VARIABLES
  call,             \* of each call: where its caller is, the result, the body read
  request,          \* state_ of its HttpRequest
  response,         \* state_ of its HttpResponse
  channel,          \* the message_ and data_ channels of its response
  requestQueue,     \* request_queue_
  host,             \* host_task_main, connection_tasks_.size(), max_connections_
  conn,             \* the connections
  trouble           \* what went out of order, and how much more may

httpVars == <<call, request, response, channel, requestQueue, host, conn, trouble>>

Connections == 1 .. MaxConnections
kCreated == 0
kInitialized == 1
kConsumed == 2

NewMessage == [state |-> kCreated, open |-> TRUE]
NewChannel == [written |-> 0, read |-> 0, open |-> TRUE, gone |-> FALSE, target |-> 0]

\* A connection not yet created: the pc of each task, the call in the hands of
\* process_requests and of process_responses, response_queue_, the socket,
\* what is on its way to and from the server, input_buffer_, and how much of
\* the present body is left.
NewConnection ==
  [req |-> "none", cur |-> <<>>, rsp |-> "none", rcur |-> <<>>, fill |-> "none",
   rq |-> <<>>, rqOpen |-> TRUE, connected |-> FALSE, socket |-> "open",
   sent |-> <<>>, wire |-> <<>>, hup |-> FALSE,
   input |-> <<>>, ended |-> FALSE, readClosed |-> FALSE, left |-> 0, keep |-> TRUE]

HttpInit ==
  /\ call = [c \in Calls |-> [pc |-> "idle", result |-> "none", body |-> <<>>]]
  /\ request = [c \in Calls |-> NewMessage]
  /\ response = [c \in Calls |-> NewMessage]
  /\ channel = [c \in Calls |-> [message |-> NewChannel, data |-> NewChannel]]
  /\ requestQueue = <<>>
  /\ conn = [k \in Connections |-> NewConnection]
  /\ \E max \in 1 .. MaxConnections :
       /\ host = [pc |-> "look", depth |-> 0, size |-> 0, max |-> max]
       /\ trouble = [seen |-> FALSE, left |-> MaxConnections - max]

GoesWrong == trouble.left > 0 /\ trouble' = [seen |-> TRUE, left |-> trouble.left - 1]

CallAt(c, pc) == call[c].pc = pc
CallGoto(c, pc) == call' = [call EXCEPT ![c].pc = pc]

\* is_active; release_message and release_data.
Active(ch) == ch.written > ch.read
Released(ch) == IF Active(ch) THEN [ch EXCEPT !.read = @ + 1] ELSE ch

\* A change of the queue's size wakes the host's task.
HostNotified_Never == UNCHANGED host
HostNotified ==
  host' = IF host.pc = "waiting" THEN [host EXCEPT !.pc = "look"] ELSE host

-----------------------------------------------------------------------------
(* http_request.  Calls are numbered in the order in which they submit.    *)

Submit(c) ==
  /\ CallAt(c, "idle") /\ \A d \in Calls : d < c => ~ CallAt(d, "idle")
  /\ request' = [request EXCEPT ![c].state = kInitialized]
  /\ requestQueue' = Append(requestQueue, c)
  /\ HostNotified
  /\ CallGoto(c, "await")
  /\ UNCHANGED <<response, channel, conn, trouble>>

\* The Pins on the request, and on the response, of c.
PinsRequest(c) ==
  \/ \E i \in DOMAIN requestQueue : requestQueue[i] = c
  \/ \E k \in Connections : conn[k].cur = <<c>>
PinsResponse(c) ==
  \/ PinsRequest(c)
  \/ \E k \in Connections :
       conn[k].rcur = <<c>> \/ \E i \in DOMAIN conn[k].rq : conn[k].rq[i] = c

\* await_equal on the state of the request, then of the response.  With both
\* the function ends: it destroys the request (whose channels serialize has
\* consumed) and returns the response.
Received_Sent(c) == request[c].state = kConsumed
Received(c) == request[c].state = kConsumed /\ response[c].state = kInitialized
ReturnResponse(c) ==
  /\ CallAt(c, "await") /\ Received(c)
  /\ ~ PinsRequest(c)
  /\ call' = [call EXCEPT ![c].pc = "have", ![c].result = "ok"]
  /\ UNCHANGED <<request, response, channel, requestQueue, host, conn, trouble>>

\* If one of them is closed first it reports the error: it destroys the
\* response, then the request.
ReturnError(c) ==
  /\ CallAt(c, "await")
  /\ \/ request[c].state # kConsumed /\ ~ request[c].open
     \/ request[c].state = kConsumed /\ response[c].state # kInitialized /\ ~ response[c].open
  /\ call' = [call EXCEPT ![c].pc = "release_data", ![c].result = "error"]
  /\ channel' = [channel EXCEPT ![c].message = Released(@)]
  /\ UNCHANGED <<request, response, requestQueue, host, conn, trouble>>

DestroyRequest(c) ==
  /\ CallAt(c, "leave")
  /\ ~ PinsRequest(c)
  /\ CallGoto(c, "returned")
  /\ UNCHANGED <<request, response, channel, requestQueue, host, conn, trouble>>

-----------------------------------------------------------------------------
(* The caller reads the message, then the data, and destroys the response. *)

\* await_message, then await_data, which releases the message.
AwaitData(c) ==
  /\ CallAt(c, "have")
  /\ Active(channel[c].message)
  /\ channel' = [channel EXCEPT ![c].message = Released(@)]
  /\ CallGoto(c, "data")
  /\ UNCHANGED <<request, response, requestQueue, host, conn, trouble>>

\* Reading from the HttpData reads the connection's input buffer.
ReadBody(c, k) ==
  /\ CallAt(c, "data") /\ Active(channel[c].data)
  /\ conn[k].rcur = <<c>> /\ conn[k].left > 0 /\ conn[k].input # <<>>
  /\ call' = [call EXCEPT ![c].body = Append(@, Head(conn[k].input))]
  /\ conn' = [conn EXCEPT ![k].input = Tail(@), ![k].left = @ - 1]
  /\ UNCHANGED <<request, response, channel, requestQueue, host, trouble>>

\* ~HttpMessageBase: release_message and release_data.  A caller with the data
\* in hand may leave any part of it unread; one that gives the response up
\* without asking for the data is out of order here.
Destroy(c) ==
  /\ CallAt(c, "data") /\ Active(channel[c].data)
  /\ channel' = [channel EXCEPT ![c].message = Released(@)]
  /\ CallGoto(c, "release_data")
  /\ UNCHANGED <<request, response, requestQueue, host, conn, trouble>>
Drop(c) ==
  /\ CallAt(c, "have") /\ GoesWrong
  /\ channel' = [channel EXCEPT ![c].message = Released(@)]
  /\ call' = [call EXCEPT ![c].pc = "release_data", ![c].result = "dropped"]
  /\ UNCHANGED <<request, response, requestQueue, host, conn>>
ReleaseData(c) ==
  /\ CallAt(c, "release_data")
  /\ channel' = [channel EXCEPT ![c].data = Released(@)]
  /\ CallGoto(c, "close_data")
  /\ UNCHANGED <<request, response, requestQueue, host, conn, trouble>>

\* ~Channel of data_, then of message_: close_for_write and read the write
\* count, wait for the read count, and destroy the watches, which closes them.
Closing(ch) == [ch EXCEPT !.open = FALSE, !.target = ch.written]
CloseData(c) ==
  /\ CallAt(c, "close_data")
  /\ channel' = [channel EXCEPT ![c].data = Closing(@)]
  /\ CallGoto(c, "wait_data")
  /\ UNCHANGED <<request, response, requestQueue, host, conn, trouble>>
DestroyData(c) ==
  /\ CallAt(c, "wait_data") /\ channel[c].data.read = channel[c].data.target
  /\ channel' = [channel EXCEPT ![c].data.gone = TRUE, ![c].message = Closing(@)]
  /\ CallGoto(c, "wait_message")
  /\ UNCHANGED <<request, response, requestQueue, host, conn, trouble>>
DestroyMessage(c) ==
  /\ CallAt(c, "wait_message") /\ channel[c].message.read = channel[c].message.target
  /\ channel' = [channel EXCEPT ![c].message.gone = TRUE]
  /\ CallGoto(c, "unpin")
  /\ UNCHANGED <<request, response, requestQueue, host, conn, trouble>>

\* ~Watch of state_, then ~Pinnable, which waits for the Pins.
DestroyResponse(c) ==
  /\ CallAt(c, "unpin")
  /\ ~ PinsResponse(c)
  /\ CallGoto(c, IF call[c].result = "error" THEN "leave" ELSE "returned")
  /\ UNCHANGED <<request, response, channel, requestQueue, host, conn, trouble>>

-----------------------------------------------------------------------------
(* host_task_main: a connection more when there are requests, then wait    *)
(* for the size of the queue to change.                                    *)

CanGrow == host.size < host.max
HostLook ==
  LET grow == requestQueue # <<>> /\ CanGrow IN
  /\ host.pc = "look"
  /\ host' = [host EXCEPT !.pc = "await", !.depth = Len(requestQueue),
                         !.size = IF grow THEN @ + 1 ELSE @]
  /\ conn' = IF grow THEN [conn EXCEPT ![host.size + 1].req = "next", ![host.size + 1].rsp = "next"]
             ELSE conn
  /\ UNCHANGED <<call, request, response, channel, requestQueue, trouble>>

HostAwait ==
  /\ host.pc = "await"
  /\ host' = [host EXCEPT !.pc = IF Len(requestQueue) # host.depth THEN "look" ELSE "waiting"]
  /\ UNCHANGED <<call, request, response, channel, requestQueue, conn, trouble>>

-----------------------------------------------------------------------------
(* process_requests.                                                       *)

ReqAt(k, pc) == conn[k].req = pc
Current(k) == conn[k].cur[1]

NextRequest(k) ==
  /\ ReqAt(k, "next") /\ requestQueue # <<>>
  /\ requestQueue' = Tail(requestQueue)
  /\ conn' = [conn EXCEPT ![k].cur = <<Head(requestQueue)>>,
                          ![k].req = "request"]
  /\ HostNotified
  /\ UNCHANGED <<call, request, response, channel, trouble>>

\* A failure closes the state of the request, and the task ends.
OpenFails(k) ==
  /\ ReqAt(k, "request") /\ ~ conn[k].connected /\ GoesWrong
  /\ request' = [request EXCEPT ![Current(k)].open = FALSE]
  /\ conn' = [conn EXCEPT ![k].req = "exit"]
  /\ UNCHANGED <<call, response, channel, requestQueue, host>>

\* open_connection, if need be, which starts fill_input_buffer; then push the
\* response.
Push(k) ==
  /\ ReqAt(k, "request")
  /\ conn' = [conn EXCEPT ![k].connected = TRUE, ![k].fill = IF conn[k].connected THEN @ ELSE "read",
                          ![k].rq = Append(@, Current(k)), ![k].req = "serialize"]
  /\ UNCHANGED <<call, request, response, channel, requestQueue, host, trouble>>

\* The reply may come, and the response be made ready, before the state of the
\* request is set, which is what the caller waits for first.
Serialize(k) ==
  /\ ReqAt(k, "serialize") /\ conn[k].socket = "open"
  /\ conn' = [conn EXCEPT ![k].sent = Append(@, Current(k)), ![k].req = "set"]
  /\ UNCHANGED <<call, request, response, channel, requestQueue, host, trouble>>
SetConsumed(k) ==
  /\ ReqAt(k, "set")
  /\ request' = [request EXCEPT ![Current(k)].state = kConsumed]
  /\ conn' = [conn EXCEPT ![k].req = "unpin"]
  /\ UNCHANGED <<call, response, channel, requestQueue, host, trouble>>

\* serialize fails on a closed socket, and may after the server has gone;
\* then the task ends and the request is left as it is.
SerializeFails(k) ==
  /\ ReqAt(k, "serialize") /\ (conn[k].socket = "closed" \/ conn[k].hup)
  /\ conn' = [conn EXCEPT ![k].req = "exit"]
  /\ UNCHANGED <<call, request, response, channel, requestQueue, host, trouble>>

UnpinBoth(k) ==
  /\ ReqAt(k, "unpin")
  /\ conn' = [conn EXCEPT ![k].req = "next", ![k].cur = <<>>]
  /\ UNCHANGED <<call, request, response, channel, requestQueue, host, trouble>>

\* The Pins go, then on_exit.
RequestsExit(k) ==
  /\ \/ /\ ReqAt(k, "exit")
        /\ conn' = [conn EXCEPT ![k].cur = <<>>, ![k].rqOpen = FALSE, ![k].req = "join"]
     \/ /\ ReqAt(k, "join") /\ conn[k].fill \in {"none", "done"}
        /\ conn' = [conn EXCEPT ![k].req = "done"]
  /\ UNCHANGED <<call, request, response, channel, requestQueue, host, trouble>>

-----------------------------------------------------------------------------
(* fill_input_buffer.                                                      *)

\* A read, and the next prepare_at_least, which fails after close_for_read.
Filled(k, t) ==
  [conn[k] EXCEPT !.input = Append(@, t), !.fill = IF conn[k].readClosed THEN "done" ELSE "read",
                  !.ended = conn[k].readClosed]
ReadSome(k) ==
  /\ conn[k].fill = "read" /\ conn[k].socket = "open" /\ conn[k].wire # <<>>
  /\ conn' = [conn EXCEPT ![k] = [Filled(k, Head(conn[k].wire)) EXCEPT !.wire = Tail(@)]]
  /\ UNCHANGED <<call, request, response, channel, requestQueue, host, trouble>>

ReadFails(k) ==
  /\ conn[k].fill = "read"
  /\ conn[k].socket = "closed" \/ (conn[k].hup /\ conn[k].wire = <<>>)
  /\ conn' = [conn EXCEPT ![k].fill = "done", ![k].ended = TRUE]
  /\ UNCHANGED <<call, request, response, channel, requestQueue, host, trouble>>

-----------------------------------------------------------------------------
(* process_responses: takes a response from the queue and reads the head of *)
(* the reply to it.                                                        *)

RspAt(k, pc) == conn[k].rsp = pc
Answered(k) == conn[k].rcur[1]
\* The task ends: its Pin goes, and close_for_read.
ResponsesExit(k) == [conn[k] EXCEPT !.rsp = "done", !.rcur = <<>>, !.readClosed = TRUE]

NoResponse(k) ==
  /\ RspAt(k, "next")
  /\ IF conn[k].rq = <<>> THEN ~ conn[k].rqOpen ELSE conn[k].input = <<>> /\ conn[k].ended
  /\ conn' = [conn EXCEPT ![k] = [ResponsesExit(k) EXCEPT
                !.rq = IF conn[k].rq = <<>> THEN @ ELSE Tail(@)]]
  /\ UNCHANGED <<call, request, response, channel, requestQueue, host, trouble>>

\* ResponseInfo::is_valid, and the failures of read_next_response.
IsValid(t) == t.kind \in {"length", "close"}
Parses(t) == IsValid(t) \/ t.kind = "invalid"

NextResponse(k) ==
  /\ RspAt(k, "next") /\ conn[k].rq # <<>> /\ conn[k].input # <<>>
  /\ LET t == Head(conn[k].input)
         c == Head(conn[k].rq)
         taken == [conn EXCEPT ![k].rq = Tail(@)] IN
     IF IsValid(t)
     THEN /\ response' = [response EXCEPT ![c].state = kInitialized]
          /\ conn' = [taken EXCEPT ![k].rcur = <<c>>, ![k].rsp = "test_message", ![k].left = t.len,
                                   ![k].keep = t.kind = "length"]
     ELSE /\ response' = [response EXCEPT ![c].open = ~ Parses(t)]
          /\ conn' = [taken EXCEPT ![k] = [ResponsesExit(k) EXCEPT !.rq = Tail(@)]]
  /\ UNCHANGED <<call, request, channel, requestQueue, host, trouble>>

\* Channel::write of the message, then of the data: is it closed, count the
\* write, wait for the read.
Writing(k) == IF conn[k].rsp \in {"test_message", "add_message", "wait_message"} THEN "message" ELSE "data"
WriteTo(k) == channel[Answered(k)][Writing(k)]
\* What follows the message, and what follows the data.
Written(k, ok) ==
  CASE Writing(k) = "message" /\ ok -> [conn[k] EXCEPT !.rsp = "test_data", !.input = Tail(@)]
    [] Writing(k) = "message" /\ ~ ok -> ResponsesExit(k)
    [] OTHER -> [conn[k] EXCEPT !.rsp = "drain"]
WriteTest(k) ==
  /\ conn[k].rsp \in {"test_message", "test_data"}
  /\ conn' = [conn EXCEPT ![k] =
                IF ~ WriteTo(k).open THEN Written(k, FALSE)
                ELSE [@ EXCEPT !.rsp = IF Writing(k) = "message" THEN "add_message" ELSE "add_data"]]
  /\ UNCHANGED <<call, request, response, channel, requestQueue, host, trouble>>
WriteAdd(k) ==
  /\ conn[k].rsp \in {"add_message", "add_data"}
  /\ channel' = [channel EXCEPT ![Answered(k)][Writing(k)].written = 1]
  /\ conn' = [conn EXCEPT ![k].rsp = IF Writing(k) = "message" THEN "wait_message" ELSE "wait_data"]
  /\ UNCHANGED <<call, request, response, requestQueue, host, trouble>>
WriteWait(k) ==
  /\ conn[k].rsp \in {"wait_message", "wait_data"}
  /\ WriteTo(k).read = 1 \/ WriteTo(k).gone
  /\ conn' = [conn EXCEPT ![k] = Written(k, WriteTo(k).read = 1)]
  /\ UNCHANGED <<call, request, response, channel, requestQueue, host, trouble>>

\* keep_alive: consume what is left of the body.  The fetch that finds the end
\* of the body waits for the first byte after it, or for the end of the stream.
Drained_Not(k) == TRUE
Drained(k) ==
  IF conn[k].input = <<>> THEN conn[k].ended ELSE conn[k].left = 0
Drain(k) ==
  /\ RspAt(k, "drain") /\ conn[k].keep
  /\ IF Drained(k)
     THEN conn' = [conn EXCEPT ![k].rsp = "next", ![k].rcur = <<>>]
     ELSE /\ conn[k].left > 0 /\ conn[k].input # <<>>
          /\ conn' = [conn EXCEPT ![k].left = @ - 1, ![k].input = Tail(@)]
  /\ UNCHANGED <<call, request, response, channel, requestQueue, host, trouble>>
CloseSocket(k) ==
  /\ RspAt(k, "drain") /\ ~ conn[k].keep
  /\ conn' = [conn EXCEPT ![k] = [ResponsesExit(k) EXCEPT !.socket = "closed"]]
  /\ UNCHANGED <<call, request, response, channel, requestQueue, host, trouble>>

-----------------------------------------------------------------------------
(* The server answers in order.  The replies: of a given length; one that  *)
(* ends the connection, in order if no other call waits for an answer; one *)
(* with neither length nor end; one that is no reply; one that breaks off  *)
(* before its body.  (Bound: no server ends one of MaxConnections          *)
(* connections.)  A reply is made when its head arrives.                   *)

Token(c, kind, len) == [of |-> c, kind |-> kind, len |-> len]
Waits(c) == call[c].pc \in {"idle", "await"}
InOrder(c, kind) ==
  \/ kind = "length"
  \/ kind = "close" /\ trouble.left > 0 /\ \A d \in Calls \ {c} : ~ Waits(d)
Reply(k, kind, len) ==
  LET c == Head(conn[k].sent)
      body == IF kind = "short" THEN <<>> ELSE [i \in 1 .. len |-> Token(c, "body", 0)] IN
  /\ conn[k].sent # <<>> /\ conn[k].wire = <<>> /\ ~ conn[k].hup
  /\ conn[k].fill = "read" /\ conn[k].socket = "open"
  /\ IF InOrder(c, kind) THEN UNCHANGED trouble ELSE GoesWrong
  /\ conn' = [conn EXCEPT ![k] =
       [Filled(k, Token(c, IF kind = "short" THEN "length" ELSE kind, len)) EXCEPT
          !.sent = Tail(@), !.wire = body, !.hup = kind \in {"close", "short"}]]
  /\ UNCHANGED <<call, request, response, channel, requestQueue, host>>

\* It hangs up on a connection that is idle for good, or too early.
AllAnswered == \A c \in Calls : ~ Waits(c)
HangUp(k) ==
  /\ conn[k].connected /\ ~ conn[k].hup
  /\ IF AllAnswered THEN UNCHANGED trouble ELSE GoesWrong
  /\ conn' = [conn EXCEPT ![k].hup = TRUE]
  /\ UNCHANGED <<call, request, response, channel, requestQueue, host>>

-----------------------------------------------------------------------------
CallerStep(c) ==
  \/ Submit(c) \/ ReturnResponse(c) \/ ReturnError(c) \/ DestroyRequest(c)
  \/ AwaitData(c) \/ ReleaseData(c)
  \/ CloseData(c) \/ DestroyData(c) \/ DestroyMessage(c) \/ DestroyResponse(c)

HostStep == HostLook \/ HostAwait

RequestsStep(k) ==
  \/ NextRequest(k) \/ Push(k) \/ Serialize(k) \/ SetConsumed(k) \/ SerializeFails(k)
  \/ UnpinBoth(k) \/ RequestsExit(k)
FillStep(k) == ReadSome(k) \/ ReadFails(k)
ResponsesStep(k) ==
  \/ NextResponse(k) \/ NoResponse(k)
  \/ WriteTest(k) \/ WriteAdd(k) \/ WriteWait(k) \/ Drain(k) \/ CloseSocket(k)
ServerStep(k) == \E kind \in ReplyKinds : Reply(k, kind, BodyLength)

HttpStep ==
  \/ \E c \in Calls : CallerStep(c) \/ Destroy(c) \/ Drop(c) \/ \E k \in Connections : ReadBody(c, k)
  \/ HostStep
  \/ \E k \in Connections :
       \/ RequestsStep(k) \/ OpenFails(k) \/ FillStep(k) \/ ResponsesStep(k)
       \/ ServerStep(k) \/ HangUp(k)

\* Every task and every caller runs on, a caller does not keep a response for
\* ever, and the server answers and at last hangs up.  No step can be taken
\* for ever, so it is enough that one of them is taken while one can be.
MustGoOn ==
  \/ \E c \in Calls : CallerStep(c) \/ Destroy(c)
  \/ HostStep
  \/ \E k \in Connections :
       \/ RequestsStep(k) \/ FillStep(k) \/ ResponsesStep(k)
       \/ ServerStep(k) \/ (AllAnswered /\ HangUp(k))
Spec == HttpInit /\ [][HttpStep]_httpVars /\ WF_httpVars(MustGoOn)

-----------------------------------------------------------------------------
\* A caller gets the reply to its own request: with requests pipelined on a
\* connection, bodies read or left unread, and replies still arriving, the
\* head that process_responses finds is the one for the response it holds, and
\* what the caller reads is the body that follows it.  It is about replies with
\* a Content-Length, and those that end the connection; chunked ones are left
\* out.
ResponseMatches ==
  /\ \A k \in Connections :
       /\ RspAt(k, "next") /\ conn[k].rq # <<>> /\ conn[k].input # <<>> =>
            /\ Head(conn[k].input).of = Head(conn[k].rq)
            /\ Head(conn[k].input).kind # "body"
       /\ conn[k].rsp \in {"wait_message", "add_message"} => Head(conn[k].input).of = Answered(k)
  /\ \A c \in Calls : \A i \in DOMAIN call[c].body : call[c].body[i] = Token(c, "body", 0)

\* No destructor overtakes the tasks that work on a request or a response.  A
\* caller leaves http_request, and so destroys its request, only after
\* process_requests has set or closed the state, and can destroy its response
\* only after process_responses has taken it off its queue.  Every write to a
\* channel of the response finds it open, its destructor not begun, and so does
\* the wait for the message to be read; that is true only of callers that do not
\* give the response up before they ask for the data (see Drop).
ObjectsLive ==
  \A k \in Connections :
    /\ conn[k].req \in {"request", "serialize", "set"} => CallAt(Current(k), "await")
    /\ \A i \in DOMAIN conn[k].rq : CallAt(conn[k].rq[i], "await")
    /\ /\ conn[k].rsp \in {"test_message", "add_message", "wait_message", "test_data", "add_data"}
       /\ call[Answered(k)].result # "dropped"
       => WriteTo(k).open

\* As long as the server answers in order and the callers ask for the data of
\* what they get, every call returns and every response can be destroyed, the
\* requests that the host's task misses included.  The server may end the
\* connection with the last answer; if it does so earlier, nothing is claimed.
CallsReturn == \A c \in Calls : <>(CallAt(c, "returned") \/ trouble.seen)

\* "... the response has been read and parsed; ... so that any errors in the
\* response can be reported via StatusCode from this function."
ErrorsReported ==
  \A c \in Calls : request[c].state = kConsumed ~> call[c].result # "none"
=============================================================================
